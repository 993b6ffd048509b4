--------------------------- MODULE VitaChan_proofs ----------------------------
(* Proofs about VitaChan, for any sets of threads and any capacity: delivery   *)
(* in order, the capacity bound, what a disconnect means, and that neither     *)
(* condition variable ever loses a wakeup, although both are notified after    *)
(* the mutex was released and the handle counters are not under the mutex.     *)
EXTENDS VitaChan, FiniteSetTheorems, SequenceTheorems, TLAPS

Items == Senders \X Nat

\* The threads of R whose place, in f, is one of X, and their number.
At(f, R, X) == {t \in R : f[t] \in X}
Num(f, R, X) == Cardinality(At(f, R, X))

\* A thread that owns a counted handle; one that holds or will take the mutex.
Owning == {"idle", "lock", "body", "park", "wait", "notify"}
Awake == {"lock", "body"}
Notifying == {"notify"}

\* The mutex is held exactly by the thread that runs under it.
MutexHeld == \A t \in Threads : pc[t] \in {"body", "park"} <=> lock = t

\* The counters are the numbers of live handles.
HandlesCounted ==
    /\ sender_count = Num(pc, Senders, Owning)
    /\ receiver_count = Num(pc, Receivers, Owning)

\* A thread that has decided to wait still has its reason: it holds the mutex, so
\* the queue has not changed since.
ParkHasReason ==
    /\ \A r \in Receivers : pc[r] = "park" => queue = <<>>
    /\ \A s \in Senders : pc[s] = "park" => IsFull(Len(queue))

\* Nobody waits for room in an unbounded channel.
UnboundedNeverFull == cap = Unbounded => \A s \in Senders : pc[s] \notin {"park", "wait"}

\* ItemsHaveWakers and SlotsHaveWakers, with the counts as functions of pc.
ItemsCovered ==
    (\E r \in Receivers : pc[r] = "wait") =>
        Len(queue) <= Num(pc, Receivers, Awake) + Num(pc, Senders, Notifying)
SlotsCovered ==
    (cap # Unbounded /\ (\E s \in Senders : pc[s] = "wait") /\ receiver_count > 0) =>
        cap - Len(queue) <= Num(pc, Senders, Awake) + Num(pc, Receivers, Notifying)

\* The inductive invariant.
IInv ==
    /\ TypeOK /\ MutexHeld /\ HandlesCounted /\ ParkHasReason /\ UnboundedNeverFull
    /\ FifoDelivery /\ WithinCapacity /\ DisconnectIsFinal
    /\ ItemsCovered /\ SlotsCovered

-------------------------------------------------------------------------------
\* The capacity is a positive number or Unbounded.
LEMMA CapType == cap \in (Nat \ {0}) \cup {Unbounded} /\ Unbounded \notin Nat
BY ChanAssumption DEF cap

\* The threads are finitely many and none is both a sender and a receiver.
LEMMA ThreadSets ==
  /\ IsFiniteSet(Senders) /\ IsFiniteSet(Receivers)
  /\ Senders \subseteq Threads /\ Receivers \subseteq Threads
  /\ \A t \in Threads : t \in Senders \/ t \in Receivers
  /\ \A t \in Senders : t \notin Receivers
  /\ NoThread \notin Threads
BY ChanAssumption DEF Threads

\* g is f with thread t moved to v.
Moves(f, g, t, v) ==
    /\ f \in [Threads -> PCs] /\ t \in Threads /\ v \in PCs
    /\ g = [f EXCEPT ![t] = v]

Group(R) == IsFiniteSet(R) /\ R \subseteq Threads

LEMMA Groups == Group(Senders) /\ Group(Receivers)
BY ThreadSets DEF Group

\* Moving one thread from a place to another changes the number of threads at X
\* by one, or not at all.
LEMMA MoveOne ==
  ASSUME NEW R, Group(R), NEW f, NEW g, NEW t, NEW v, Moves(f, g, t, v), NEW X
  PROVE  /\ Num(f, R, X) \in Nat /\ Num(g, R, X) \in Nat
         /\ (t \notin R \/ (f[t] \in X <=> v \in X)) => Num(g, R, X) = Num(f, R, X)
         /\ (t \in R /\ f[t] \notin X /\ v \in X) => Num(g, R, X) = Num(f, R, X) + 1
         /\ (t \in R /\ f[t] \in X /\ v \notin X) => Num(g, R, X) = Num(f, R, X) - 1
<1> USE DEF Group, Moves
<1> DEFINE A == At(f, R, X)
           B == At(g, R, X)
<1>1. IsFiniteSet(A) /\ IsFiniteSet(B)
  BY FS_Subset DEF At
<1>2. Cardinality(A) \in Nat /\ Cardinality(B) \in Nat
  BY <1>1, FS_CardinalityType
<1>3. ASSUME t \notin R \/ (f[t] \in X <=> v \in X)
      PROVE  Cardinality(B) = Cardinality(A)
  <2>1. A = B
    BY <1>3 DEF At
  <2> QED BY <2>1
<1>4. ASSUME t \in R, f[t] \notin X, v \in X
      PROVE  Cardinality(B) = Cardinality(A) + 1
  <2>1. B = A \cup {t} /\ t \notin A
    BY <1>4 DEF At
  <2> HIDE DEF A, B
  <2> QED BY <1>1, <2>1, FS_AddElement
<1>5. ASSUME t \in R, f[t] \in X, v \notin X
      PROVE  Cardinality(B) = Cardinality(A) - 1
  <2>1. B = A \ {t} /\ t \in A
    BY <1>5 DEF At
  <2> HIDE DEF A, B
  <2> QED BY <1>1, <2>1, FS_RemoveElement
<1> QED BY <1>2, <1>3, <1>4, <1>5 DEF Num

\* The numbers in the invariant are natural numbers.
LEMMA NumType ==
  ASSUME NEW f \in [Threads -> PCs], NEW X
  PROVE  Num(f, Senders, X) \in Nat /\ Num(f, Receivers, X) \in Nat
<1>1. IsFiniteSet(At(f, Senders, X)) /\ IsFiniteSet(At(f, Receivers, X))
  BY ThreadSets, FS_Subset DEF At
<1> QED BY <1>1, FS_CardinalityType DEF Num

\* Appending to the second of two concatenated sequences.
LEMMA AppendToConcat ==
  ASSUME NEW S, NEW a \in Seq(S), NEW b \in Seq(S), NEW x \in S
  PROVE  a \o Append(b, x) = Append(a \o b, x)
<1>1. <<x>> \in Seq(S) /\ a \o b \in Seq(S)
  OBVIOUS
<1>2. a \o (b \o <<x>>) = (a \o b) \o <<x>>
  BY <1>1, ConcatAssociative
<1>3. Append(b, x) = b \o <<x>> /\ Append(a \o b, x) = (a \o b) \o <<x>>
  BY <1>1, AppendIsConcat
<1> QED BY <1>2, <1>3

\* Moving the head of the second of two concatenated sequences to the first.
LEMMA HeadToConcat ==
  ASSUME NEW S, NEW a \in Seq(S), NEW b \in Seq(S), b # <<>>
  PROVE  Append(a, Head(b)) \o Tail(b) = a \o b
<1>1. Head(b) \in S /\ Tail(b) \in Seq(S) /\ <<Head(b)>> \in Seq(S)
  BY HeadTailProperties
<1>2. Append(a, Head(b)) = a \o <<Head(b)>>
  BY <1>1, AppendIsConcat
<1>3. (a \o <<Head(b)>>) \o Tail(b) = a \o (<<Head(b)>> \o Tail(b))
  BY SMTT(40), <1>1, ConcatAssociative
<1>4. <<Head(b)>> \o Tail(b) = b
  BY <1>1
<1> QED BY <1>2, <1>3, <1>4

\* A thread that owns a handle is counted.
LEMMA OwnerCounted ==
  ASSUME IInv, NEW t \in Threads, pc[t] \in Owning
  PROVE  (t \in Senders => sender_count > 0) /\ (t \in Receivers => receiver_count > 0)
<1>1. pc \in [Threads -> PCs] /\ HandlesCounted
  BY DEF IInv, TypeOK
<1>2. IsFiniteSet(At(pc, Senders, Owning)) /\ IsFiniteSet(At(pc, Receivers, Owning))
  BY ThreadSets, FS_Subset DEF At
<1>3. (t \in Senders => At(pc, Senders, Owning) # {})
      /\ (t \in Receivers => At(pc, Receivers, Owning) # {})
  BY DEF At
<1>4. (t \in Senders => Num(pc, Senders, Owning) # 0)
      /\ (t \in Receivers => Num(pc, Receivers, Owning) # 0)
  BY <1>2, <1>3, FS_EmptySet DEF Num
<1> QED BY <1>1, <1>4, NumType DEF HandlesCounted

-------------------------------------------------------------------------------
\* bounded() and unbounded() establish the invariant.
LEMMA InitIInv == Init => IInv
<1> SUFFICES ASSUME Init PROVE IInv
  OBVIOUS
<1>1. PICK s \in Senders, r \in Receivers :
         pc = [t \in Threads |-> IF t \in {s, r} THEN "idle" ELSE "gone"]
  BY DEF Init
<1>2. TypeOK
  BY <1>1, ThreadSets DEF Init, TypeOK, PCs, Rems, Results
<1>3. HandlesCounted
  <2>1. At(pc, Senders, Owning) = {s} /\ At(pc, Receivers, Owning) = {r}
    BY <1>1, ThreadSets DEF At, Owning
  <2> QED BY Zenon, <2>1, FS_Singleton DEF HandlesCounted, Num, Init
<1>4. \A t \in Threads : pc[t] \in {"idle", "gone"}
  BY <1>1
<1>5. MutexHeld /\ ParkHasReason /\ UnboundedNeverFull /\ ItemsCovered /\ SlotsCovered
  BY <1>4, ThreadSets
     DEF Init, MutexHeld, ParkHasReason, UnboundedNeverFull, ItemsCovered, SlotsCovered
<1>6. FifoDelivery /\ WithinCapacity /\ DisconnectIsFinal
  BY CapType, ThreadSets DEF Init, FifoDelivery, WithinCapacity, DisconnectIsFinal
<1> QED BY <1>2, <1>3, <1>5, <1>6 DEF IInv

\* A thread that owns no fewer handles than before, is awake if it was, and does
\* not start to wait, disturbs no count.
LEMMA QuietMove ==
  ASSUME IInv, NEW t \in Threads, NEW v \in PCs, Moves(pc, pc', t, v), v # "wait",
         pc[t] \in Owning <=> v \in Owning,
         pc[t] \in Awake => v \in Awake,
         pc[t] \in Notifying => v \in Notifying,
         queue' = queue, receiver_count' = receiver_count, sender_count' = sender_count
  PROVE  HandlesCounted' /\ ItemsCovered' /\ SlotsCovered'
<1>1. Len(queue) \in Nat /\ HandlesCounted /\ ItemsCovered /\ SlotsCovered
  BY DEF IInv, TypeOK
<1>2. \A u \in Threads : pc'[u] = "wait" => pc[u] = "wait"
  BY DEF Moves
<1>3. /\ Num(pc, Receivers, Awake) \in Nat /\ Num(pc, Senders, Notifying) \in Nat
      /\ Num(pc, Senders, Awake) \in Nat /\ Num(pc, Receivers, Notifying) \in Nat
      /\ Num(pc', Receivers, Awake) \in Nat /\ Num(pc', Senders, Notifying) \in Nat
      /\ Num(pc', Senders, Awake) \in Nat /\ Num(pc', Receivers, Notifying) \in Nat
  BY Groups, MoveOne
<1>4. /\ Num(pc', Senders, Owning) = Num(pc, Senders, Owning)
      /\ Num(pc', Receivers, Owning) = Num(pc, Receivers, Owning)
  BY Groups, MoveOne
<1>5. /\ Num(pc', Receivers, Awake) >= Num(pc, Receivers, Awake)
      /\ Num(pc', Senders, Awake) >= Num(pc, Senders, Awake)
  BY SMTT(40), <1>3, Groups, MoveOne
<1>6. /\ Num(pc', Receivers, Notifying) >= Num(pc, Receivers, Notifying)
      /\ Num(pc', Senders, Notifying) >= Num(pc, Senders, Notifying)
  BY <1>3, Groups, MoveOne
<1>7. HandlesCounted'
  BY <1>1, <1>4 DEF HandlesCounted
<1>8. ItemsCovered'
  BY SMTT(40), <1>1, <1>2, <1>3, <1>5, <1>6, ThreadSets DEF ItemsCovered
<1>9. SlotsCovered'
  BY SMTT(40), <1>1, <1>2, <1>3, <1>5, <1>6, ThreadSets, CapType DEF SlotsCovered
<1> QED BY <1>7, <1>8, <1>9

\* A call begins.
LEMMA CallIInv == ASSUME IInv, NEW t \in Threads, Call(t) PROVE IInv'
<1> USE DEF IInv
<1>1. Moves(pc, pc', t, "lock") /\ pc[t] = "idle"
  BY DEF Call, Moves, TypeOK, PCs
<1>2. TypeOK'
  BY DEF TypeOK, Call, PCs
<1>3. MutexHeld' /\ ParkHasReason' /\ UnboundedNeverFull'
  BY ZenonT(40), SMTT(40), ThreadSets DEF TypeOK, Call, MutexHeld, ParkHasReason, UnboundedNeverFull
<1>4. FifoDelivery' /\ WithinCapacity' /\ DisconnectIsFinal'
  BY DEF Call, FifoDelivery, WithinCapacity, DisconnectIsFinal
<1>5. HandlesCounted' /\ ItemsCovered' /\ SlotsCovered'
  BY Zenon, <1>1, QuietMove DEF Call, Owning, Awake, Notifying, PCs
<1> QED BY <1>2, <1>3, <1>4, <1>5

\* A thread takes the mutex.
LEMMA LockIInv == ASSUME IInv, NEW t \in Threads, Lock(t) PROVE IInv'
<1> USE DEF IInv
<1>1. Moves(pc, pc', t, "body") /\ pc[t] = "lock"
  BY DEF Lock, Moves, TypeOK, PCs
<1>2. TypeOK'
  BY DEF TypeOK, Lock, PCs
<1>3. MutexHeld' /\ ParkHasReason' /\ UnboundedNeverFull'
  BY ThreadSets DEF TypeOK, Lock, MutexHeld, ParkHasReason, UnboundedNeverFull
<1>4. FifoDelivery' /\ WithinCapacity' /\ DisconnectIsFinal'
  BY DEF Lock, FifoDelivery, WithinCapacity, DisconnectIsFinal
<1>5. HandlesCounted' /\ ItemsCovered' /\ SlotsCovered'
  BY Zenon, <1>1, QuietMove DEF Lock, Owning, Awake, Notifying, PCs
<1> QED BY <1>2, <1>3, <1>4, <1>5

\* A timed wait gives up.
LEMMA TimeoutIInv == ASSUME IInv, NEW t \in Threads, Timeout(t) PROVE IInv'
<1> USE DEF IInv
<1>1. Moves(pc, pc', t, "lock") /\ pc[t] = "wait"
  BY DEF Timeout, Moves, TypeOK, PCs
<1>2. TypeOK'
  BY DEF TypeOK, Timeout, PCs, Rems
<1>3. MutexHeld' /\ ParkHasReason' /\ UnboundedNeverFull'
  BY ThreadSets DEF TypeOK, Timeout, MutexHeld, ParkHasReason, UnboundedNeverFull
<1>4. FifoDelivery' /\ WithinCapacity' /\ DisconnectIsFinal'
  BY DEF Timeout, FifoDelivery, WithinCapacity, DisconnectIsFinal
<1>5. HandlesCounted' /\ ItemsCovered' /\ SlotsCovered'
  BY Zenon, <1>1, QuietMove DEF Timeout, Owning, Awake, Notifying, PCs
<1> QED BY <1>2, <1>3, <1>4, <1>5
-------------------------------------------------------------------------------
\* A thread that leaves the body of its call is the only one under the mutex.
LEMMA BodyMove ==
  ASSUME IInv, NEW t \in Threads, pc[t] = "body", NEW v \in {"idle", "notify", "park"},
         Moves(pc, pc', t, v), lock' = IF v = "park" THEN lock ELSE NoThread,
         sender_count' = sender_count, receiver_count' = receiver_count
  PROVE  /\ MutexHeld' /\ HandlesCounted'
         /\ \A u \in Threads : u # t => pc[u] # "park" /\ pc'[u] = pc[u]
         /\ \A u \in Threads : pc'[u] = "wait" => pc[u] = "wait"
<1>1. lock = t /\ MutexHeld /\ HandlesCounted
  BY DEF IInv, MutexHeld
<1>2. \A u \in Threads : pc'[u] = IF u = t THEN v ELSE pc[u]
  BY DEF Moves
<1>3. MutexHeld'
  BY ZenonT(40), SMTT(40), <1>1, <1>2, ThreadSets DEF MutexHeld
<1>4. /\ Num(pc', Senders, Owning) = Num(pc, Senders, Owning)
      /\ Num(pc', Receivers, Owning) = Num(pc, Receivers, Owning)
  BY SMTT(40), Groups, MoveOne DEF Owning
<1>5. HandlesCounted'
  BY ZenonT(40), SMTT(40), <1>1, <1>4 DEF HandlesCounted
<1> QED BY ZenonT(40), SMTT(40), <1>1, <1>2, <1>3, <1>5 DEF MutexHeld

\* What that does to the numbers, for a sender.
LEMMA SenderBodyMove ==
  ASSUME IInv, NEW s \in Senders, pc[s] = "body", NEW v \in {"idle", "notify", "park"},
         Moves(pc, pc', s, v)
  PROVE  /\ Num(pc, Senders, Awake) \in Nat /\ Num(pc, Receivers, Awake) \in Nat
         /\ Num(pc, Senders, Notifying) \in Nat /\ Num(pc, Receivers, Notifying) \in Nat
         /\ Num(pc', Senders, Awake) \in Nat
         /\ Num(pc', Senders, Awake) = Num(pc, Senders, Awake) - 1
         /\ Num(pc', Receivers, Awake) = Num(pc, Receivers, Awake)
         /\ Num(pc', Senders, Notifying) =
              Num(pc, Senders, Notifying) + (IF v = "notify" THEN 1 ELSE 0)
         /\ Num(pc', Receivers, Notifying) = Num(pc, Receivers, Notifying)
<1>1. s \in Threads /\ s \notin Receivers
  BY SMTT(40), ThreadSets
<1>2. /\ Num(pc, Senders, Awake) \in Nat /\ Num(pc, Receivers, Awake) \in Nat
      /\ Num(pc, Senders, Notifying) \in Nat /\ Num(pc, Receivers, Notifying) \in Nat
      /\ Num(pc', Senders, Awake) \in Nat
  BY ZenonT(40), SMTT(40), Groups, MoveOne
<1>3. /\ Num(pc', Senders, Awake) = Num(pc, Senders, Awake) - 1
      /\ Num(pc', Receivers, Awake) = Num(pc, Receivers, Awake)
  BY SMTT(40), <1>1, Groups, MoveOne DEF Awake
<1>4. /\ Num(pc', Senders, Notifying) =
              Num(pc, Senders, Notifying) + (IF v = "notify" THEN 1 ELSE 0)
      /\ Num(pc', Receivers, Notifying) = Num(pc, Receivers, Notifying)
  BY SMTT(40), <1>1, <1>2, Groups, MoveOne DEF Notifying
<1> QED BY ZenonT(40), SMTT(40), <1>2, <1>3, <1>4

\* The same for a receiver.
LEMMA ReceiverBodyMove ==
  ASSUME IInv, NEW r \in Receivers, pc[r] = "body", NEW v \in {"idle", "notify", "park"},
         Moves(pc, pc', r, v)
  PROVE  /\ Num(pc, Senders, Awake) \in Nat /\ Num(pc, Receivers, Awake) \in Nat
         /\ Num(pc, Senders, Notifying) \in Nat /\ Num(pc, Receivers, Notifying) \in Nat
         /\ Num(pc', Receivers, Awake) \in Nat
         /\ Num(pc', Receivers, Awake) = Num(pc, Receivers, Awake) - 1
         /\ Num(pc', Senders, Awake) = Num(pc, Senders, Awake)
         /\ Num(pc', Receivers, Notifying) =
              Num(pc, Receivers, Notifying) + (IF v = "notify" THEN 1 ELSE 0)
         /\ Num(pc', Senders, Notifying) = Num(pc, Senders, Notifying)
<1>1. r \in Threads /\ r \notin Senders
  BY ThreadSets
<1>2. /\ Num(pc, Senders, Awake) \in Nat /\ Num(pc, Receivers, Awake) \in Nat
      /\ Num(pc, Senders, Notifying) \in Nat /\ Num(pc, Receivers, Notifying) \in Nat
      /\ Num(pc', Receivers, Awake) \in Nat
  BY ZenonT(40), SMTT(40), Groups, MoveOne
<1>3. /\ Num(pc', Receivers, Awake) = Num(pc, Receivers, Awake) - 1
      /\ Num(pc', Senders, Awake) = Num(pc, Senders, Awake)
  BY SMTT(40), <1>1, Groups, MoveOne DEF Awake
<1>4. /\ Num(pc', Receivers, Notifying) =
              Num(pc, Receivers, Notifying) + (IF v = "notify" THEN 1 ELSE 0)
      /\ Num(pc', Senders, Notifying) = Num(pc, Senders, Notifying)
  BY SMTT(40), <1>1, <1>2, Groups, MoveOne DEF Notifying
<1> QED BY ZenonT(40), SMTT(40), <1>2, <1>3, <1>4
\* A sender under the mutex that does not push: no receiver is left, or no slot is.
LEMMA SendReturnsIInv ==
  ASSUME IInv, NEW s \in Senders, SendBody(s),
         SendDisconnected(s) \/ SendFull(s) \/ SendPark(s)
  PROVE  IInv'
<1> USE DEF IInv
<1>1. s \in Threads /\ s \notin Receivers /\ pc[s] = "body"
  BY ThreadSets DEF SendBody
<1>2. receiver_count = 0 \/ IsFull(Len(queue))
  BY DEF SendDisconnected, SendFull, SendPark
<1>3. PICK v \in {"idle", "notify", "park"} :
         /\ Moves(pc, pc', s, v) /\ lock' = (IF v = "park" THEN lock ELSE NoThread)
         /\ v # "notify" /\ (v = "park" => IsFull(Len(queue)))
  <2>1. CASE SendPark(s)
    BY ZenonT(40), SMTT(40), <1>1, <2>1 DEF SendPark, Moves, TypeOK, PCs
  <2>2. CASE SendDisconnected(s) \/ SendFull(s)
    BY ZenonT(40), SMTT(40), <1>1, <2>2 DEF SendDisconnected, SendFull, Return, Moves, TypeOK, PCs
  <2> QED BY ZenonT(40), SMTT(40), <2>1, <2>2
<1>4. /\ queue' = queue /\ sent' = sent /\ received' = received
      /\ sender_count' = sender_count /\ receiver_count' = receiver_count
      /\ rem' \in [Threads -> Rems] /\ calls' = calls
      /\ \A r \in Receivers : res'[r] = res[r]
  <2>1. /\ queue' = queue /\ sent' = sent /\ received' = received
        /\ sender_count' = sender_count /\ receiver_count' = receiver_count
        /\ calls' = calls
    BY DEF SendBody, SendDisconnected, SendFull, SendPark
  <2>2. res' = res \/ \E z \in Results : res' = [res EXCEPT ![s] = z]
    BY DEF SendDisconnected, SendFull, SendPark, Return, Results
  <2>3. rem' \in [Threads -> Rems]
    BY DEF SendDisconnected, SendFull, SendPark, Return, TypeOK, Rems
  <2> QED BY ZenonT(40), SMTT(40), <1>1, <2>1, <2>2, <2>3, ThreadSets DEF TypeOK
<1>5. TypeOK'
  <2>1. pc' \in [Threads -> PCs] /\ lock' \in Threads \cup {NoThread}
    BY <1>3 DEF TypeOK, Moves
  <2>2. res' \in [Threads -> Results]
    BY ZenonT(40) DEF SendDisconnected, SendFull, SendPark, Return, TypeOK, Results
  <2> QED BY ZenonT(40), SMTT(40), <1>4, <2>1, <2>2 DEF TypeOK
<1>6. /\ MutexHeld' /\ HandlesCounted'
      /\ \A u \in Threads : u # s => pc[u] # "park" /\ pc'[u] = pc[u]
      /\ \A u \in Threads : pc'[u] = "wait" => pc[u] = "wait"
  BY ZenonT(40), SMTT(40), <1>1, <1>3, <1>4, BodyMove
<1>7. pc'[s] = v
  BY ZenonT(40), SMTT(40), <1>3 DEF Moves
<1>8. ParkHasReason' /\ UnboundedNeverFull'
  BY ZenonT(40), SMTT(40), <1>1, <1>3, <1>4, <1>6, <1>7, ThreadSets DEF ParkHasReason, UnboundedNeverFull, IsFull
<1>9. FifoDelivery' /\ WithinCapacity' /\ DisconnectIsFinal'
  BY ZenonT(40), SMTT(40), <1>4 DEF FifoDelivery, WithinCapacity, DisconnectIsFinal
<1>10. /\ Num(pc, Receivers, Notifying) \in Nat /\ Num(pc', Senders, Awake) \in Nat
       /\ Num(pc', Receivers, Awake) = Num(pc, Receivers, Awake)
       /\ Num(pc', Senders, Notifying) = Num(pc, Senders, Notifying)
       /\ Num(pc', Receivers, Notifying) = Num(pc, Receivers, Notifying)
  BY SMTT(40), <1>1, <1>3, SenderBodyMove
<1>11. ItemsCovered'
  BY ZenonT(40), SMTT(40), <1>4, <1>6, <1>10, ThreadSets DEF ItemsCovered
<1>12. SlotsCovered'
  <2>1. receiver_count' > 0 /\ cap # Unbounded => cap \in Nat /\ Len(queue) >= cap
    BY SMTT(40), <1>2, <1>4, CapType DEF IsFull
  <2>2. Len(queue') \in Nat /\ queue' = queue
    BY SMTT(40), <1>4 DEF TypeOK
  <2> QED BY SMTT(40), <1>10, <2>1, <2>2 DEF SlotsCovered
<1> QED BY ZenonT(40), SMTT(40), <1>5, <1>6, <1>8, <1>9, <1>11, <1>12

\* A sender pushes.
LEMMA SendPushIInv ==
  ASSUME IInv, NEW s \in Senders, SendBody(s), SendPush(s) PROVE IInv'
<1> USE DEF IInv
<1> DEFINE x == <<s, calls[s]>>
<1>1. s \in Threads /\ s \notin Receivers /\ pc[s] = "body"
  BY ThreadSets DEF SendBody
<1>2. Moves(pc, pc', s, "notify") /\ lock' = NoThread
  BY <1>1 DEF SendPush, Moves, TypeOK, PCs
<1>3. /\ queue' = Append(queue, x) /\ sent' = Append(sent, x) /\ received' = received
      /\ sender_count' = sender_count /\ receiver_count' = receiver_count
      /\ rem' = rem /\ calls' = calls /\ res' = res
  BY DEF SendBody, SendPush, PushBack
<1>4. x \in Senders \X Nat
  BY <1>1 DEF TypeOK
<1> HIDE DEF x
<1>5. Len(queue') = Len(queue) + 1 /\ Len(queue) \in Nat /\ queue' \in Seq(Senders \X Nat)
  BY SMTT(40), <1>3, <1>4 DEF TypeOK
<1>6. TypeOK'
  <2>1. pc' \in [Threads -> PCs]
    BY ZenonT(40), SMTT(40), <1>2 DEF TypeOK, Moves
  <2> QED BY SMTT(40), <1>2, <1>3, <1>4, <1>5, <2>1 DEF TypeOK
<1>7. /\ MutexHeld' /\ HandlesCounted'
      /\ \A u \in Threads : u # s => pc[u] # "park" /\ pc'[u] = pc[u]
      /\ \A u \in Threads : pc'[u] = "wait" => pc[u] = "wait"
  BY ZenonT(40), SMTT(40), <1>1, <1>2, <1>3, BodyMove
<1>8. pc'[s] = "notify"
  BY ZenonT(40), SMTT(40), <1>2 DEF Moves
<1>9. ParkHasReason' /\ UnboundedNeverFull'
  BY ZenonT(40), SMTT(40), <1>1, <1>7, <1>8, ThreadSets DEF ParkHasReason, UnboundedNeverFull
<1>10. FifoDelivery'
  <2>1. received \in Seq(Items) /\ queue \in Seq(Items) /\ x \in Items
    BY <1>4 DEF TypeOK, Items
  <2>2. received \o Append(queue, x) = Append(received \o queue, x)
    BY SMTT(40), <2>1, AppendToConcat
  <2> QED BY ZenonT(40), SMTT(40), <1>3, <2>2 DEF FifoDelivery
<1>11. WithinCapacity'
  BY SMTT(40), <1>5, CapType DEF SendPush, IsFull, WithinCapacity
<1>12. DisconnectIsFinal'
  BY SMTT(40), <1>1, <1>3, OwnerCounted DEF DisconnectIsFinal, Owning
<1>13. /\ Num(pc, Senders, Awake) \in Nat /\ Num(pc, Receivers, Awake) \in Nat
       /\ Num(pc, Senders, Notifying) \in Nat /\ Num(pc, Receivers, Notifying) \in Nat
       /\ Num(pc', Senders, Awake) = Num(pc, Senders, Awake) - 1
       /\ Num(pc', Receivers, Awake) = Num(pc, Receivers, Awake)
       /\ Num(pc', Senders, Notifying) = Num(pc, Senders, Notifying) + 1
       /\ Num(pc', Receivers, Notifying) = Num(pc, Receivers, Notifying)
  BY ZenonT(40), SMTT(40), <1>1, <1>2, SenderBodyMove
<1>14. ItemsCovered'
  <2>1. (\E w \in Receivers : pc'[w] = "wait") => \E w \in Receivers : pc[w] = "wait"
    BY Zenon, <1>7, ThreadSets
  <2>2. (\E w \in Receivers : pc[w] = "wait") =>
           Len(queue) <= Num(pc, Receivers, Awake) + Num(pc, Senders, Notifying)
    BY Zenon DEF ItemsCovered
  <2>3. (\E w \in Receivers : pc'[w] = "wait") =>
           Len(queue') <= Num(pc', Receivers, Awake) + Num(pc', Senders, Notifying)
    <3> HIDE DEF IInv
    <3> QED BY SMTT(40), <1>5, <1>13, <2>1, <2>2
  <2> QED BY Zenon, <2>3 DEF ItemsCovered
<1>15. SlotsCovered'
  <2>1. (\E w \in Senders : pc'[w] = "wait") => \E w \in Senders : pc[w] = "wait"
    BY Zenon, <1>7, ThreadSets
  <2>2. (cap # Unbounded /\ (\E w \in Senders : pc[w] = "wait") /\ receiver_count > 0) =>
           cap - Len(queue) <= Num(pc, Senders, Awake) + Num(pc, Receivers, Notifying)
    BY Zenon DEF SlotsCovered
  <2>3. receiver_count' = receiver_count
    BY Zenon, <1>3
  <2>4. (cap # Unbounded /\ (\E w \in Senders : pc'[w] = "wait") /\ receiver_count' > 0) =>
           cap - Len(queue') <= Num(pc', Senders, Awake) + Num(pc', Receivers, Notifying)
    <3> HIDE DEF IInv
    <3> QED BY SMTT(40), <1>5, <1>13, <2>1, <2>2, <2>3, CapType
  <2> QED BY Zenon, <2>4 DEF SlotsCovered
<1> QED BY ZenonT(40), SMTT(40), <1>6, <1>7, <1>9, <1>10, <1>11, <1>12, <1>14, <1>15
\* A receiver under the mutex that does not pop: the queue is empty.
LEMMA RecvReturnsIInv ==
  ASSUME IInv, NEW r \in Receivers, RecvBody(r),
         RecvDisconnected(r) \/ RecvTimeout(r) \/ RecvPark(r)
  PROVE  IInv'
<1> USE DEF IInv
<1>1. r \in Threads /\ r \notin Senders /\ pc[r] = "body"
  BY SMTT(40), ThreadSets DEF RecvBody
<1>2. queue = <<>>
  BY DEF RecvDisconnected, RecvTimeout, RecvPark
<1>3. PICK v \in {"idle", "notify", "park"} :
         /\ Moves(pc, pc', r, v) /\ lock' = (IF v = "park" THEN lock ELSE NoThread)
         /\ v # "notify"
  <2>1. CASE RecvPark(r)
    BY ZenonT(40), SMTT(40), <1>1, <2>1 DEF RecvPark, Moves, TypeOK, PCs
  <2>2. CASE RecvDisconnected(r) \/ RecvTimeout(r)
    BY ZenonT(40), SMTT(40), <1>1, <2>2 DEF RecvDisconnected, RecvTimeout, Return, Moves, TypeOK, PCs
  <2> QED BY ZenonT(40), SMTT(40), <2>1, <2>2
<1>4. /\ queue' = queue /\ sent' = sent /\ received' = received
      /\ sender_count' = sender_count /\ receiver_count' = receiver_count
      /\ rem' \in [Threads -> Rems] /\ calls' = calls
  <2>1. rem' \in [Threads -> Rems]
    BY ZenonT(40), SMTT(40) DEF RecvDisconnected, RecvTimeout, RecvPark, Return, TypeOK, Rems
  <2> QED BY ZenonT(40), SMTT(40), <2>1 DEF RecvBody, RecvDisconnected, RecvTimeout, RecvPark
<1>5. PICK z \in Results : /\ res' = [res EXCEPT ![r] = z]
                           /\ z = "disconnected" => z = res[r] \/ sender_count = 0
  <2>1. CASE RecvPark(r)
    <3>1. res' = [res EXCEPT ![r] = res[r]] /\ res[r] \in Results
      BY ZenonT(40), SMTT(40), <1>1, <2>1 DEF RecvPark, TypeOK
    <3> QED BY ZenonT(40), <3>1
  <2>2. CASE RecvDisconnected(r)
    BY <2>2 DEF RecvDisconnected, Return, Results
  <2>3. CASE RecvTimeout(r)
    BY ZenonT(40), SMTT(40), <2>3 DEF RecvTimeout, Return, Results
  <2> QED BY ZenonT(40), SMTT(40), <2>1, <2>2, <2>3
<1>6. TypeOK'
  <2>1. pc' \in [Threads -> PCs] /\ lock' \in Threads \cup {NoThread}
    BY <1>3 DEF TypeOK, Moves
  <2>2. res' \in [Threads -> Results]
    BY ZenonT(40), <1>5 DEF TypeOK
  <2> QED BY ZenonT(40), SMTT(40), <1>4, <2>1, <2>2 DEF TypeOK
<1>7. /\ MutexHeld' /\ HandlesCounted'
      /\ \A u \in Threads : u # r => pc[u] # "park" /\ pc'[u] = pc[u]
      /\ \A u \in Threads : pc'[u] = "wait" => pc[u] = "wait"
  BY Zenon, <1>1, <1>3, <1>4, BodyMove
<1>8. ParkHasReason' /\ UnboundedNeverFull'
  BY ZenonT(40), SMTT(40), <1>1, <1>2, <1>4, <1>7, ThreadSets DEF ParkHasReason, UnboundedNeverFull
<1>9. FifoDelivery' /\ WithinCapacity'
  BY ZenonT(40), SMTT(40), <1>4 DEF FifoDelivery, WithinCapacity
<1>10. DisconnectIsFinal'
  <2>1. received = sent
    BY ZenonT(40), SMTT(40), <1>2, ConcatEmptySeq DEF FifoDelivery, TypeOK
  <2>2. \A u \in Receivers : res'[u] = "disconnected" => sender_count = 0
    BY ZenonT(40), SMTT(40), <1>1, <1>5, ThreadSets DEF DisconnectIsFinal, TypeOK
  <2> QED BY ZenonT(40), SMTT(40), <1>4, <2>1, <2>2 DEF DisconnectIsFinal
<1>11. /\ Num(pc, Senders, Notifying) \in Nat /\ Num(pc', Receivers, Awake) \in Nat
       /\ Num(pc', Senders, Awake) = Num(pc, Senders, Awake)
       /\ Num(pc', Senders, Notifying) = Num(pc, Senders, Notifying)
       /\ Num(pc', Receivers, Notifying) = Num(pc, Receivers, Notifying)
  BY SMTT(40), <1>1, <1>3, ReceiverBodyMove
<1>12. ItemsCovered'
  BY SMTT(40), <1>2, <1>4, <1>11 DEF ItemsCovered
<1>13. SlotsCovered'
  BY ZenonT(40), SMTT(40), <1>4, <1>7, <1>11, ThreadSets DEF SlotsCovered
<1> QED BY SMTT(40), <1>6, <1>7, <1>8, <1>9, <1>10, <1>12, <1>13

\* A receiver pops.
LEMMA RecvPopIInv ==
  ASSUME IInv, NEW r \in Receivers, RecvBody(r), RecvPop(r) PROVE IInv'
<1> USE DEF IInv
<1>1. r \in Threads /\ r \notin Senders /\ pc[r] = "body"
  BY ZenonT(40), SMTT(40), ThreadSets DEF RecvBody
<1>2. Moves(pc, pc', r, "notify") /\ lock' = NoThread
  BY ZenonT(40), SMTT(40), <1>1 DEF RecvPop, Moves, TypeOK, PCs
<1>3. /\ queue # <<>> /\ queue' = Tail(queue) /\ received' = Append(received, Head(queue))
      /\ sender_count' = sender_count /\ receiver_count' = receiver_count
      /\ rem' = rem /\ calls' = calls /\ res' = res /\ sent' = sent
  BY DEF RecvBody, RecvPop
<1>4. queue \in Seq(Items) /\ received \in Seq(Items)
  BY ZenonT(40), SMTT(40) DEF TypeOK, Items
<1>5. /\ Len(queue') = Len(queue) - 1 /\ Len(queue) \in Nat \ {0}
      /\ queue' \in Seq(Items) /\ received' \in Seq(Items)
  BY SMTT(40), <1>3, <1>4, HeadTailProperties, AppendProperties
<1>6. TypeOK'
  <2>1. pc' \in [Threads -> PCs]
    BY ZenonT(40), SMTT(40), <1>2 DEF TypeOK, Moves
  <2> QED BY ZenonT(40), SMTT(40), <1>2, <1>3, <1>5, <2>1 DEF TypeOK, Items
<1>7. /\ MutexHeld' /\ HandlesCounted'
      /\ \A u \in Threads : u # r => pc[u] # "park" /\ pc'[u] = pc[u]
      /\ \A u \in Threads : pc'[u] = "wait" => pc[u] = "wait"
  BY ZenonT(40), SMTT(40), <1>1, <1>2, <1>3, BodyMove
<1>8. pc'[r] = "notify"
  BY <1>2 DEF Moves
<1>9. ParkHasReason' /\ UnboundedNeverFull'
  BY ZenonT(40), SMTT(40), <1>1, <1>7, <1>8, ThreadSets DEF ParkHasReason, UnboundedNeverFull
<1>10. FifoDelivery'
  BY ZenonT(40), SMTT(40), <1>3, <1>4, HeadToConcat DEF FifoDelivery
<1>11. WithinCapacity'
  BY <1>5, CapType DEF WithinCapacity
<1>12. DisconnectIsFinal'
  <2>1. received # sent
    BY SMTT(40), <1>3, <1>4, ConcatEqualIffEmpty DEF FifoDelivery
  <2> QED BY SMTT(40), <1>3, <2>1 DEF DisconnectIsFinal
<1>13. /\ Num(pc, Senders, Awake) \in Nat /\ Num(pc, Receivers, Awake) \in Nat
       /\ Num(pc, Senders, Notifying) \in Nat /\ Num(pc, Receivers, Notifying) \in Nat
       /\ Num(pc', Receivers, Awake) = Num(pc, Receivers, Awake) - 1
       /\ Num(pc', Senders, Awake) = Num(pc, Senders, Awake)
       /\ Num(pc', Receivers, Notifying) = Num(pc, Receivers, Notifying) + 1
       /\ Num(pc', Senders, Notifying) = Num(pc, Senders, Notifying)
  BY ZenonT(40), SMTT(40), <1>1, <1>2, ReceiverBodyMove
<1>14. ItemsCovered'
  <2>1. (\E w \in Receivers : pc'[w] = "wait") => \E w \in Receivers : pc[w] = "wait"
    BY Zenon, <1>7, ThreadSets
  <2>2. (\E w \in Receivers : pc[w] = "wait") =>
           Len(queue) <= Num(pc, Receivers, Awake) + Num(pc, Senders, Notifying)
    BY Zenon DEF ItemsCovered
  <2>3. (\E w \in Receivers : pc'[w] = "wait") =>
           Len(queue') <= Num(pc', Receivers, Awake) + Num(pc', Senders, Notifying)
    <3> HIDE DEF IInv
    <3> QED BY SMTT(40), <1>5, <1>13, <2>1, <2>2
  <2> QED BY Zenon, <2>3 DEF ItemsCovered
<1>15. SlotsCovered'
  <2>1. (\E w \in Senders : pc'[w] = "wait") => \E w \in Senders : pc[w] = "wait"
    BY Zenon, <1>7, ThreadSets
  <2>2. (cap # Unbounded /\ (\E w \in Senders : pc[w] = "wait") /\ receiver_count > 0) =>
           cap - Len(queue) <= Num(pc, Senders, Awake) + Num(pc, Receivers, Notifying)
    BY Zenon DEF SlotsCovered
  <2>3. receiver_count' = receiver_count
    BY Zenon, <1>3
  <2>4. (cap # Unbounded /\ (\E w \in Senders : pc'[w] = "wait") /\ receiver_count' > 0) =>
           cap - Len(queue') <= Num(pc', Senders, Awake) + Num(pc', Receivers, Notifying)
    <3> HIDE DEF IInv
    <3> QED BY SMTT(40), <1>5, <1>13, <2>1, <2>2, <2>3, CapType
  <2> QED BY Zenon, <2>4 DEF SlotsCovered
<1> QED BY <1>6, <1>7, <1>9, <1>10, <1>11, <1>12, <1>14, <1>15
-------------------------------------------------------------------------------
\* A thread releases the mutex and waits; its reason to wait still holds.
LEMMA ParkIInv == ASSUME IInv, NEW t \in Threads, Park(t) PROVE IInv'
<1> USE DEF IInv
<1>1. Moves(pc, pc', t, "wait") /\ pc[t] = "park" /\ lock = t
  BY DEF Park, Moves, TypeOK, PCs, MutexHeld
<1>2. /\ queue' = queue /\ sent' = sent /\ received' = received /\ lock' = NoThread
      /\ sender_count' = sender_count /\ receiver_count' = receiver_count
      /\ rem' = rem /\ calls' = calls /\ res' = res
  BY DEF Park
<1>3. TypeOK'
  <2>1. pc' \in [Threads -> PCs]
    BY <1>1 DEF TypeOK, Moves
  <2> QED BY ZenonT(40), SMTT(40), <1>2, <2>1 DEF TypeOK
<1>4. \A u \in Threads : pc'[u] = IF u = t THEN "wait" ELSE pc[u]
  BY ZenonT(40), SMTT(40), <1>1 DEF Moves
<1>5. MutexHeld' /\ ParkHasReason'
  BY ZenonT(40), SMTT(40), <1>1, <1>2, <1>4, ThreadSets DEF MutexHeld, ParkHasReason
<1>6. UnboundedNeverFull'
  BY ZenonT(40), SMTT(40), <1>1, <1>4, ThreadSets DEF UnboundedNeverFull
<1>7. FifoDelivery' /\ WithinCapacity' /\ DisconnectIsFinal'
  BY ZenonT(40), SMTT(40), <1>2 DEF FifoDelivery, WithinCapacity, DisconnectIsFinal
<1>8. /\ Num(pc, Receivers, Awake) \in Nat /\ Num(pc, Senders, Notifying) \in Nat
      /\ Num(pc, Senders, Awake) \in Nat /\ Num(pc, Receivers, Notifying) \in Nat
  BY ZenonT(40), NumType DEF TypeOK
<1>9. /\ Num(pc', Senders, Owning) = Num(pc, Senders, Owning)
      /\ Num(pc', Receivers, Owning) = Num(pc, Receivers, Owning)
  BY SMTT(40), <1>1, Groups, MoveOne DEF Owning
<1>10. /\ Num(pc', Senders, Awake) = Num(pc, Senders, Awake)
       /\ Num(pc', Receivers, Awake) = Num(pc, Receivers, Awake)
  BY SMTT(40), <1>1, Groups, MoveOne DEF Awake
<1>11. /\ Num(pc', Senders, Notifying) = Num(pc, Senders, Notifying)
       /\ Num(pc', Receivers, Notifying) = Num(pc, Receivers, Notifying)
  BY SMTT(40), <1>1, Groups, MoveOne DEF Notifying
<1>12. HandlesCounted'
  BY ZenonT(40), SMTT(40), <1>2, <1>9 DEF HandlesCounted
<1>13. CASE t \in Receivers
  <2>1. queue = <<>> /\ t \notin Senders
    BY ZenonT(40), SMTT(40), <1>1, <1>13, ThreadSets DEF ParkHasReason
  <2>2. ItemsCovered'
    BY SMTT(40), <1>2, <1>8, <1>10, <1>11, <2>1 DEF ItemsCovered
  <2>3. SlotsCovered'
    BY ZenonT(40), SMTT(40), <1>2, <1>4, <1>10, <1>11, <2>1, ThreadSets DEF SlotsCovered
  <2> QED BY ZenonT(40), SMTT(40), <1>3, <1>5, <1>6, <1>7, <1>12, <2>2, <2>3
<1>14. CASE t \in Senders
  <2>1. IsFull(Len(queue)) /\ t \notin Receivers
    BY ZenonT(40), SMTT(40), <1>1, <1>14, ThreadSets DEF ParkHasReason
  <2>2. ItemsCovered'
    BY ZenonT(40), SMTT(40), <1>2, <1>4, <1>10, <1>11, <2>1, ThreadSets DEF ItemsCovered
  <2>3. Len(queue) \in Nat /\ cap \in Nat /\ Len(queue) >= cap
    BY SMTT(40), <2>1, CapType DEF IsFull, TypeOK
  <2>4. SlotsCovered'
    BY SMTT(40), <1>2, <1>8, <1>10, <1>11, <2>3 DEF SlotsCovered
  <2> QED BY <1>3, <1>5, <1>6, <1>7, <1>12, <2>2, <2>4
<1> QED BY <1>13, <1>14, ThreadSets

\* Clone and Drop: one handle more or one less.
LEMMA CloneHandleIInv ==
  ASSUME IInv, NEW t \in Threads, NEW u \in Threads, CloneHandle(t, u) PROVE IInv'
<1> USE DEF IInv
<1>1. Moves(pc, pc', u, "idle") /\ pc[u] = "gone" /\ pc[t] = "idle"
  BY DEF CloneHandle, Moves, TypeOK, PCs
<1>2. /\ queue' = queue /\ sent' = sent /\ received' = received /\ lock' = lock
      /\ rem' = rem /\ calls' = calls /\ res' = res
  BY ZenonT(40), SMTT(40) DEF CloneHandle
<1>3. \/ u \in Senders /\ sender_count > 0 /\ sender_count' = sender_count + 1
         /\ receiver_count' = receiver_count
      \/ u \in Receivers /\ receiver_count > 0 /\ receiver_count' = receiver_count + 1
         /\ sender_count' = sender_count
  BY ZenonT(40), SMTT(40), <1>1, OwnerCounted DEF CloneHandle, Owning
<1>4. TypeOK'
  <2>1. pc' \in [Threads -> PCs]
    BY ZenonT(40), SMTT(40), <1>1 DEF TypeOK, Moves
  <2> QED BY SMTT(40), <1>2, <1>3, <2>1 DEF TypeOK
<1>5. \A w \in Threads : pc'[w] = IF w = u THEN "idle" ELSE pc[w]
  BY ZenonT(40), SMTT(40), <1>1 DEF Moves
<1>6. MutexHeld' /\ ParkHasReason' /\ UnboundedNeverFull'
  BY ZenonT(40), SMTT(40), <1>1, <1>2, <1>5, ThreadSets DEF MutexHeld, ParkHasReason, UnboundedNeverFull
<1>7. FifoDelivery' /\ WithinCapacity' /\ DisconnectIsFinal'
  BY SMTT(40), <1>2, <1>3 DEF FifoDelivery, WithinCapacity, DisconnectIsFinal, TypeOK
<1>8. HandlesCounted'
  <2>1. Num(pc, Senders, Owning) \in Nat /\ Num(pc, Receivers, Owning) \in Nat
    BY ZenonT(40), NumType DEF TypeOK
  <2>2. CASE u \in Senders
    <3>1. /\ Num(pc', Senders, Owning) = Num(pc, Senders, Owning) + 1
          /\ Num(pc', Receivers, Owning) = Num(pc, Receivers, Owning)
      BY SMTT(40), <1>1, <2>2, ThreadSets, Groups, MoveOne DEF Owning
    <3> QED BY ZenonT(40), SMTT(40), <1>3, <2>2, <3>1, ThreadSets DEF HandlesCounted
  <2>3. CASE u \in Receivers
    <3>1. /\ Num(pc', Receivers, Owning) = Num(pc, Receivers, Owning) + 1
          /\ Num(pc', Senders, Owning) = Num(pc, Senders, Owning)
      BY SMTT(40), <1>1, <2>3, ThreadSets, Groups, MoveOne DEF Owning
    <3> QED BY ZenonT(40), SMTT(40), <1>3, <2>3, <3>1, ThreadSets DEF HandlesCounted
  <2> QED BY <2>2, <2>3, ThreadSets
<1>9. /\ Num(pc', Senders, Awake) = Num(pc, Senders, Awake)
      /\ Num(pc', Receivers, Awake) = Num(pc, Receivers, Awake)
  BY SMTT(40), <1>1, Groups, MoveOne DEF Awake
<1>10. /\ Num(pc', Senders, Notifying) = Num(pc, Senders, Notifying)
       /\ Num(pc', Receivers, Notifying) = Num(pc, Receivers, Notifying)
  BY SMTT(40), <1>1, Groups, MoveOne DEF Notifying
<1>11. ItemsCovered'
  BY ZenonT(40), SMTT(40), <1>2, <1>5, <1>9, <1>10, ThreadSets DEF ItemsCovered
<1>12. SlotsCovered'
  <2>1. receiver_count' > 0 => receiver_count > 0
    BY ZenonT(40), SMTT(40), <1>3
  <2> QED BY ZenonT(40), SMTT(40), <1>2, <1>5, <1>9, <1>10, <2>1, ThreadSets DEF SlotsCovered
<1> QED BY ZenonT(40), SMTT(40), <1>4, <1>6, <1>7, <1>8, <1>11, <1>12

LEMMA DropHandleIInv == ASSUME IInv, NEW t \in Threads, DropHandle(t) PROVE IInv'
<1> USE DEF IInv
<1>1. PICK v \in {"gone", "dropNotify"} : Moves(pc, pc', t, v)
  BY DEF DropHandle, Moves, TypeOK, PCs
<1>2. /\ queue' = queue /\ sent' = sent /\ received' = received /\ lock' = lock
      /\ rem' = rem /\ calls' = calls /\ res' = res /\ pc[t] = "idle"
  BY ZenonT(40), SMTT(40) DEF DropHandle
<1>3. \/ t \in Senders /\ sender_count > 0 /\ sender_count' = sender_count - 1
         /\ receiver_count' = receiver_count
      \/ t \in Receivers /\ receiver_count > 0 /\ receiver_count' = receiver_count - 1
         /\ sender_count' = sender_count
  BY ZenonT(40), SMTT(40), <1>2, OwnerCounted, ThreadSets DEF DropHandle, Owning
<1>4. TypeOK'
  <2>1. pc' \in [Threads -> PCs]
    BY ZenonT(40), SMTT(40), <1>1 DEF TypeOK, Moves
  <2> QED BY SMTT(40), <1>2, <1>3, <2>1 DEF TypeOK
<1>5. \A w \in Threads : pc'[w] = IF w = t THEN v ELSE pc[w]
  BY ZenonT(40), SMTT(40), <1>1 DEF Moves
<1>6. MutexHeld' /\ ParkHasReason' /\ UnboundedNeverFull'
  BY ZenonT(40), SMTT(40), <1>2, <1>5, ThreadSets DEF MutexHeld, ParkHasReason, UnboundedNeverFull
<1>7. FifoDelivery' /\ WithinCapacity' /\ DisconnectIsFinal'
  BY SMTT(40), <1>2, <1>3 DEF FifoDelivery, WithinCapacity, DisconnectIsFinal, TypeOK
<1>8. HandlesCounted'
  <2>1. Num(pc, Senders, Owning) \in Nat /\ Num(pc, Receivers, Owning) \in Nat
    BY ZenonT(40), NumType DEF TypeOK
  <2>2. CASE t \in Senders
    <3>1. /\ Num(pc', Senders, Owning) = Num(pc, Senders, Owning) - 1
          /\ Num(pc', Receivers, Owning) = Num(pc, Receivers, Owning)
      BY SMTT(40), <1>1, <1>2, <2>2, ThreadSets, Groups, MoveOne DEF Owning
    <3> QED BY ZenonT(40), SMTT(40), <1>3, <2>2, <3>1, ThreadSets DEF HandlesCounted
  <2>3. CASE t \in Receivers
    <3>1. /\ Num(pc', Receivers, Owning) = Num(pc, Receivers, Owning) - 1
          /\ Num(pc', Senders, Owning) = Num(pc, Senders, Owning)
      BY SMTT(40), <1>1, <1>2, <2>3, ThreadSets, Groups, MoveOne DEF Owning
    <3> QED BY ZenonT(40), SMTT(40), <1>3, <2>3, <3>1, ThreadSets DEF HandlesCounted
  <2> QED BY ZenonT(40), SMTT(40), <2>2, <2>3, ThreadSets
<1>9. /\ Num(pc', Senders, Awake) = Num(pc, Senders, Awake)
      /\ Num(pc', Receivers, Awake) = Num(pc, Receivers, Awake)
  BY SMTT(40), <1>1, <1>2, Groups, MoveOne DEF Awake
<1>10. /\ Num(pc', Senders, Notifying) = Num(pc, Senders, Notifying)
       /\ Num(pc', Receivers, Notifying) = Num(pc, Receivers, Notifying)
  BY SMTT(40), <1>1, <1>2, Groups, MoveOne DEF Notifying
<1>11. ItemsCovered'
  BY ZenonT(40), SMTT(40), <1>2, <1>5, <1>9, <1>10, ThreadSets DEF ItemsCovered
<1>12. SlotsCovered'
  <2>1. receiver_count' > 0 => receiver_count > 0
    BY SMTT(40), <1>3 DEF TypeOK
  <2> QED BY ZenonT(40), SMTT(40), <1>2, <1>5, <1>9, <1>10, <2>1, ThreadSets DEF SlotsCovered
<1> QED BY ZenonT(40), SMTT(40), <1>4, <1>6, <1>7, <1>8, <1>11, <1>12
\* Facts of NotifyOne and DropNotify: nobody joins the waiters or the mutex.
LEMMA WakeFacts ==
  ASSUME IInv, NEW t \in Threads, NotifyOne(t) \/ DropNotify(t)
  PROVE  /\ queue' = queue /\ sent' = sent /\ received' = received /\ lock' = lock
         /\ sender_count' = sender_count /\ receiver_count' = receiver_count
         /\ calls' = calls /\ rem' \in [Threads -> Rems]
         /\ pc' \in [Threads -> PCs] /\ res' \in [Threads -> Results]
         /\ \A u \in Threads : /\ pc'[u] # pc[u] => pc'[u] \in {"gone", "idle", "lock"}
                               /\ pc'[u] # pc[u] => pc[u] \in {"notify", "wait", "dropNotify"}
                               /\ res'[u] = "disconnected" => res[u] = "disconnected"
<1> USE DEF IInv
<1>1. CASE NotifyOne(t)
  <2>1. rem' \in [Threads -> Rems]
    BY Zenon, <1>1 DEF NotifyOne, Elapsed, TypeOK, Rems
  <2>2. pc' \in [Threads -> PCs] /\ res' \in [Threads -> Results]
    BY Zenon, <1>1 DEF NotifyOne, TypeOK, PCs, Results
  <2>3. \A u \in Threads : /\ pc'[u] # pc[u] => pc'[u] \in {"gone", "idle", "lock"}
                           /\ pc'[u] # pc[u] => pc[u] \in {"notify", "wait", "dropNotify"}
    BY ZenonT(40), <1>1 DEF NotifyOne, Waiters, NotEmptyWaiters, NotFullWaiters, TypeOK
  <2> QED BY ZenonT(40), SMTT(40), <1>1, <2>1, <2>2, <2>3 DEF NotifyOne, TypeOK
<1>2. CASE DropNotify(t)
  <2>1. rem' \in [Threads -> Rems]
    BY ZenonT(40), SMTT(40), <1>2 DEF DropNotify, Elapsed, TypeOK, Rems
  <2>2. pc' \in [Threads -> PCs] /\ res' = res
    BY ZenonT(40), SMTT(40), <1>2 DEF DropNotify, TypeOK, PCs
  <2>3. \A u \in Threads : /\ pc'[u] # pc[u] => pc'[u] \in {"gone", "idle", "lock"}
                           /\ pc'[u] # pc[u] => pc[u] \in {"notify", "wait", "dropNotify"}
    BY ZenonT(40), SMTT(40), <1>2 DEF DropNotify, Waiters, NotEmptyWaiters, NotFullWaiters, TypeOK
  <2> QED BY ZenonT(40), SMTT(40), <1>2, <2>1, <2>2, <2>3 DEF DropNotify, TypeOK
<1> QED BY ZenonT(40), <1>1, <1>2

\* The conjuncts they preserve without counting.
LEMMA WakeIInv ==
  ASSUME IInv, NEW t \in Threads, NotifyOne(t) \/ DropNotify(t)
  PROVE  /\ TypeOK' /\ MutexHeld' /\ ParkHasReason' /\ UnboundedNeverFull'
         /\ FifoDelivery' /\ WithinCapacity' /\ DisconnectIsFinal'
<1> USE DEF IInv
<1>1. TypeOK'
  BY ZenonT(40), WakeFacts DEF TypeOK
<1>2. MutexHeld' /\ ParkHasReason' /\ UnboundedNeverFull'
  BY ZenonT(40), WakeFacts, ThreadSets DEF MutexHeld, ParkHasReason, UnboundedNeverFull
<1>3. FifoDelivery' /\ WithinCapacity' /\ DisconnectIsFinal'
  BY ZenonT(40), SMTT(40), WakeFacts, ThreadSets DEF FifoDelivery, WithinCapacity, DisconnectIsFinal
<1> QED BY ZenonT(40), SMTT(40), <1>1, <1>2, <1>3

\* notify_one passes the notifier's share of the count on to the woken thread; with
\* nobody to wake, nobody is waiting.
LEMMA NotifyOneIInv == ASSUME IInv, NEW t \in Threads, NotifyOne(t) PROVE IInv'
<1> USE DEF IInv
<1> DEFINE f == [pc EXCEPT ![t] = "idle"]
<1>1. Moves(pc, f, t, "idle") /\ pc[t] = "notify" /\ f[t] = "idle"
  BY DEF NotifyOne, Moves, TypeOK, PCs
<1>2. \/ Waiters(t) = {} /\ pc' = f
      \/ \E w \in Waiters(t) : Moves(f, pc', w, "lock") /\ f[w] = "wait"
  <2>1. ASSUME NEW w \in Waiters(t), pc' = [pc EXCEPT ![t] = "idle", ![w] = "lock"]
        PROVE  Moves(f, pc', w, "lock") /\ f[w] = "wait"
    <3>1. w \in Threads /\ pc[w] = "wait"
      BY ZenonT(40), SMTT(40), ThreadSets DEF Waiters, NotEmptyWaiters, NotFullWaiters
    <3>2. f[w] = "wait" /\ f \in [Threads -> PCs]
      BY ZenonT(40), SMTT(40), <1>1, <3>1 DEF TypeOK, PCs
    <3>3. pc' = [f EXCEPT ![w] = "lock"]
      BY ZenonT(40), SMTT(40), <2>1, <3>1 DEF TypeOK
    <3> QED BY ZenonT(40), SMTT(40), <3>1, <3>2, <3>3 DEF Moves, PCs
  <2> QED BY ZenonT(40), <2>1 DEF NotifyOne
<1> HIDE DEF f
<1>3. pc \in [Threads -> PCs] /\ f \in [Threads -> PCs]
  BY ZenonT(40), SMTT(40), <1>1 DEF Moves, TypeOK, PCs
<1>4. \A u \in Threads : pc'[u] = "wait" => pc[u] = "wait"
  BY ZenonT(40), SMTT(40), WakeFacts
<1>5. /\ Num(pc, Receivers, Awake) \in Nat /\ Num(pc, Senders, Notifying) \in Nat
      /\ Num(pc, Senders, Awake) \in Nat /\ Num(pc, Receivers, Notifying) \in Nat
  BY ZenonT(40), SMTT(40), <1>3, NumType
<1>6. HandlesCounted'
  <2>1. /\ Num(f, Senders, Owning) = Num(pc, Senders, Owning)
        /\ Num(f, Receivers, Owning) = Num(pc, Receivers, Owning)
    BY SMTT(40), <1>1, Groups, MoveOne DEF Owning
  <2>2. /\ Num(pc', Senders, Owning) = Num(f, Senders, Owning)
        /\ Num(pc', Receivers, Owning) = Num(f, Receivers, Owning)
    BY SMTT(40), <1>2, Groups, MoveOne DEF Owning
  <2> QED BY ZenonT(40), SMTT(40), <2>1, <2>2, WakeFacts DEF HandlesCounted
<1>7. CASE t \in Senders
  <2>1. t \notin Receivers
    BY ZenonT(40), SMTT(40), <1>7, ThreadSets
  <2>2. /\ Num(f, Senders, Awake) = Num(pc, Senders, Awake)
        /\ Num(f, Receivers, Awake) = Num(pc, Receivers, Awake)
    BY SMTT(40), <1>1, Groups, MoveOne DEF Awake
  <2>3. /\ Num(f, Senders, Notifying) = Num(pc, Senders, Notifying) - 1
        /\ Num(f, Receivers, Notifying) = Num(pc, Receivers, Notifying)
    BY SMTT(40), <1>1, <1>7, <2>1, Groups, MoveOne DEF Notifying
  <2>4. CASE Waiters(t) = {} /\ pc' = f
    <3>1. \A r \in Receivers : pc'[r] # "wait"
      BY ZenonT(40), SMTT(40), <1>4, <1>7, <2>4, ThreadSets DEF Waiters, NotEmptyWaiters
    <3>2. ItemsCovered'
      BY ZenonT(40), SMTT(40), <3>1 DEF ItemsCovered
    <3>3. SlotsCovered'
      BY ZenonT(40), SMTT(40), <1>4, <2>2, <2>3, <2>4, WakeFacts, ThreadSets DEF SlotsCovered
    <3> QED BY ZenonT(40), SMTT(40), <1>6, <3>2, <3>3, WakeIInv
  <2>5. ASSUME NEW w \in Waiters(t), Moves(f, pc', w, "lock"), f[w] = "wait"
        PROVE  IInv'
    <3>1. w \in Receivers /\ w \notin Senders
      BY ZenonT(40), SMTT(40), <1>7, ThreadSets DEF Waiters, NotEmptyWaiters
    <3>2. /\ Num(pc', Senders, Awake) = Num(f, Senders, Awake)
          /\ Num(pc', Receivers, Awake) = Num(f, Receivers, Awake) + 1
      BY SMTT(40), <2>5, <3>1, Groups, MoveOne DEF Awake
    <3>3. /\ Num(pc', Senders, Notifying) = Num(f, Senders, Notifying)
          /\ Num(pc', Receivers, Notifying) = Num(f, Receivers, Notifying)
      BY SMTT(40), <2>5, Groups, MoveOne DEF Notifying
    <3>4. Num(pc', Receivers, Awake) + Num(pc', Senders, Notifying) =
             Num(pc, Receivers, Awake) + Num(pc, Senders, Notifying)
      BY SMTT(40), <1>5, <2>2, <2>3, <3>2, <3>3
    <3>5. ItemsCovered'
      BY ZenonT(40), SMTT(40), <1>4, <3>4, WakeFacts, ThreadSets DEF ItemsCovered
    <3>6. SlotsCovered'
      BY ZenonT(40), SMTT(40), <1>4, <2>2, <2>3, <3>2, <3>3, WakeFacts, ThreadSets DEF SlotsCovered
    <3> QED BY ZenonT(40), SMTT(40), <1>6, <3>5, <3>6, WakeIInv
  <2> QED BY ZenonT(40), SMTT(40), <1>2, <2>4, <2>5
<1>8. CASE t \in Receivers
  <2>1. t \notin Senders
    BY ZenonT(40), SMTT(40), <1>8, ThreadSets
  <2>2. /\ Num(f, Senders, Awake) = Num(pc, Senders, Awake)
        /\ Num(f, Receivers, Awake) = Num(pc, Receivers, Awake)
    BY <1>1, Groups, MoveOne DEF Awake
  <2>3. /\ Num(f, Senders, Notifying) = Num(pc, Senders, Notifying)
        /\ Num(f, Receivers, Notifying) = Num(pc, Receivers, Notifying) - 1
    BY SMTT(40), <1>1, <1>8, <2>1, Groups, MoveOne DEF Notifying
  <2>4. CASE Waiters(t) = {} /\ pc' = f
    <3>1. \A s \in Senders : pc'[s] # "wait"
      BY ZenonT(40), SMTT(40), <1>4, <2>1, <2>4, ThreadSets DEF Waiters, NotFullWaiters
    <3>2. SlotsCovered'
      BY ZenonT(40), SMTT(40), <3>1 DEF SlotsCovered
    <3>3. ItemsCovered'
      BY ZenonT(40), SMTT(40), <1>4, <2>2, <2>3, <2>4, WakeFacts, ThreadSets DEF ItemsCovered
    <3> QED BY ZenonT(40), SMTT(40), <1>6, <3>2, <3>3, WakeIInv
  <2>5. ASSUME NEW w \in Waiters(t), Moves(f, pc', w, "lock"), f[w] = "wait"
        PROVE  IInv'
    <3>1. w \in Senders /\ w \notin Receivers
      BY ZenonT(40), SMTT(40), <2>1, ThreadSets DEF Waiters, NotFullWaiters
    <3>2. /\ Num(pc', Senders, Awake) = Num(f, Senders, Awake) + 1
          /\ Num(pc', Receivers, Awake) = Num(f, Receivers, Awake)
      BY SMTT(40), <2>5, <3>1, Groups, MoveOne DEF Awake
    <3>3. /\ Num(pc', Senders, Notifying) = Num(f, Senders, Notifying)
          /\ Num(pc', Receivers, Notifying) = Num(f, Receivers, Notifying)
      BY <2>5, Groups, MoveOne DEF Notifying
    <3>4. Num(pc', Senders, Awake) + Num(pc', Receivers, Notifying) =
             Num(pc, Senders, Awake) + Num(pc, Receivers, Notifying)
      BY SMTT(40), <1>5, <2>2, <2>3, <3>2, <3>3
    <3>5. SlotsCovered'
      BY ZenonT(40), SMTT(40), <1>4, <3>4, WakeFacts, ThreadSets DEF SlotsCovered
    <3>6. ItemsCovered'
      BY ZenonT(40), SMTT(40), <1>4, <2>2, <2>3, <3>2, <3>3, WakeFacts, ThreadSets DEF ItemsCovered
    <3> QED BY ZenonT(40), SMTT(40), <1>6, <3>5, <3>6, WakeIInv
  <2> QED BY <1>2, <2>4, <2>5
<1> QED BY ZenonT(40), SMTT(40), <1>7, <1>8, ThreadSets
\* notify_all leaves nobody waiting on the condition variable it signals and moves
\* nobody on the other side.
LEMMA DropNotifyIInv == ASSUME IInv, NEW t \in Threads, DropNotify(t) PROVE IInv'
<1> USE DEF IInv
<1>1. pc \in [Threads -> PCs] /\ pc[t] = "dropNotify"
  BY DEF DropNotify, TypeOK
<1>2. \A u \in Threads : pc'[u] = IF u = t THEN "gone"
                                  ELSE IF u \in Waiters(t) THEN "lock" ELSE pc[u]
  BY DEF DropNotify
<1>3. \A u \in Waiters(t) : pc[u] = "wait"
  BY ZenonT(40), SMTT(40) DEF Waiters, NotEmptyWaiters, NotFullWaiters
<1>4. \A u \in Threads : /\ pc'[u] \in Owning <=> pc[u] \in Owning
                         /\ pc'[u] \in Notifying <=> pc[u] \in Notifying
                         /\ pc'[u] = "wait" => pc[u] = "wait"
                         /\ u \notin Waiters(t) => (pc'[u] \in Awake <=> pc[u] \in Awake)
  BY ZenonT(40), SMTT(40), <1>1, <1>2, <1>3 DEF Owning, Notifying, Awake
<1>5. HandlesCounted'
  <2>1. At(pc', Senders, Owning) = At(pc, Senders, Owning)
        /\ At(pc', Receivers, Owning) = At(pc, Receivers, Owning)
    BY ZenonT(40), SMTT(40), <1>4, ThreadSets DEF At
  <2> QED BY ZenonT(40), SMTT(40), <2>1, WakeFacts DEF HandlesCounted, Num
<1>6. /\ Num(pc', Senders, Notifying) = Num(pc, Senders, Notifying)
      /\ Num(pc', Receivers, Notifying) = Num(pc, Receivers, Notifying)
  <2>1. At(pc', Senders, Notifying) = At(pc, Senders, Notifying)
        /\ At(pc', Receivers, Notifying) = At(pc, Receivers, Notifying)
    BY ZenonT(40), SMTT(40), <1>4, ThreadSets DEF At
  <2> QED BY ZenonT(40), SMTT(40), <2>1 DEF Num
<1>7. CASE t \in Senders
  <2>1. \A r \in Receivers : pc'[r] # "wait"
    BY ZenonT(40), SMTT(40), <1>2, <1>7, ThreadSets DEF Waiters, NotEmptyWaiters
  <2>2. ItemsCovered'
    BY <2>1 DEF ItemsCovered
  <2>3. At(pc', Senders, Awake) = At(pc, Senders, Awake)
    BY ZenonT(40), SMTT(40), <1>4, <1>7, ThreadSets DEF At, Waiters, NotEmptyWaiters
  <2>4. SlotsCovered'
    BY ZenonT(40), SMTT(40), <1>4, <1>6, <2>3, WakeFacts, ThreadSets DEF SlotsCovered, Num
  <2> QED BY ZenonT(40), SMTT(40), <1>5, <2>2, <2>4, WakeIInv
<1>8. CASE t \in Receivers
  <2>1. \A s \in Senders : pc'[s] # "wait"
    BY ZenonT(40), SMTT(40), <1>2, <1>8, ThreadSets DEF Waiters, NotFullWaiters
  <2>2. SlotsCovered'
    BY <2>1 DEF SlotsCovered
  <2>3. At(pc', Receivers, Awake) = At(pc, Receivers, Awake)
    BY ZenonT(40), SMTT(40), <1>4, <1>8, ThreadSets DEF At, Waiters, NotFullWaiters
  <2>4. ItemsCovered'
    BY ZenonT(40), SMTT(40), <1>4, <1>6, <2>3, WakeFacts, ThreadSets DEF ItemsCovered, Num
  <2> QED BY ZenonT(40), SMTT(40), <1>5, <2>2, <2>4, WakeIInv
<1> QED BY <1>7, <1>8, ThreadSets

-------------------------------------------------------------------------------
\* Every step of every thread preserves the invariant.
LEMMA NextIInv == IInv /\ [Next]_vars => IInv'
<1> SUFFICES ASSUME IInv, [Next]_vars PROVE IInv'
  BY SMTT(40)
<1>1. CASE UNCHANGED vars
  BY ZenonT(40), <1>1 DEF vars, IInv, TypeOK, MutexHeld, HandlesCounted, ParkHasReason,
              UnboundedNeverFull, FifoDelivery, WithinCapacity, DisconnectIsFinal,
              ItemsCovered, SlotsCovered
<1>2. ASSUME NEW t \in Threads, Step(t) PROVE IInv'
  <2>1. CASE t \in Senders /\ SendBody(t)
    BY ZenonT(40), SMTT(40), <2>1, SendReturnsIInv, SendPushIInv DEF SendBody
  <2>2. CASE t \in Receivers /\ RecvBody(t)
    BY ZenonT(40), SMTT(40), <2>2, RecvReturnsIInv, RecvPopIInv DEF RecvBody
  <2> QED BY ZenonT(40), SMTT(40), <1>2, <2>1, <2>2, LockIInv, ParkIInv, NotifyOneIInv, TimeoutIInv, DropNotifyIInv
          DEF Step
<1>3. ASSUME NEW t \in Threads, Call(t) PROVE IInv'
  BY <1>3, CallIInv
<1>4. ASSUME NEW t \in Threads, DropHandle(t) PROVE IInv'
  BY ZenonT(40), SMTT(40), <1>4, DropHandleIInv
<1>5. ASSUME NEW t \in Threads, NEW u \in Threads, CloneHandle(t, u) PROVE IInv'
  BY <1>5, CloneHandleIInv
<1> QED BY ZenonT(40), SMTT(40), <1>1, <1>2, <1>3, <1>4, <1>5 DEF Next

LEMMA SpecIInv == Spec => []IInv
BY InitIInv, NextIInv, PTL DEF Spec

\* Every variable keeps its type; in particular no handle counter underflows,
\* whatever threads clone and drop handles.
THEOREM TypeCorrect == Spec => []TypeOK
<1>1. IInv => TypeOK
  BY ZenonT(40), SMTT(40) DEF IInv
<1> QED BY <1>1, SpecIInv, PTL

\* send, send_timeout, try_send, recv, recv_timeout and try_recv together deliver
\* every accepted value once and in the order of acceptance.
THEOREM DeliveryInOrder == Spec => []FifoDelivery
<1>1. IInv => FifoDelivery
  BY DEF IInv
<1> QED BY <1>1, SpecIInv, PTL

\* A bounded channel never holds more than its capacity.
THEOREM CapacityKept == Spec => []WithinCapacity
<1>1. IInv => WithinCapacity
  BY SMTT(40) DEF IInv
<1> QED BY <1>1, SpecIInv, PTL

\* A disconnect reported by a receive call is final: no Sender is left and no value.
THEOREM DisconnectKept == Spec => []DisconnectIsFinal
<1>1. IInv => DisconnectIsFinal
  BY ZenonT(40), SMTT(40) DEF IInv
<1> QED BY <1>1, SpecIInv, PTL

\* not_empty loses no wakeup: every queued item a blocked receiver could take has
\* an awake receiver or a pending notify_one.
THEOREM NoLostItemWakeup == Spec => []ItemsHaveWakers
<1>1. IInv => ItemsHaveWakers
  BY ZenonT(40), SMTT(40) DEF IInv, ItemsCovered, ItemsHaveWakers, NotEmptyWaiters, Num, At, Awake, Notifying,
         AwakeReceivers, NotifyingSenders
<1> QED BY <1>1, SpecIInv, PTL

\* not_full loses no wakeup, as long as a Receiver is left.
THEOREM NoLostSlotWakeup == Spec => []SlotsHaveWakers
<1>1. ASSUME IInv, NotFullWaiters # {} PROVE cap # Unbounded
  BY <1>1 DEF IInv, UnboundedNeverFull, NotFullWaiters
<1>2. AwakeSenders = At(pc, Senders, Awake) /\ NotifyingReceivers = At(pc, Receivers, Notifying)
  BY ZenonT(40), SMTT(40) DEF At, Awake, Notifying, AwakeSenders, NotifyingReceivers
<1>3. IInv => SlotsHaveWakers
  BY <1>1, <1>2 DEF IInv, SlotsCovered, SlotsHaveWakers, NotFullWaiters, Num
<1> QED BY <1>3, SpecIInv, PTL
===============================================================================
