------------------------------- MODULE VitaChan -------------------------------
(* The multi-producer multi-consumer channel of crates/vita-chan: a queue      *)
(* under a mutex, two condition variables and two lock-free handle counters.   *)
(*                                                                             *)
(* Every handle is owned by one thread.  A call takes the mutex ("lock"),      *)
(* runs under it ("body"), and either returns, or decides to wait ("park",     *)
(* still holding the mutex), waits ("wait") and starts over.  Steps that the   *)
(* mutex makes indivisible are one action; the handle counters are not under   *)
(* the mutex, so a Drop may fall between "body" and "park".                    *)
(*                                                                             *)
(* A definition named X_Y is the mutant Y of X: it is X with a bug, and shows  *)
(* that some property of the module would catch that bug.                      *)
EXTENDS Naturals, Sequences, FiniteSets

CONSTANTS
    Senders,    \* threads that may own a Sender
    Receivers,  \* threads that may own a Receiver
    Capacity,   \* the argument of bounded(), or Unbounded
    Unbounded,  \* stands for cap: None
    NoThread,   \* the mutex is free
    MaxSends,   \* bound: calls made by one sender
    MaxRecvs    \* bound: calls made by one receiver

ASSUME ChanAssumption ==
    /\ IsFiniteSet(Senders) /\ IsFiniteSet(Receivers)
    /\ Senders \cap Receivers = {}
    /\ NoThread \notin Senders \cup Receivers
    /\ Unbounded \notin Nat
    /\ Capacity \in Nat \cup {Unbounded}
    /\ MaxSends \in Nat /\ MaxRecvs \in Nat

VARIABLES
    queue,           \* the VecDeque
    lock,            \* holder of queue's mutex
    sender_count,
    receiver_count,
    pc,              \* per thread: where its call is; "gone" owns no handle
    rem,             \* per thread: time left: "inf" blocks for ever, "zero" never waits;
                     \* "inf" between calls
    res,             \* per thread: what its last call returned
    calls,           \* per thread: calls made so far
    sent,            \* every value pushed, in order (history)
    received         \* every value popped, in order (history)

vars == <<queue, lock, sender_count, receiver_count, pc, rem, res, calls, sent, received>>

Threads == Senders \cup Receivers

PCs == {"gone", "idle", "lock", "body", "park", "wait", "notify", "dropNotify"}
Rems == {"inf", "some", "zero"}
Results == {"none", "ok", "full", "timeout", "disconnected"}

\* bounded(0) reserves one slot.
cap == IF Capacity = Unbounded THEN Unbounded ELSE IF Capacity = 0 THEN 1 ELSE Capacity

PushBack_Front(q, v) == <<v>> \o q

PushBack(q, v) == Append(q, v)

IsFull_OffByOne(n) == cap # Unbounded /\ n > cap

IsFull(n) == cap # Unbounded /\ n >= cap

\* Threads blocked on not_empty and on not_full.
NotEmptyWaiters == {r \in Receivers : pc[r] = "wait"}
NotFullWaiters == {s \in Senders : pc[s] = "wait"}

\* The waiters that t's notification reaches: a Sender signals not_empty, a
\* Receiver signals not_full.
Waiters(t) == IF t \in Senders THEN NotEmptyWaiters ELSE NotFullWaiters

Init ==
    /\ queue = <<>>
    /\ lock = NoThread
    /\ sender_count = 1
    /\ receiver_count = 1
    /\ \E s \in Senders, r \in Receivers :
          pc = [t \in Threads |-> IF t \in {s, r} THEN "idle" ELSE "gone"]
    /\ rem = [t \in Threads |-> "inf"]
    /\ res = [t \in Threads |-> "none"]
    /\ calls = [t \in Threads |-> 0]
    /\ sent = <<>>
    /\ received = <<>>

-------------------------------------------------------------------------------
\* send/recv ("inf"), send_timeout/recv_timeout ("some"), try_send/try_recv ("zero").
Call(t) ==
    /\ pc[t] = "idle"
    /\ calls[t] < (IF t \in Senders THEN MaxSends ELSE MaxRecvs)
    /\ calls' = [calls EXCEPT ![t] = @ + 1]
    /\ \E m \in Rems : rem' = [rem EXCEPT ![t] = m]
    /\ pc' = [pc EXCEPT ![t] = "lock"]
    /\ UNCHANGED <<queue, lock, sender_count, receiver_count, res, sent, received>>

\* Take the mutex, on entry or after a wait.
Lock(t) ==
    /\ pc[t] = "lock"
    /\ lock = NoThread
    /\ lock' = t
    /\ pc' = [pc EXCEPT ![t] = "body"]
    /\ UNCHANGED <<queue, sender_count, receiver_count, rem, res, calls, sent, received>>

\* Release the mutex and return r to the caller.
Return(t, r) ==
    /\ lock' = NoThread
    /\ pc' = [pc EXCEPT ![t] = "idle"]
    /\ res' = [res EXCEPT ![t] = r]
    /\ rem' = [rem EXCEPT ![t] = "inf"]

\* ---- send, try_send, send_timeout, under the mutex ----
SendDisconnected(s) ==
    /\ receiver_count = 0
    /\ Return(s, "disconnected")
    /\ UNCHANGED <<queue, sent>>

SendPush(s) ==
    /\ receiver_count # 0
    /\ ~IsFull(Len(queue))
    /\ queue' = PushBack(queue, <<s, calls[s]>>)
    /\ sent' = Append(sent, <<s, calls[s]>>)
    /\ lock' = NoThread
    /\ pc' = [pc EXCEPT ![s] = "notify"]
    /\ UNCHANGED <<rem, res>>

SendFull(s) ==
    /\ receiver_count # 0
    /\ IsFull(Len(queue))
    /\ rem[s] = "zero"
    /\ Return(s, "full")
    /\ UNCHANGED <<queue, sent>>

SendPark_Untimed(s) ==
    /\ receiver_count # 0
    /\ IsFull(Len(queue))
    /\ pc' = [pc EXCEPT ![s] = "park"]
    /\ UNCHANGED <<queue, lock, rem, res, sent>>

SendPark(s) ==
    /\ receiver_count # 0
    /\ IsFull(Len(queue))
    /\ rem[s] # "zero"
    /\ pc' = [pc EXCEPT ![s] = "park"]
    /\ UNCHANGED <<queue, lock, rem, res, sent>>

SendBody(s) ==
    /\ pc[s] = "body"
    /\ SendDisconnected(s) \/ SendPush(s) \/ SendFull(s) \/ SendPark(s)
    /\ UNCHANGED <<sender_count, receiver_count, calls, received>>

\* ---- recv, try_recv, recv_timeout, under the mutex ----
RecvPop(r) ==
    /\ queue # <<>>
    /\ queue' = Tail(queue)
    /\ received' = Append(received, Head(queue))
    /\ lock' = NoThread
    /\ pc' = [pc EXCEPT ![r] = "notify"]
    /\ UNCHANGED <<rem, res>>

RecvDisconnected_Undrained(r) ==
    /\ sender_count = 0
    /\ Return(r, "disconnected")
    /\ UNCHANGED <<queue, received>>

RecvDisconnected(r) ==
    /\ queue = <<>>
    /\ sender_count = 0
    /\ Return(r, "disconnected")
    /\ UNCHANGED <<queue, received>>

RecvTimeout(r) ==
    /\ queue = <<>>
    /\ sender_count # 0
    /\ rem[r] = "zero"
    /\ Return(r, "timeout")
    /\ UNCHANGED <<queue, received>>

RecvPark(r) ==
    /\ queue = <<>>
    /\ sender_count # 0
    /\ rem[r] # "zero"
    /\ pc' = [pc EXCEPT ![r] = "park"]
    /\ UNCHANGED <<queue, lock, rem, res, received>>

RecvBody(r) ==
    /\ pc[r] = "body"
    /\ RecvPop(r) \/ RecvDisconnected(r) \/ RecvTimeout(r) \/ RecvPark(r)
    /\ UNCHANGED <<sender_count, receiver_count, calls, sent>>

\* Condvar::wait releases the mutex and blocks in one step.
Park(t) ==
    /\ pc[t] = "park"
    /\ lock' = NoThread
    /\ pc' = [pc EXCEPT ![t] = "wait"]
    /\ UNCHANGED <<queue, sender_count, receiver_count, rem, res, calls, sent, received>>

\* The timed waiters in Z have used up their time when they wake.
Elapsed(Z) == [t \in Threads |-> IF t \in Z THEN "zero" ELSE rem[t]]

TimedOf(W) == {t \in W : rem[t] = "some"}

NotifyOne_TryForgets(t) ==
    /\ pc[t] = "notify"
    /\ res' = [res EXCEPT ![t] = "ok"]
    /\ \/ /\ Waiters(t) = {} \/ rem[t] = "zero"
          /\ pc' = [pc EXCEPT ![t] = "idle"]
          /\ rem' = [rem EXCEPT ![t] = "inf"]
       \/ \E w \in Waiters(t) :
             /\ pc' = [pc EXCEPT ![t] = "idle", ![w] = "lock"]
             /\ \E Z \in SUBSET TimedOf({w}) : rem' = [Elapsed(Z) EXCEPT ![t] = "inf"]
    /\ UNCHANGED <<queue, lock, sender_count, receiver_count, calls, sent, received>>

\* notify_one, called after the mutex was released, then return Ok.
NotifyOne(t) ==
    /\ pc[t] = "notify"
    /\ res' = [res EXCEPT ![t] = "ok"]
    /\ \/ /\ Waiters(t) = {}
          /\ pc' = [pc EXCEPT ![t] = "idle"]
          /\ rem' = [rem EXCEPT ![t] = "inf"]
       \/ \E w \in Waiters(t) :
             /\ pc' = [pc EXCEPT ![t] = "idle", ![w] = "lock"]
             /\ \E Z \in SUBSET TimedOf({w}) : rem' = [Elapsed(Z) EXCEPT ![t] = "inf"]
    /\ UNCHANGED <<queue, lock, sender_count, receiver_count, calls, sent, received>>

\* wait_timeout gives up.
Timeout(t) ==
    /\ pc[t] = "wait"
    /\ rem[t] = "some"
    /\ rem' = [rem EXCEPT ![t] = "zero"]
    /\ pc' = [pc EXCEPT ![t] = "lock"]
    /\ UNCHANGED <<queue, lock, sender_count, receiver_count, res, calls, sent, received>>

\* Drop, first half: the counter, without the mutex.
DropHandle(t) ==
    /\ pc[t] = "idle"
    /\ IF t \in Senders
       THEN /\ sender_count' = sender_count - 1
            /\ pc' = [pc EXCEPT ![t] = IF sender_count = 1 THEN "dropNotify" ELSE "gone"]
            /\ UNCHANGED receiver_count
       ELSE /\ receiver_count' = receiver_count - 1
            /\ pc' = [pc EXCEPT ![t] = IF receiver_count = 1 THEN "dropNotify" ELSE "gone"]
            /\ UNCHANGED sender_count
    /\ UNCHANGED <<queue, lock, rem, res, calls, sent, received>>

\* Drop of the last handle of its kind, second half: notify_all, without the mutex.
DropNotify(t) ==
    /\ pc[t] = "dropNotify"
    /\ pc' = [u \in Threads |-> IF u = t THEN "gone"
                                ELSE IF u \in Waiters(t) THEN "lock" ELSE pc[u]]
    /\ \E Z \in SUBSET TimedOf(Waiters(t)) : rem' = Elapsed(Z)
    /\ UNCHANGED <<queue, lock, sender_count, receiver_count, res, calls, sent, received>>

CloneHandle_Uncounted(t, u) ==
    /\ pc[t] = "idle"
    /\ pc[u] = "gone"
    /\ {t, u} \subseteq Senders \/ {t, u} \subseteq Receivers
    /\ pc' = [pc EXCEPT ![u] = "idle"]
    /\ UNCHANGED <<queue, lock, sender_count, receiver_count, rem, res, calls, sent, received>>

\* t clones its handle and gives the clone to u.
CloneHandle(t, u) ==
    /\ pc[t] = "idle"
    /\ pc[u] = "gone"
    /\ pc' = [pc EXCEPT ![u] = "idle"]
    /\ \/ t \in Senders /\ u \in Senders
          /\ sender_count' = sender_count + 1 /\ UNCHANGED receiver_count
       \/ t \in Receivers /\ u \in Receivers
          /\ receiver_count' = receiver_count + 1 /\ UNCHANGED sender_count
    /\ UNCHANGED <<queue, lock, rem, res, calls, sent, received>>

\* What a call or a Drop does once begun; the callers decide the rest.
Step(t) ==
    \/ Lock(t)
    \/ t \in Senders /\ SendBody(t)
    \/ t \in Receivers /\ RecvBody(t)
    \/ Park(t)
    \/ NotifyOne(t)
    \/ Timeout(t)
    \/ DropNotify(t)

Next ==
    \E t \in Threads :
       \/ Step(t)
       \/ Call(t)
       \/ DropHandle(t)
       \/ \E u \in Threads : CloneHandle(t, u)

Spec == Init /\ [][Next]_vars

\* A runnable thread is scheduled, and a timed wait ends.
FairSpec == Spec /\ \A t \in Threads : WF_vars(Step(t))

-------------------------------------------------------------------------------
TypeOK ==
    /\ queue \in Seq(Senders \X Nat)
    /\ lock \in Threads \cup {NoThread}
    /\ sender_count \in Nat
    /\ receiver_count \in Nat
    /\ pc \in [Threads -> PCs]
    /\ rem \in [Threads -> Rems]
    /\ res \in [Threads -> Results]
    /\ calls \in [Threads -> Nat]
    /\ sent \in Seq(Senders \X Nat)
    /\ received \in Seq(Senders \X Nat)

\* Nothing is lost, duplicated or reordered between send and recv: the values
\* handed out followed by the values still queued are the values accepted, in
\* the order the mutex admitted them.
FifoDelivery == received \o queue = sent

\* A bounded channel never holds more than its capacity, however many senders race.
WithinCapacity == cap # Unbounded => Len(queue) <= cap

\* Receivers past the notification: they hold or will take the mutex.
AwakeReceivers == {r \in Receivers : pc[r] \in {"lock", "body"}}
AwakeSenders == {s \in Senders : pc[s] \in {"lock", "body"}}
NotifyingSenders == {s \in Senders : pc[s] = "notify"}
NotifyingReceivers == {r \in Receivers : pc[r] = "notify"}

\* No lost wakeup on not_empty: while a receiver is blocked, every queued item
\* has a receiver already awake for it or a notify_one still to come, although
\* notify_one is called after the mutex was released.
ItemsHaveWakers ==
    NotEmptyWaiters # {} =>
       Len(queue) <= Cardinality(AwakeReceivers) + Cardinality(NotifyingSenders)

\* No lost wakeup on not_full: while a sender is blocked and a receiver is left,
\* every free slot has a sender already awake for it or a notify_one to come.
SlotsHaveWakers ==
    (NotFullWaiters # {} /\ receiver_count > 0) =>
       cap - Len(queue) <= Cardinality(AwakeSenders) + Cardinality(NotifyingReceivers)

\* recv reports a closed channel only when the last Sender is gone and every
\* accepted value has been handed out, so nothing can follow it.
DisconnectIsFinal ==
    \A r \in Receivers : res[r] = "disconnected" => sender_count = 0 /\ received = sent

\* send_timeout, recv_timeout and the try_ calls return, whatever the others do.
TimedCallsReturn ==
    \A t \in Threads :
       (pc[t] \in {"lock", "wait"} /\ rem[t] # "inf") ~> (pc[t] = "idle")

\* "dropping the last Sender makes pending recv()s return RecvError".
DropWakesPendingRecv ==
    \A r \in Receivers : (pc[r] = "wait" /\ sender_count = 0) ~> (pc[r] = "idle")
===============================================================================
