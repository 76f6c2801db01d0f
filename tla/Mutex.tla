-------------------------------- MODULE Mutex --------------------------------
(***************************************************************************)
(* The fiber mutex of src/src/mutex.cr, used by fibers that run on         *)
(* parallel threads (the preview_mt build).  A fiber first tries to swap   *)
(* `state`; when that fails it spins for a while, then queues itself under *)
(* the spin lock and suspends.  `unlock` clears `state` and, when          *)
(* `queue_count` is not zero, takes one fiber off the queue and enqueues   *)
(* it in its scheduler; that fiber starts over and may lose to another     *)
(* one that arrived later.                                                 *)
(*                                                                         *)
(* `unlock` clears `state` with lazy_set, a plain store, and reads         *)
(* `queue_count` right after it.  StoreBuffers says what the build makes   *)
(* of that: FALSE when the store is visible at once (every fiber on one    *)
(* thread), TRUE when it may wait in the store buffer of the unlocking     *)
(* thread until the thread's next read-modify-write or an arbitrary later  *)
(* moment (x86 threads; each fiber is then alone on its thread).           *)
(***************************************************************************)
EXTENDS Naturals, Sequences, FiniteSets

CONSTANTS
  Fibers,        \* the fibers that use the mutex
  NoFiber,       \* nil, for mutex_fiber and for the holder of the spin lock
  Protection,    \* "checked", "reentrant" or "unchecked"
  StoreBuffers,  \* may the store that clears `state` be delayed?
  MaxLocks       \* bound: calls of `lock` by each fiber

ASSUME MutexAssumption ==
  /\ NoFiber \notin Fibers
  /\ Protection \in {"checked", "reentrant", "unchecked"}
  /\ StoreBuffers \in BOOLEAN
  /\ MaxLocks \in Nat

VARIABLES
  state,        \* @state as other threads see it: 0 free, 1 locked
  mutexFiber,   \* @mutex_fiber
  lockCount,    \* @lock_count
  queue,        \* @queue, guarded by the spin lock
  queueCount,   \* @queue_count, read without the spin lock
  spin,         \* @lock: which fiber is inside @lock.sync
  delayed,      \* delayed[f]: the store state := 0 of f is in its store buffer
  pc,           \* the next step of each fiber
  woken,        \* fibers handed to Fiber#enqueue and not resumed yet
  depth,        \* client view: successful lock calls minus unlock calls
  locks,        \* client view: lock calls made so far
  target        \* the fiber an unlock took off the queue

vars == <<state, mutexFiber, lockCount, queue, queueCount, spin, delayed,
          pc, woken, depth, locks, target>>

Steps == {"idle", "own", "ownSlow", "recheck", "try", "enter", "count",
          "peek", "grab", "push", "parked", "release", "check", "enterWake",
          "pop", "wake"}

(* Program points at which a fiber is inside @lock.sync of lock_slow. *)
InLockSync == {"count", "peek", "grab", "push"}

Init ==
  /\ state = 0
  /\ mutexFiber = NoFiber
  /\ lockCount = 0
  /\ queue = <<>>
  /\ queueCount = 0
  /\ spin = NoFiber
  /\ delayed = [f \in Fibers |-> FALSE]
  /\ pc = [f \in Fibers |-> "idle"]
  /\ woken = {}
  /\ depth = [f \in Fibers |-> 0]
  /\ locks = [f \in Fibers |-> 0]
  /\ target = [f \in Fibers |-> NoFiber]

Goto(f, step) == pc' = [pc EXCEPT ![f] = step]

(* What a load of `state` by f returns: its own delayed store comes first. *)
Seen(f) == IF delayed[f] THEN 0 ELSE state

(* A read-modify-write instruction of f drains its store buffer. *)
Drain(f) == delayed' = [delayed EXCEPT ![f] = FALSE]

-----------------------------------------------------------------------------
(* lock: the swap, the recursion check, then lock_slow. *)

LockFast(f) ==
  /\ pc[f] = "idle" /\ locks[f] < MaxLocks
  /\ Protection = "unchecked" => depth[f] = 0
  /\ locks' = [locks EXCEPT ![f] = @ + 1]
  /\ state' = 1 /\ Drain(f)
  /\ Goto(f, IF Seen(f) = 0 THEN "own" ELSE "recheck")
  /\ UNCHANGED <<mutexFiber, lockCount, queue, queueCount, spin, woken,
                 depth, target>>

(* `@mutex_fiber = Fiber.current`, which the fast path alone skips for an  *)
(* unchecked mutex.                                                        *)
Own(f) ==
  /\ pc[f] \in {"own", "ownSlow"}
  /\ mutexFiber' = IF pc[f] = "own" /\ Protection = "unchecked"
                     THEN mutexFiber ELSE f
  /\ depth' = [depth EXCEPT ![f] = @ + 1]
  /\ Goto(f, "idle")
  /\ UNCHANGED <<state, lockCount, queue, queueCount, spin, delayed, woken,
                 locks, target>>

(* The owner locks again: counted when reentrant, an exception otherwise. *)
Relock(f) ==
  /\ pc[f] = "recheck"
  /\ Protection # "unchecked" /\ mutexFiber = f
  /\ IF Protection = "reentrant"
       THEN /\ lockCount' = lockCount + 1
            /\ depth' = [depth EXCEPT ![f] = @ + 1]
       ELSE UNCHANGED <<lockCount, depth>>
  /\ Goto(f, "idle")
  /\ UNCHANGED <<state, mutexFiber, queue, queueCount, spin, delayed, woken,
                 locks, target>>

Contend(f) ==
  /\ pc[f] = "recheck"
  /\ ~(Protection # "unchecked" /\ mutexFiber = f)
  /\ Goto(f, "try")
  /\ UNCHANGED <<state, mutexFiber, lockCount, queue, queueCount, spin,
                 delayed, woken, depth, locks, target>>

(* try_lock: the swap that wins, or the spin that runs out on a locked state. *)
TryLock(f) ==
  /\ pc[f] = "try"
  /\ state' = 1
  /\ Goto(f, IF state = 0 THEN "ownSlow" ELSE "enter")
  /\ UNCHANGED <<mutexFiber, lockCount, queue, queueCount, spin, delayed,
                 woken, depth, locks, target>>

EnterLockSync(f) ==
  /\ pc[f] = "enter" /\ spin = NoFiber
  /\ spin' = f
  /\ Goto(f, "count")
  /\ UNCHANGED <<state, mutexFiber, lockCount, queue, queueCount, delayed,
                 woken, depth, locks, target>>

(* Faulty variant of CountIn: queue_count is not incremented. *)
CountInForgotten(f) ==
  /\ pc[f] = "count"
  /\ Goto(f, "peek")
  /\ UNCHANGED <<state, mutexFiber, lockCount, queue, queueCount, spin,
                 delayed, woken, depth, locks, target>>

CountIn(f) ==
  /\ pc[f] = "count"
  /\ queueCount' = queueCount + 1
  /\ Goto(f, "peek")
  /\ UNCHANGED <<state, mutexFiber, lockCount, queue, spin, delayed, woken,
                 depth, locks, target>>

(* Faulty variant of Peek: the state is not read again. *)
PeekSkipped(f) ==
  /\ pc[f] = "peek"
  /\ Goto(f, "push")
  /\ UNCHANGED <<state, mutexFiber, lockCount, queue, queueCount, spin,
                 delayed, woken, depth, locks, target>>

Peek(f) ==
  /\ pc[f] = "peek"
  /\ Goto(f, IF state = 0 THEN "grab" ELSE "push")
  /\ UNCHANGED <<state, mutexFiber, lockCount, queue, queueCount, spin,
                 delayed, woken, depth, locks, target>>

(* Faulty variant of Grab: a plain store instead of the swap. *)
GrabUnswapped(f) ==
  /\ pc[f] = "grab"
  /\ state' = 1
  /\ queueCount' = queueCount - 1
  /\ spin' = NoFiber
  /\ Goto(f, "ownSlow")
  /\ UNCHANGED <<mutexFiber, lockCount, queue, delayed, woken, depth, locks,
                 target>>

Grab(f) ==
  /\ pc[f] = "grab"
  /\ state' = 1
  /\ IF state = 0
       THEN /\ queueCount' = queueCount - 1
            /\ spin' = NoFiber
            /\ Goto(f, "ownSlow")
       ELSE /\ Goto(f, "push")
            /\ UNCHANGED <<queueCount, spin>>
  /\ UNCHANGED <<mutexFiber, lockCount, queue, delayed, woken, depth, locks,
                 target>>

(* The fiber queues itself, leaves the spin lock and reschedules. *)
Push(f) ==
  /\ pc[f] = "push"
  /\ queue' = Append(queue, f)
  /\ spin' = NoFiber
  /\ Goto(f, "parked")
  /\ UNCHANGED <<state, mutexFiber, lockCount, queueCount, delayed, woken,
                 depth, locks, target>>

(* The scheduler resumes a fiber that was enqueued: back to the loop. *)
Resume(f) ==
  /\ pc[f] = "parked" /\ f \in woken
  /\ woken' = woken \ {f}
  /\ Goto(f, "try")
  /\ UNCHANGED <<state, mutexFiber, lockCount, queue, queueCount, spin,
                 delayed, depth, locks, target>>

-----------------------------------------------------------------------------
(* unlock *)

(* Faulty variant of UnlockChecks: mutex_fiber keeps the old owner. *)
UnlockChecksKeeping(f) ==
  /\ pc[f] = "idle" /\ mutexFiber = f /\ depth[f] > 0
  /\ depth' = [depth EXCEPT ![f] = @ - 1]
  /\ Goto(f, "release")
  /\ UNCHANGED <<state, mutexFiber, lockCount, queue, queueCount, spin,
                 delayed, woken, locks, target>>

(* The owner check; when it fails unlock raises and nothing has changed.   *)
(* An unchecked mutex is only unlocked by a fiber that locked it.          *)
UnlockChecks(f) ==
  /\ pc[f] = "idle"
  /\ IF Protection = "unchecked" THEN depth[f] > 0 ELSE mutexFiber = f
  /\ depth' = [depth EXCEPT ![f] = @ - 1]
  /\ IF Protection = "reentrant" /\ lockCount > 0
       THEN /\ lockCount' = lockCount - 1
            /\ UNCHANGED <<mutexFiber, pc>>
       ELSE /\ mutexFiber' = IF Protection = "unchecked" THEN mutexFiber
                             ELSE NoFiber
            /\ Goto(f, "release")
            /\ UNCHANGED lockCount
  /\ UNCHANGED <<state, queue, queueCount, spin, delayed, woken, locks,
                 target>>

(* `@state.lazy_set(0)`: visible now, or buffered. *)
Release(f) ==
  /\ pc[f] = "release"
  /\ \/ state' = 0 /\ UNCHANGED delayed
     \/ /\ StoreBuffers
        /\ delayed' = [delayed EXCEPT ![f] = TRUE]
        /\ UNCHANGED state
  /\ Goto(f, "check")
  /\ UNCHANGED <<mutexFiber, lockCount, queue, queueCount, spin, woken,
                 depth, locks, target>>

(* The store buffer of f's thread is written out. *)
Flush(f) ==
  /\ delayed[f]
  /\ state' = 0 /\ Drain(f)
  /\ UNCHANGED <<mutexFiber, lockCount, queue, queueCount, spin, pc, woken,
                 depth, locks, target>>

(* The first read of queue_count, outside the spin lock. *)
CheckQueue(f) ==
  /\ pc[f] = "check"
  /\ Goto(f, IF queueCount = 0 THEN "idle" ELSE "enterWake")
  /\ UNCHANGED <<state, mutexFiber, lockCount, queue, queueCount, spin,
                 delayed, woken, depth, locks, target>>

EnterWakeSync(f) ==
  /\ pc[f] = "enterWake" /\ spin = NoFiber
  /\ spin' = f
  /\ state' = Seen(f) /\ Drain(f)
  /\ Goto(f, "pop")
  /\ UNCHANGED <<mutexFiber, lockCount, queue, queueCount, woken, depth,
                 locks, target>>

(* Faulty variant of Pop: the fiber stays in the queue. *)
PopKeeping(f) ==
  /\ pc[f] = "pop"
  /\ spin' = NoFiber
  /\ IF queue = <<>>
       THEN Goto(f, "idle") /\ UNCHANGED target
       ELSE target' = [target EXCEPT ![f] = Head(queue)] /\ Goto(f, "wake")
  /\ UNCHANGED <<state, mutexFiber, lockCount, queue, queueCount, delayed,
                 woken, depth, locks>>

(* Inside the spin lock: read queue_count again, shift a fiber, leave. *)
Pop(f) ==
  /\ pc[f] = "pop"
  /\ spin' = NoFiber
  /\ IF queueCount = 0 \/ queue = <<>>
       THEN /\ Goto(f, "idle")
            /\ UNCHANGED <<queue, queueCount, target>>
       ELSE /\ target' = [target EXCEPT ![f] = Head(queue)]
            /\ queue' = Tail(queue)
            /\ queueCount' = queueCount - 1
            /\ Goto(f, "wake")
  /\ UNCHANGED <<state, mutexFiber, lockCount, delayed, woken, depth, locks>>

(* `fiber.enqueue if fiber`, after the spin lock was left. *)
Wake(f) ==
  /\ pc[f] = "wake"
  /\ woken' = woken \cup {target[f]}
  /\ target' = [target EXCEPT ![f] = NoFiber]
  /\ Goto(f, "idle")
  /\ UNCHANGED <<state, mutexFiber, lockCount, queue, queueCount, spin,
                 delayed, depth, locks>>

-----------------------------------------------------------------------------
Locking(f) ==
  \/ Own(f) \/ Relock(f) \/ Contend(f) \/ TryLock(f) \/ EnterLockSync(f)
  \/ CountIn(f) \/ Peek(f) \/ Grab(f) \/ Push(f) \/ Resume(f)

Unlocking(f) ==
  \/ UnlockChecks(f) \/ Release(f) \/ CheckQueue(f) \/ EnterWakeSync(f)
  \/ Pop(f) \/ Wake(f)

Next == \E f \in Fibers : LockFast(f) \/ Locking(f) \/ Unlocking(f) \/ Flush(f)

Spec == Init /\ [][Next]_vars

(* Threads run, store buffers drain, and a client that holds the mutex     *)
(* unlocks it in the end; nobody has to lock.                              *)
Fairness == \A f \in Fibers : /\ WF_vars(Locking(f))
                              /\ WF_vars(Unlocking(f))
                              /\ WF_vars(Flush(f))

FairSpec == Spec /\ Fairness

-----------------------------------------------------------------------------
(* Type invariant: every variable stays in its range. *)
TypeOK ==
  /\ state \in {0, 1}
  /\ mutexFiber \in Fibers \cup {NoFiber}
  /\ lockCount \in Nat
  /\ queue \in Seq(Fibers)
  /\ queueCount \in Nat
  /\ spin \in Fibers \cup {NoFiber}
  /\ delayed \in [Fibers -> BOOLEAN]
  /\ pc \in [Fibers -> Steps]
  /\ woken \subseteq Fibers
  /\ depth \in [Fibers -> Nat]
  /\ locks \in [Fibers -> Nat]
  /\ target \in [Fibers -> Fibers \cup {NoFiber}]

(* The fiber has the mutex: from the swap that won until the store that    *)
(* gives it back is visible to other threads.                              *)
Holds(f) ==
  \/ pc[f] \in {"own", "ownSlow", "release"}
  \/ depth[f] > 0
  \/ delayed[f]

(* At most one fiber is between `lock` returning and `unlock` being called *)
(* (the block of `synchronize`), whichever of the four paths of `lock` got *)
(* it there and however late the store of an earlier unlock lands.         *)
MutualExclusion ==
  \A f, g \in Fibers : depth[f] > 0 /\ depth[g] > 0 => f = g

(* mutex_fiber and lock_count tell a client the truth: whoever holds a     *)
(* checked or reentrant mutex is recorded as its owner with the right      *)
(* count, so its own unlock never raises and nobody else's ever succeeds.  *)
OwnerRecorded ==
  Protection # "unchecked" =>
    \A f \in Fibers :
      /\ depth[f] > 0 => mutexFiber = f /\ lockCount = depth[f] - 1
      /\ mutexFiber = f => depth[f] > 0

(* A fiber sits in the wait queue at most once, only while it is suspended *)
(* in lock_slow, and never after it was taken off to be woken: otherwise   *)
(* the scheduler would resume a fiber that is running.                     *)
WaitersSuspended ==
  /\ \A i, j \in 1..Len(queue) : queue[i] = queue[j] => i = j
  /\ \A i \in 1..Len(queue) : pc[queue[i]] = "parked" /\ queue[i] \notin woken
  /\ \A f \in woken : pc[f] = "parked"

(* Some fiber will look at the mutex, or at its queue, without being woken *)
(* by anybody else.                                                        *)
Attends(f) ==
  \/ Holds(f)
  \/ pc[f] \in {"try", "enter", "count", "peek", "grab", "check",
                 "enterWake", "pop", "wake"}
  \/ f \in woken

(* No lost wake-up: while a fiber waits in the queue, some fiber holds the *)
(* mutex or is on its way to take it or to wake the next waiter.           *)
NoLostWakeup ==
  queue # <<>> => \E f \in Fibers : Attends(f)

(* Every fiber suspended in lock_slow is resumed in the end.               *)
WaitersResume ==
  \A f \in Fibers : pc[f] = "parked" ~> pc[f] # "parked"
=============================================================================
