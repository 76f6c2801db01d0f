----------------------------- MODULE MutexProofs -----------------------------
(* What TLAPS proves of Mutex, for every set of fibers, every protection   *)
(* and, except for NoLostWakeup, with or without store buffers.            *)
EXTENDS Mutex, TLAPS

(* Where a fiber's locals agree with its step. *)
PhaseInv ==
  \A f \in Fibers :
    /\ pc[f] \in Steps \ {"idle", "recheck"} => depth[f] = 0
    /\ Protection # "reentrant" => depth[f] <= 1
    /\ Protection = "unchecked" /\ pc[f] # "idle" => depth[f] = 0
    /\ delayed[f] => depth[f] = 0 /\ pc[f] \in {"idle", "check", "enterWake"}
    /\ pc[f] = "recheck" /\ depth[f] > 0 => mutexFiber = f
    /\ pc[f] = "wake" => target[f] \in Fibers

(* One fiber at most has the mutex, and `state` is 1 exactly then. *)
HoldInv ==
  /\ \A f, g \in Fibers : Holds(f) /\ Holds(g) => f = g
  /\ state = 1 <=> \E f \in Fibers : Holds(f)

OwnerInv ==
  /\ OwnerRecorded
  /\ Protection # "unchecked" /\ mutexFiber = NoFiber => lockCount = 0

(* queue_count is the length of the queue, plus the fiber that announced   *)
(* itself and has neither queued itself nor withdrawn.                     *)
Announced == {"peek", "grab", "push"}

CountInv ==
  /\ \A f \in Fibers : spin = f <=> pc[f] \in InLockSync \cup {"pop"}
  /\ (\E f \in Fibers : pc[f] \in Announced) => queueCount = Len(queue) + 1
  /\ (\A f \in Fibers : pc[f] \notin Announced) => queueCount = Len(queue)

(* The invariant that is inductive for the ownership properties. *)
LockInv == TypeOK /\ PhaseInv /\ HoldInv /\ OwnerInv /\ CountInv

-----------------------------------------------------------------------------
LEMMA LockInvInit == Init => LockInv
BY MutexAssumption DEF Init, LockInv, TypeOK, PhaseInv, HoldInv, OwnerInv,
   OwnerRecorded, Holds, Steps, CountInv, Announced, InLockSync

(* One step of one fiber keeps LockInv. *)
LEMMA LockInvStep == LockInv /\ [Next]_vars => LockInv'
<1> SUFFICES ASSUME LockInv, [Next]_vars PROVE LockInv'
  OBVIOUS
<1> USE MutexAssumption DEF LockInv, TypeOK, Steps, Goto
<1>1. ASSUME NEW f \in Fibers, LockFast(f) PROVE LockInv'
  <2>1. TypeOK'
    BY <1>1 DEF LockFast, PhaseInv, CountInv, Announced, Drain, Seen
  <2>2. PhaseInv'
    BY <1>1 DEF LockFast, PhaseInv, HoldInv, Holds, OwnerInv, OwnerRecorded, Drain, Seen
  <2>3. HoldInv'
    BY <1>1 DEF LockFast, PhaseInv, OwnerInv, OwnerRecorded, HoldInv, Holds, Drain, Seen
  <2>4. OwnerInv'
    BY <1>1 DEF LockFast, PhaseInv, OwnerInv, OwnerRecorded, HoldInv, Holds, Drain, Seen
  <2>5. CountInv'
    BY <1>1 DEF LockFast, CountInv, Announced, InLockSync, Drain, Seen
  <2> QED BY <2>1, <2>2, <2>3, <2>4, <2>5
<1>2. ASSUME NEW f \in Fibers, Own(f) PROVE LockInv'
  <2>1. TypeOK'
    BY <1>2 DEF Own, PhaseInv, CountInv, Announced
  <2>2. PhaseInv'
    BY <1>2 DEF Own, PhaseInv, HoldInv, Holds, OwnerInv, OwnerRecorded
  <2>3. HoldInv'
    BY <1>2 DEF Own, PhaseInv, OwnerInv, OwnerRecorded, HoldInv, Holds
  <2>4. OwnerInv'
    <3>1. \A g \in Fibers : Holds(g) => g = f
      BY <1>2 DEF Own, HoldInv, Holds
    <3>2. depth[f] = 0
      BY <1>2 DEF Own, PhaseInv
    <3>3. Protection # "unchecked" => mutexFiber = NoFiber
      BY <3>1, <3>2 DEF OwnerInv, OwnerRecorded, Holds
    <3> QED
      BY <1>2, <3>1, <3>2, <3>3 DEF Own, OwnerInv, OwnerRecorded, Holds
  <2>5. CountInv'
    BY <1>2 DEF Own, CountInv, Announced, InLockSync
  <2> QED BY <2>1, <2>2, <2>3, <2>4, <2>5
<1>3. ASSUME NEW f \in Fibers, Relock(f) PROVE LockInv'
  <2>1. TypeOK'
    <3>1. CASE Protection = "reentrant"
      <4>1. lockCount' = lockCount + 1 /\ depth' = [depth EXCEPT ![f] = depth[f] + 1]
        BY <1>3, <3>1 DEF Relock
      <4>2. lockCount' \in Nat /\ depth' \in [Fibers -> Nat]
        BY <4>1
      <4> QED BY <1>3, <4>2 DEF Relock
    <3>2. CASE Protection # "reentrant"
      BY <1>3, <3>2 DEF Relock
    <3> QED BY <3>1, <3>2
  <2>2. PhaseInv'
    BY <1>3 DEF Relock, PhaseInv, HoldInv, Holds, OwnerInv, OwnerRecorded
  <2>3. HoldInv'
    BY <1>3 DEF Relock, PhaseInv, OwnerInv, OwnerRecorded, HoldInv, Holds
  <2>4. OwnerInv'
    BY <1>3 DEF Relock, PhaseInv, OwnerInv, OwnerRecorded, HoldInv, Holds
  <2>5. CountInv'
    BY <1>3 DEF Relock, CountInv, Announced, InLockSync
  <2> QED BY <2>1, <2>2, <2>3, <2>4, <2>5
<1>4. ASSUME NEW f \in Fibers, Contend(f) PROVE LockInv'
  <2>1. TypeOK'
    BY <1>4 DEF Contend, PhaseInv, CountInv, Announced
  <2>2. PhaseInv'
    BY <1>4 DEF Contend, PhaseInv, HoldInv, Holds, OwnerInv, OwnerRecorded
  <2>3. HoldInv'
    BY <1>4 DEF Contend, PhaseInv, OwnerInv, OwnerRecorded, HoldInv, Holds
  <2>4. OwnerInv'
    BY <1>4 DEF Contend, PhaseInv, OwnerInv, OwnerRecorded, HoldInv, Holds
  <2>5. CountInv'
    BY <1>4 DEF Contend, CountInv, Announced, InLockSync
  <2> QED BY <2>1, <2>2, <2>3, <2>4, <2>5
<1>5. ASSUME NEW f \in Fibers, TryLock(f) PROVE LockInv'
  <2>1. TypeOK'
    BY <1>5 DEF TryLock, PhaseInv, CountInv, Announced
  <2>2. PhaseInv'
    BY <1>5 DEF TryLock, PhaseInv, HoldInv, Holds, OwnerInv, OwnerRecorded
  <2>3. HoldInv'
    BY <1>5 DEF TryLock, PhaseInv, OwnerInv, OwnerRecorded, HoldInv, Holds
  <2>4. OwnerInv'
    BY <1>5 DEF TryLock, PhaseInv, OwnerInv, OwnerRecorded, HoldInv, Holds
  <2>5. CountInv'
    BY <1>5 DEF TryLock, CountInv, Announced, InLockSync
  <2> QED BY <2>1, <2>2, <2>3, <2>4, <2>5
<1>6. ASSUME NEW f \in Fibers, EnterLockSync(f) PROVE LockInv'
  <2>1. TypeOK'
    BY <1>6 DEF EnterLockSync, PhaseInv, CountInv, Announced
  <2>2. PhaseInv'
    BY <1>6 DEF EnterLockSync, PhaseInv, HoldInv, Holds, OwnerInv, OwnerRecorded
  <2>3. HoldInv'
    BY <1>6 DEF EnterLockSync, PhaseInv, OwnerInv, OwnerRecorded, HoldInv, Holds
  <2>4. OwnerInv'
    BY <1>6 DEF EnterLockSync, PhaseInv, OwnerInv, OwnerRecorded, HoldInv, Holds
  <2>5. CountInv'
    BY <1>6 DEF EnterLockSync, CountInv, Announced, InLockSync
  <2> QED BY <2>1, <2>2, <2>3, <2>4, <2>5
<1>7. ASSUME NEW f \in Fibers, CountIn(f) PROVE LockInv'
  <2>1. TypeOK'
    BY <1>7 DEF CountIn, PhaseInv, CountInv, Announced
  <2>2. PhaseInv'
    BY <1>7 DEF CountIn, PhaseInv, HoldInv, Holds, OwnerInv, OwnerRecorded
  <2>3. HoldInv'
    BY <1>7 DEF CountIn, PhaseInv, OwnerInv, OwnerRecorded, HoldInv, Holds
  <2>4. OwnerInv'
    BY <1>7 DEF CountIn, PhaseInv, OwnerInv, OwnerRecorded, HoldInv, Holds
  <2>5. CountInv'
    BY <1>7 DEF CountIn, CountInv, Announced, InLockSync
  <2> QED BY <2>1, <2>2, <2>3, <2>4, <2>5
<1>8. ASSUME NEW f \in Fibers, Peek(f) PROVE LockInv'
  <2>1. TypeOK'
    BY <1>8 DEF Peek, PhaseInv, CountInv, Announced
  <2>2. PhaseInv'
    BY <1>8 DEF Peek, PhaseInv, HoldInv, Holds, OwnerInv, OwnerRecorded
  <2>3. HoldInv'
    BY <1>8 DEF Peek, PhaseInv, OwnerInv, OwnerRecorded, HoldInv, Holds
  <2>4. OwnerInv'
    BY <1>8 DEF Peek, PhaseInv, OwnerInv, OwnerRecorded, HoldInv, Holds
  <2>5. CountInv'
    BY <1>8 DEF Peek, CountInv, Announced, InLockSync
  <2> QED BY <2>1, <2>2, <2>3, <2>4, <2>5
<1>9. ASSUME NEW f \in Fibers, Grab(f) PROVE LockInv'
  <2>01. queueCount = Len(queue) + 1 /\ Len(queue) \in Nat
    BY <1>9 DEF Grab, CountInv, Announced
  <2>1. TypeOK'
    <3>1. CASE state = 0
      <4>1. queueCount' \in Nat
        BY <1>9, <2>01, <3>1 DEF Grab
      <4> QED BY <1>9, <3>1, <4>1 DEF Grab
    <3>2. CASE state # 0
      BY <1>9, <3>2 DEF Grab
    <3> QED BY <3>1, <3>2
  <2>2. PhaseInv'
    BY <1>9 DEF Grab, PhaseInv, HoldInv, Holds, OwnerInv, OwnerRecorded
  <2>3. HoldInv'
    BY <1>9 DEF Grab, PhaseInv, OwnerInv, OwnerRecorded, HoldInv, Holds
  <2>4. OwnerInv'
    BY <1>9 DEF Grab, PhaseInv, OwnerInv, OwnerRecorded, HoldInv, Holds
  <2>5. CountInv'
    <3>1. \A g \in Fibers \ {f} : pc[g] \notin InLockSync \cup {"pop"}
      BY <1>9 DEF Grab, CountInv, InLockSync
    <3>2. CASE state = 0
      <4>1. \A g \in Fibers : pc'[g] \notin InLockSync \cup {"pop"}
        BY <1>9, <3>1, <3>2 DEF Grab, InLockSync
      <4>2. queueCount' = Len(queue') /\ spin' = NoFiber
        BY <1>9, <2>01, <3>2 DEF Grab
      <4> QED BY <4>1, <4>2 DEF CountInv, Announced, InLockSync
    <3>3. CASE state # 0
      BY <1>9, <2>01, <3>1, <3>3 DEF Grab, CountInv, Announced, InLockSync
    <3> QED BY <3>2, <3>3
  <2> QED BY <2>1, <2>2, <2>3, <2>4, <2>5
<1>10. ASSUME NEW f \in Fibers, Push(f) PROVE LockInv'
  <2>1. TypeOK'
    BY <1>10 DEF Push, PhaseInv, CountInv, Announced
  <2>2. PhaseInv'
    BY <1>10 DEF Push, PhaseInv, HoldInv, Holds, OwnerInv, OwnerRecorded
  <2>3. HoldInv'
    BY <1>10 DEF Push, PhaseInv, OwnerInv, OwnerRecorded, HoldInv, Holds
  <2>4. OwnerInv'
    BY <1>10 DEF Push, PhaseInv, OwnerInv, OwnerRecorded, HoldInv, Holds
  <2>5. CountInv'
    BY <1>10 DEF Push, CountInv, Announced, InLockSync
  <2> QED BY <2>1, <2>2, <2>3, <2>4, <2>5
<1>11. ASSUME NEW f \in Fibers, Resume(f) PROVE LockInv'
  <2>1. TypeOK'
    BY <1>11 DEF Resume, PhaseInv, CountInv, Announced
  <2>2. PhaseInv'
    BY <1>11 DEF Resume, PhaseInv, HoldInv, Holds, OwnerInv, OwnerRecorded
  <2>3. HoldInv'
    BY <1>11 DEF Resume, PhaseInv, OwnerInv, OwnerRecorded, HoldInv, Holds
  <2>4. OwnerInv'
    BY <1>11 DEF Resume, PhaseInv, OwnerInv, OwnerRecorded, HoldInv, Holds
  <2>5. CountInv'
    BY <1>11 DEF Resume, CountInv, Announced, InLockSync
  <2> QED BY <2>1, <2>2, <2>3, <2>4, <2>5
<1>12. ASSUME NEW f \in Fibers, UnlockChecks(f) PROVE LockInv'
  <2>01. depth[f] > 0 /\ (Protection # "unchecked" => mutexFiber = f)
    BY <1>12 DEF UnlockChecks, OwnerInv, OwnerRecorded
  <2>02. \A g \in Fibers \ {f} : ~Holds(g)
    BY <2>01 DEF HoldInv, Holds
  <2>1. TypeOK'
    <3>1. depth[f] - 1 \in Nat
      BY <2>01
    <3>2. CASE Protection = "reentrant" /\ lockCount > 0
      BY <1>12, <3>1, <3>2 DEF UnlockChecks
    <3>3. CASE ~(Protection = "reentrant" /\ lockCount > 0)
      BY <1>12, <3>1, <3>3 DEF UnlockChecks
    <3> QED BY <3>2, <3>3
  <2>2. PhaseInv'
    BY <1>12, <2>01, <2>02 DEF UnlockChecks, PhaseInv, OwnerInv, OwnerRecorded, Holds
  <2>3. HoldInv'
    BY <1>12 DEF UnlockChecks, PhaseInv, OwnerInv, OwnerRecorded, HoldInv, Holds
  <2>4. OwnerInv'
    BY <1>12, <2>01, <2>02 DEF UnlockChecks, PhaseInv, OwnerInv, OwnerRecorded, Holds
  <2>5. CountInv'
    BY <1>12 DEF UnlockChecks, CountInv, Announced, InLockSync
  <2> QED BY <2>1, <2>2, <2>3, <2>4, <2>5
<1>13. ASSUME NEW f \in Fibers, Release(f) PROVE LockInv'
  <2>1. TypeOK'
    BY <1>13 DEF Release, PhaseInv, CountInv, Announced
  <2>2. PhaseInv'
    BY <1>13 DEF Release, PhaseInv, HoldInv, Holds, OwnerInv, OwnerRecorded
  <2>3. HoldInv'
    BY <1>13 DEF Release, PhaseInv, OwnerInv, OwnerRecorded, HoldInv, Holds
  <2>4. OwnerInv'
    BY <1>13 DEF Release, PhaseInv, OwnerInv, OwnerRecorded, HoldInv, Holds
  <2>5. CountInv'
    BY <1>13 DEF Release, CountInv, Announced, InLockSync
  <2> QED BY <2>1, <2>2, <2>3, <2>4, <2>5
<1>14. ASSUME NEW f \in Fibers, Flush(f) PROVE LockInv'
  <2>1. TypeOK'
    BY <1>14 DEF Flush, PhaseInv, CountInv, Announced, Drain
  <2>2. PhaseInv'
    BY <1>14 DEF Flush, PhaseInv, HoldInv, Holds, OwnerInv, OwnerRecorded, Drain
  <2>3. HoldInv'
    <3>1. \A g \in Fibers \ {f} : ~Holds(g)
      BY <1>14 DEF Flush, HoldInv, Holds
    <3>2. depth[f] = 0 /\ pc[f] \in {"idle", "check", "enterWake"}
      BY <1>14 DEF Flush, PhaseInv
    <3>3. \A g \in Fibers : ~Holds(g)'
      BY <1>14, <3>1, <3>2 DEF Flush, Drain, Holds
    <3> QED BY <1>14, <3>3 DEF Flush, HoldInv
  <2>4. OwnerInv'
    BY <1>14 DEF Flush, PhaseInv, OwnerInv, OwnerRecorded, HoldInv, Holds, Drain
  <2>5. CountInv'
    BY <1>14 DEF Flush, CountInv, Announced, InLockSync, Drain
  <2> QED BY <2>1, <2>2, <2>3, <2>4, <2>5
<1>15. ASSUME NEW f \in Fibers, CheckQueue(f) PROVE LockInv'
  <2>1. TypeOK'
    BY <1>15 DEF CheckQueue, PhaseInv, CountInv, Announced
  <2>2. PhaseInv'
    BY <1>15 DEF CheckQueue, PhaseInv, HoldInv, Holds, OwnerInv, OwnerRecorded
  <2>3. HoldInv'
    BY <1>15 DEF CheckQueue, PhaseInv, OwnerInv, OwnerRecorded, HoldInv, Holds
  <2>4. OwnerInv'
    BY <1>15 DEF CheckQueue, PhaseInv, OwnerInv, OwnerRecorded, HoldInv, Holds
  <2>5. CountInv'
    BY <1>15 DEF CheckQueue, CountInv, Announced, InLockSync
  <2> QED BY <2>1, <2>2, <2>3, <2>4, <2>5
<1>16. ASSUME NEW f \in Fibers, EnterWakeSync(f) PROVE LockInv'
  <2>1. TypeOK'
    BY <1>16 DEF EnterWakeSync, PhaseInv, CountInv, Announced, Drain, Seen
  <2>2. PhaseInv'
    BY <1>16 DEF EnterWakeSync, PhaseInv, HoldInv, Holds, OwnerInv, OwnerRecorded, Drain, Seen
  <2>3. HoldInv'
    BY <1>16 DEF EnterWakeSync, PhaseInv, OwnerInv, OwnerRecorded, HoldInv, Holds, Drain, Seen
  <2>4. OwnerInv'
    BY <1>16 DEF EnterWakeSync, PhaseInv, OwnerInv, OwnerRecorded, HoldInv, Holds, Drain, Seen
  <2>5. CountInv'
    BY <1>16 DEF EnterWakeSync, CountInv, Announced, InLockSync, Drain, Seen
  <2> QED BY <2>1, <2>2, <2>3, <2>4, <2>5
<1>17. ASSUME NEW f \in Fibers, Pop(f) PROVE LockInv'
  <2>01. /\ queueCount = Len(queue) /\ Len(queue) \in Nat
        /\ \A g \in Fibers \ {f} : pc[g] \notin InLockSync \cup {"pop"}
    BY <1>17 DEF Pop, CountInv, Announced, InLockSync
  <2>02. CASE queue = <<>>
    <3>1. /\ spin' = NoFiber /\ pc' = [pc EXCEPT ![f] = "idle"] /\ pc[f] = "pop"
          /\ UNCHANGED <<queue, queueCount, target, state, mutexFiber, lockCount,
                         delayed, woken, depth, locks>>
      BY <1>17, <2>02 DEF Pop
    <3>2. TypeOK'
      BY <3>1
    <3>3. PhaseInv'
      BY <3>1 DEF PhaseInv
    <3>4. HoldInv'
      BY <3>1 DEF HoldInv, Holds
    <3>5. OwnerInv'
      BY <3>1 DEF OwnerInv, OwnerRecorded
    <3>6. CountInv'
      BY <2>01, <3>1 DEF CountInv, Announced, InLockSync
    <3> QED BY <3>2, <3>3, <3>4, <3>5, <3>6
  <2>03. CASE queue # <<>>
    <3>1. /\ Head(queue) \in Fibers /\ Tail(queue) \in Seq(Fibers)
          /\ Len(queue) > 0 /\ Len(Tail(queue)) = Len(queue) - 1
      BY <2>03
    <3>2. /\ spin' = NoFiber /\ queue' = Tail(queue)
          /\ target' = [target EXCEPT ![f] = Head(queue)]
          /\ queueCount' = queueCount - 1
          /\ pc' = [pc EXCEPT ![f] = "wake"]
          /\ UNCHANGED <<state, mutexFiber, lockCount, delayed, woken, depth, locks>>
          /\ pc[f] = "pop"
      BY <1>17, <2>01, <2>03, <3>1 DEF Pop
    <3>3. TypeOK'
      BY <2>01, <3>1, <3>2
    <3>4. PhaseInv'
      BY <3>1, <3>2 DEF PhaseInv
    <3>5. HoldInv'
      BY <3>2 DEF HoldInv, Holds
    <3>6. OwnerInv'
      BY <3>2 DEF OwnerInv, OwnerRecorded
    <3>7. CountInv'
      BY <2>01, <3>1, <3>2 DEF CountInv, Announced, InLockSync
    <3> QED BY <3>3, <3>4, <3>5, <3>6, <3>7
  <2> QED BY <2>02, <2>03
<1>18. ASSUME NEW f \in Fibers, Wake(f) PROVE LockInv'
  <2>1. TypeOK'
    BY <1>18 DEF Wake, PhaseInv, CountInv, Announced
  <2>2. PhaseInv'
    BY <1>18 DEF Wake, PhaseInv, HoldInv, Holds, OwnerInv, OwnerRecorded
  <2>3. HoldInv'
    BY <1>18 DEF Wake, PhaseInv, OwnerInv, OwnerRecorded, HoldInv, Holds
  <2>4. OwnerInv'
    BY <1>18 DEF Wake, PhaseInv, OwnerInv, OwnerRecorded, HoldInv, Holds
  <2>5. CountInv'
    BY <1>18 DEF Wake, CountInv, Announced, InLockSync
  <2> QED BY <2>1, <2>2, <2>3, <2>4, <2>5
<1>19. CASE UNCHANGED vars
  BY <1>19 DEF vars, PhaseInv, HoldInv, OwnerInv, OwnerRecorded, Holds, CountInv
<1> QED
  BY <1>1, <1>2, <1>3, <1>4, <1>5, <1>6, <1>7, <1>8, <1>9, <1>10, <1>11, <1>12, <1>13, <1>14, <1>15, <1>16, <1>17, <1>18, <1>19 DEF Next, Locking, Unlocking
-----------------------------------------------------------------------------
(* A checked or reentrant mutex, an unchecked one, any number of fibers:   *)
(* the model's variables stay in their types, which is what the arithmetic *)
(* on queue_count and lock_count in mutex.cr relies on (neither is ever    *)
(* decremented below zero).                                                *)
THEOREM TypeCorrect == Spec => []TypeOK
<1>1. LockInv => TypeOK
  BY DEF LockInv
<1> QED BY <1>1, LockInvInit, LockInvStep, PTL DEF Spec

(* Two fibers are never inside the block of `synchronize` at a time, even  *)
(* when the store that releases the mutex is delayed.                      *)
THEOREM Exclusion == Spec => []MutualExclusion
<1>1. LockInv => MutualExclusion
  BY DEF LockInv, HoldInv, Holds, MutualExclusion
<1> QED BY <1>1, LockInvInit, LockInvStep, PTL DEF Spec

(* The owner and the lock count that unlock checks are those of the fiber  *)
(* that holds the mutex.                                                   *)
THEOREM OwnershipSound == Spec => []OwnerRecorded
<1>1. LockInv => OwnerRecorded
  BY DEF LockInv, OwnerInv
<1> QED BY <1>1, LockInvInit, LockInvStep, PTL DEF Spec

-----------------------------------------------------------------------------
(* The wait queue.  A suspended fiber is queued, taken by one unlock or    *)
(* enqueued in its scheduler, never two of these at once.                  *)
Queued(f) == \E i \in 1..Len(queue) : queue[i] = f

QueueInv ==
  /\ \A i, j \in 1..Len(queue) : queue[i] = queue[j] => i = j
  /\ \A f \in Fibers : Queued(f) => pc[f] = "parked" /\ f \notin woken
  /\ \A f \in woken : pc[f] = "parked"
  /\ \A f \in Fibers : pc[f] = "wake" =>
       /\ pc[target[f]] = "parked" /\ target[f] \notin woken
       /\ ~Queued(target[f])
  /\ \A f, g \in Fibers :
       pc[f] = "wake" /\ pc[g] = "wake" /\ target[f] = target[g] => f = g

(* While a fiber is queued, or about to queue itself, and the mutex is     *)
(* free, some fiber is on its way to the mutex or to the queue.            *)
Responsible(f) ==
  \/ pc[f] \in {"try", "enter", "count", "peek", "grab", "check",
                "enterWake", "pop", "wake"}
  \/ f \in woken

WakeInv ==
  /\ \A f \in Fibers : ~delayed[f]
  /\ state = 0 /\ (queue # <<>> \/ \E f \in Fibers : pc[f] = "push")
       => \E f \in Fibers : Responsible(f)

LEMMA QueueInvInit == Init => QueueInv
BY DEF Init, QueueInv, Queued

(* A step of f that leaves the queue alone, and neither suspends f nor     *)
(* wakes it.                                                               *)
LEMMA QueueInvFrame ==
  ASSUME TypeOK, QueueInv, NEW f \in Fibers,
         UNCHANGED <<queue, woken, target>>,
         pc[f] # "parked", NEW s, s \notin {"parked", "wake"},
         pc' = [pc EXCEPT ![f] = s]
  PROVE  QueueInv'
BY DEF TypeOK, QueueInv, Queued

LEMMA QueueInvStep == LockInv /\ QueueInv /\ [Next]_vars => QueueInv'
<1> SUFFICES ASSUME LockInv, QueueInv, [Next]_vars PROVE QueueInv'
  OBVIOUS
<1> USE MutexAssumption DEF TypeOK, Goto
<1> TypeOK
  BY DEF LockInv
<1>1. ASSUME NEW f \in Fibers, LockFast(f) PROVE QueueInv'
  BY <1>1, QueueInvFrame DEF LockFast
<1>2. ASSUME NEW f \in Fibers,
             Own(f) \/ Relock(f) \/ Contend(f) \/ TryLock(f) \/ EnterLockSync(f)
      PROVE  QueueInv'
  BY <1>2, QueueInvFrame DEF Own, Relock, Contend, TryLock, EnterLockSync
<1>3. ASSUME NEW f \in Fibers, CountIn(f) \/ Peek(f) \/ Grab(f)
      PROVE  QueueInv'
  BY <1>3, QueueInvFrame DEF CountIn, Peek, Grab
<1>4. ASSUME NEW f \in Fibers, Push(f) PROVE QueueInv'
  <2>1. /\ pc[f] = "push" /\ pc' = [pc EXCEPT ![f] = "parked"]
        /\ queue' = Append(queue, f) /\ UNCHANGED <<woken, target>>
    BY <1>4 DEF Push
  <2>2. /\ Len(queue) \in Nat
        /\ Len(queue') = Len(queue) + 1 /\ queue'[Len(queue) + 1] = f
        /\ \A i \in 1..Len(queue) : queue'[i] = queue[i]
    BY <2>1
  <2>0. \A i : i \in 1..Len(queue') <=> i \in 1..Len(queue) \/ i = Len(queue) + 1
    BY <2>2
  <2>3. \A g \in Fibers : Queued(g)' <=> Queued(g) \/ g = f
    BY <2>2, <2>0, Zenon DEF Queued
  <2>4. ~Queued(f) /\ f \notin woken
    BY <2>1 DEF QueueInv
  <2>5. \A i, j \in 1..Len(queue') : queue'[i] = queue'[j] => i = j
    <3>1. \A i, j \in 1..Len(queue) : queue[i] = queue[j] => i = j
      BY DEF QueueInv
    <3>2. \A i \in 1..Len(queue) : queue[i] # f
      BY <2>4 DEF Queued
    <3> QED BY <2>2, <2>0, <3>1, <3>2
  <2>6. \A g \in Fibers : pc[g] = "wake" => target[g] # f
    BY <2>1 DEF QueueInv
  <2> QED
    BY <2>1, <2>3, <2>4, <2>5, <2>6 DEF QueueInv, LockInv, PhaseInv
<1>5. ASSUME NEW f \in Fibers, Resume(f) PROVE QueueInv'
  BY <1>5 DEF Resume, QueueInv, Queued
<1>6. ASSUME NEW f \in Fibers, UnlockChecks(f) PROVE QueueInv'
  <2>1. CASE UNCHANGED pc
    BY <1>6, <2>1 DEF UnlockChecks, QueueInv, Queued
  <2>2. CASE Goto(f, "release")
    BY <1>6, <2>2, QueueInvFrame DEF UnlockChecks
  <2> QED BY <1>6, <2>1, <2>2 DEF UnlockChecks
<1>7. ASSUME NEW f \in Fibers, Release(f) \/ CheckQueue(f) \/ EnterWakeSync(f)
      PROVE  QueueInv'
  BY <1>7, QueueInvFrame DEF Release, CheckQueue, EnterWakeSync
<1>8. ASSUME NEW f \in Fibers, Flush(f) PROVE QueueInv'
  BY <1>8 DEF Flush, QueueInv, Queued
<1>9. ASSUME NEW f \in Fibers, Pop(f) PROVE QueueInv'
  <2>1. CASE queueCount = 0 \/ queue = <<>>
    BY <1>9, <2>1, QueueInvFrame DEF Pop
  <2>2. CASE ~(queueCount = 0 \/ queue = <<>>)
    <3>1. /\ pc[f] = "pop" /\ pc' = [pc EXCEPT ![f] = "wake"]
          /\ target' = [target EXCEPT ![f] = Head(queue)]
          /\ queue' = Tail(queue) /\ UNCHANGED woken
      BY <1>9, <2>2 DEF Pop
    <3>2. /\ Len(queue) \in Nat \ {0} /\ Len(queue') = Len(queue) - 1
          /\ \A i \in 1..Len(queue') : queue'[i] = queue[i + 1]
          /\ Head(queue) = queue[1] /\ queue[1] \in Fibers
      BY <2>2, <3>1
    <3> PICK h \in Fibers : h = queue[1]
      BY <3>2
    <3>3. \A i \in 1..Len(queue') : i + 1 \in 1..Len(queue) /\ i + 1 # 1
      BY <3>2
    <3>4. \A i, j \in 1..Len(queue) : queue[i] = queue[j] => i = j
      BY DEF QueueInv
    <3>5. \A i, j \in 1..Len(queue') : queue'[i] = queue'[j] => i = j
      <4> SUFFICES ASSUME NEW i \in 1..Len(queue'), NEW j \in 1..Len(queue'),
                          queue'[i] = queue'[j]
                   PROVE  i = j
        OBVIOUS
      <4>1. i + 1 = j + 1
        BY <3>2, <3>3, <3>4
      <4> QED BY <3>2, <4>1
    <3>6. 1 \in 1..Len(queue)
      BY <3>2
    <3>7. Queued(h)
      BY <3>6 DEF Queued
    <3>10. ~Queued(h)'
      <4> SUFFICES ASSUME NEW i \in 1..Len(queue'), queue'[i] = h PROVE FALSE
        BY DEF Queued
      <4> QED BY <3>2, <3>3, <3>4, <3>6
    <3>8. \A g \in Fibers : Queued(g)' => Queued(g)
      BY <3>2, <3>3, Zenon DEF Queued
    <3>9. \A g \in Fibers : pc[g] = "wake" => target[g] # h
      BY <3>7 DEF QueueInv
    <3> QED
      BY <3>1, <3>2, <3>5, <3>7, <3>10, <3>8, <3>9 DEF QueueInv, LockInv, PhaseInv
  <2> QED BY <2>1, <2>2
<1>10. ASSUME NEW f \in Fibers, Wake(f) PROVE QueueInv'
  <2>1. target[f] \in Fibers
    BY <1>10 DEF Wake, LockInv, PhaseInv
  <2>2. /\ pc[f] = "wake" /\ pc' = [pc EXCEPT ![f] = "idle"]
        /\ woken' = woken \cup {target[f]}
        /\ target' = [target EXCEPT ![f] = NoFiber] /\ UNCHANGED queue
    BY <1>10 DEF Wake
  <2>3. \A g \in Fibers : Queued(g)' <=> Queued(g)
    BY <2>2 DEF Queued
  <2>4. pc[target[f]] = "parked" /\ target[f] # f /\ ~Queued(target[f])
    BY <2>1, <2>2 DEF QueueInv
  <2>5. \A g \in Fibers \ {f} : pc[g] = "wake" => target[g] # target[f]
    BY <2>2 DEF QueueInv
  <2>6. \A g \in Fibers : pc[g] = "wake" => target[g] \in Fibers
    BY DEF LockInv, PhaseInv
  <2> QED
    BY <2>1, <2>2, <2>3, <2>4, <2>5, <2>6 DEF QueueInv
<1>11. CASE UNCHANGED vars
  BY <1>11 DEF vars, QueueInv, Queued
<1> QED
  BY <1>1, <1>2, <1>3, <1>4, <1>5, <1>6, <1>7, <1>8, <1>9, <1>10, <1>11
     DEF Next, Locking, Unlocking

(* A fiber is queued at most once, and only suspended fibers are queued or *)
(* handed to a scheduler, so unlock never resumes a running fiber.         *)
THEOREM QueueSound == Spec => []WaitersSuspended
<1>1. LockInv /\ QueueInv => WaitersSuspended
  BY DEF LockInv, TypeOK, QueueInv, Queued, WaitersSuspended
<1> QED
  BY <1>1, LockInvInit, LockInvStep, QueueInvInit, QueueInvStep, PTL DEF Spec

-----------------------------------------------------------------------------
LEMMA WakeInvInit == Init => WakeInv
BY DEF Init, WakeInv

LEMMA WakeInvStep ==
  ASSUME ~StoreBuffers
  PROVE  LockInv /\ QueueInv /\ WakeInv /\ [Next]_vars => WakeInv'
<1> SUFFICES ASSUME LockInv, QueueInv, WakeInv, [Next]_vars PROVE WakeInv'
  OBVIOUS
<1> USE MutexAssumption DEF TypeOK, Goto
<1> TypeOK
  BY DEF LockInv
<1>1. ASSUME NEW f \in Fibers, LockFast(f) PROVE WakeInv'
  BY <1>1 DEF LockFast, WakeInv, Drain
<1>2. ASSUME NEW f \in Fibers, Own(f) \/ Relock(f) PROVE WakeInv'
  <2>1. Holds(f) \/ UNCHANGED state
    BY <1>2 DEF Own, Relock
  <2> QED BY <1>2, <2>1 DEF Own, Relock, WakeInv, Responsible, LockInv, HoldInv, Holds
<1>3. ASSUME NEW f \in Fibers, Contend(f) \/ TryLock(f) \/ EnterLockSync(f) \/ CountIn(f)
      PROVE  WakeInv'
  BY <1>3 DEF Contend, TryLock, EnterLockSync, CountIn, WakeInv, Responsible
<1>4. ASSUME NEW f \in Fibers, Peek(f) \/ Grab(f)
      PROVE  WakeInv'
  BY <1>4 DEF Peek, Grab, WakeInv, Responsible
<1>5. ASSUME NEW f \in Fibers, Push(f) PROVE WakeInv'
  BY <1>5 DEF Push, WakeInv, Responsible, QueueInv
<1>6. ASSUME NEW f \in Fibers, Resume(f) PROVE WakeInv'
  BY <1>6 DEF Resume, WakeInv, Responsible
<1>7. ASSUME NEW f \in Fibers, UnlockChecks(f) PROVE WakeInv'
  BY <1>7 DEF UnlockChecks, WakeInv, Responsible, LockInv, HoldInv, Holds, OwnerInv, OwnerRecorded
<1>8. ASSUME NEW f \in Fibers, Release(f) PROVE WakeInv'
  BY <1>8 DEF Release, WakeInv, Responsible
<1>9. ASSUME NEW f \in Fibers, CheckQueue(f) PROVE WakeInv'
  BY <1>9 DEF CheckQueue, WakeInv, Responsible, LockInv, CountInv, Announced
<1>10. ASSUME NEW f \in Fibers, EnterWakeSync(f) PROVE WakeInv'
  BY <1>10 DEF EnterWakeSync, WakeInv, Responsible, Seen, Drain
<1>11. ASSUME NEW f \in Fibers, Pop(f) PROVE WakeInv'
  BY <1>11 DEF Pop, WakeInv, Responsible, LockInv, CountInv, Announced, InLockSync
<1>12. ASSUME NEW f \in Fibers, Wake(f) PROVE WakeInv'
  BY <1>12 DEF Wake, WakeInv, Responsible, LockInv, PhaseInv
<1>13. ASSUME NEW f \in Fibers, Flush(f) PROVE WakeInv'
  BY <1>13 DEF Flush, WakeInv
<1>14. CASE UNCHANGED vars
  BY <1>14 DEF vars, WakeInv, Responsible
<1> QED
  BY <1>1, <1>2, <1>3, <1>4, <1>5, <1>6, <1>7, <1>8, <1>9, <1>10, <1>11, <1>12,
     <1>13, <1>14 DEF Next, Locking, Unlocking

(* When the store that releases the mutex is visible at once, no wake-up   *)
(* is lost: as long as a fiber is queued, some fiber holds the mutex or is *)
(* on its way to take it or to wake the next waiter.                       *)
THEOREM WakeupNotLost ==
  ASSUME ~StoreBuffers
  PROVE  Spec => []NoLostWakeup
<1>1. LockInv /\ WakeInv => NoLostWakeup
  BY DEF LockInv, TypeOK, HoldInv, WakeInv, Responsible, NoLostWakeup, Attends
<1> QED
  BY <1>1, LockInvInit, LockInvStep, QueueInvInit, QueueInvStep, WakeInvInit,
     WakeInvStep, PTL DEF Spec
=============================================================================
