--------------------------- MODULE SchedulerProofs ---------------------------
(* What TLAPS proves of Scheduler, for any number of threads and fibers:   *)
(* a thread in its event loop can be woken, no two fibers share a stack,   *)
(* no fiber is resumed while it runs or after it has ended, and none is    *)
(* lost or queued twice.                                                   *)
EXTENDS Scheduler, FiniteSetTheorems, TLAPS

LoopSteps == {"start", "loop", "receive", "reading", "wake"}
FiberSteps == {"unborn", "start", "run", "enqueue", "suspending", "ended"}

In(q, f) == \E i \in DOMAIN q : q[i] = f

QueueTypes ==
  /\ runnables \in [Threads -> Seq(All)]
  /\ pipe \in [Threads -> Seq(Fibers)]
  /\ sleeping \in [Threads -> BOOLEAN]
  /\ polling \in [Threads -> BOOLEAN]
  /\ waiting \subseteq Fibers
  /\ events \subseteq All

ContextTypes ==
  /\ current \in [Threads -> All]
  /\ thread \in [All -> Threads \cup {None}]
  /\ saved \in [All -> BOOLEAN]
  /\ fatal \in BOOLEAN

StepTypes ==
  /\ pc \in [All -> LoopSteps \cup FiberSteps]
  /\ target \in [All -> Fibers \cup {None}]
  /\ \A t \in Threads : pc[t] \in LoopSteps
  /\ \A f \in Fibers : pc[f] \in FiberSteps

StackTypes ==
  /\ stack \in [Fibers -> Fibers \cup {None}]
  /\ pool \subseteq Fibers
  /\ freeStacks \in [Threads -> SUBSET Fibers]

(* A thread's worker loop is known to this thread alone: it is in no other *)
(* queue, and current nowhere else.                                        *)
Homes ==
  \A t \in Threads :
    /\ \A x : In(runnables[t], x) => x \in Fibers \cup {t}
    /\ current[t] \in Fibers \cup {t}
    /\ thread[t] \in {t, None}

(* Whoever is about to enqueue or to resume a fiber has one. *)
Targets ==
  /\ \A t \in Threads :
       ~fatal /\ pc[t] = "wake" /\ current[t] = t => target[t] \in Fibers
  /\ \A f \in Fibers : pc[f] = "enqueue" => target[f] \in Fibers

(* A fiber that runs or has saved its context was spawned, with a stack.   *)
Spawned ==
  /\ \A t \in Threads : pc[current[t]] # "unborn"
  /\ \A f \in Fibers : /\ saved[f] => pc[f] # "unborn"
                       /\ pc[f] # "unborn" => stack[f] \in Fibers

TypeInv ==
  /\ QueueTypes /\ ContextTypes /\ StepTypes /\ StackTypes
  /\ Homes /\ Targets /\ Spawned

(* A worker loop that is asleep, or about to be, says so; and as long as   *)
(* the thread can go on, its loop has it, is queued, or waits for the pipe.*)
LoopAt(t) ==
  /\ pc[t] \in {"receive", "reading"} => sleeping[t]
  /\ polling[t] => pc[t] = "reading" /\ t \in events
  /\ \/ fatal
     \/ current[t] = t /\ pc[t] # "reading"
     \/ In(runnables[t], t)
     \/ t \in events /\ pc[t] = "reading"

LoopInv == \A t \in Threads : LoopAt(t)

InUse(f) == pc[f] # "unborn" /\ (pc[f] = "ended" => IsCurrent(f))

(* A fiber that runs has not saved its context, and runs on one thread.    *)
RunsOnce ==
  /\ \A t \in Threads : ~saved[current[t]]
  /\ \A t, u \in Threads : current[t] = current[u] => t = u

(* Every stack in existence has the name of a fiber that was spawned, and  *)
(* is in use, in the pool, or with one thread.                             *)
StackPlaces ==
  /\ \A f \in Fibers : pc[f] # "unborn" => pc[stack[f]] # "unborn"
  /\ \A s \in pool : pc[s] # "unborn"
  /\ \A t \in Threads : \A s \in freeStacks[t] :
       /\ s \notin pool /\ pc[s] # "unborn"
       /\ \A u \in Threads : s \in freeStacks[u] => u = t
       /\ \A f \in Fibers :
            InUse(f) /\ stack[f] = s => pc[f] = "ended" /\ current[t] = f

StackInv == RunsOnce /\ StackPlaces /\ NoSharedStack

(* Where a fiber waits to be run: a queue, a pipe, the hands of another    *)
(* fiber, a wait list or an event.                                         *)
Kinds == {"queue", "pipe", "target", "waiting", "events"}
Holders == All \cup {None}

Holds(k, a, x) ==
  \/ k = "queue" /\ a \in Threads /\ In(runnables[a], x)
  \/ k = "pipe" /\ a \in Threads /\ In(pipe[a], x)
  \/ k = "target" /\ a \in All /\ target[a] = x
  \/ k = "waiting" /\ a = None /\ x \in waiting
  \/ k = "events" /\ a = None /\ x \in events

Held(x) == \E k \in Kinds, a \in Holders : Holds(k, a, x)

AtMostOne ==
  \A x \in All, k, l \in Kinds, a, b \in Holders :
    Holds(k, a, x) /\ Holds(l, b, x) => k = l /\ a = b

HeldOnce ==
  /\ AtMostOne
  /\ \A t \in Threads : IsInjective(runnables[t]) /\ IsInjective(pipe[t])

(* Only a fiber that gave up its thread, or is about to, is held.          *)
Resting(x) ==
  /\ pc[x] \notin {"unborn", "ended"}
  /\ IsCurrent(x) => pc[x] \in {"suspending", "reading"}

HeldRest == \A x \in All : Held(x) => Resting(x)

(* A fiber that has a thread is current, queued and received there.        *)
AtHome ==
  \A t \in Threads :
    /\ thread[current[t]] = t
    /\ \A x : In(runnables[t], x) \/ In(pipe[t], x) => thread[x] \in {t, None}
    /\ target[t] # None => thread[target[t]] \in {t, None}

Saved == \A x \in All : pc[x] # "unborn" /\ ~IsCurrent(x) => saved[x]

WhereInv == NeverFatal /\ HeldOnce /\ HeldRest /\ AtHome /\ Saved

-----------------------------------------------------------------------------
(* Members of queues *)

LEMMA InAppend ==
  ASSUME NEW S, NEW q \in Seq(S), NEW e \in S, NEW x
  PROVE  In(Append(q, e), x) <=> In(q, x) \/ x = e
<1>1. /\ Len(Append(q, e)) = Len(q) + 1
      /\ \A i \in 1..Len(q) : Append(q, e)[i] = q[i]
      /\ Append(q, e)[Len(q) + 1] = e
      /\ DOMAIN q = 1..Len(q) /\ Len(q) \in Nat
      /\ DOMAIN Append(q, e) = 1..(Len(q) + 1)
  OBVIOUS
<1> QED BY <1>1 DEF In

LEMMA InTail ==
  ASSUME NEW S, NEW q \in Seq(S), q # <<>>
  PROVE  /\ In(q, Head(q))
         /\ Head(q) \in S /\ Tail(q) \in Seq(S)
         /\ \A x : In(Tail(q), x) => In(q, x)
         /\ \A x : In(q, x) /\ x # Head(q) => In(Tail(q), x)
<1>1. /\ Len(q) \in Nat /\ Len(q) > 0 /\ DOMAIN q = 1..Len(q)
      /\ DOMAIN Tail(q) = 1..(Len(q) - 1)
      /\ \A j \in 1..(Len(q) - 1) : Tail(q)[j] = q[j + 1]
      /\ Head(q) = q[1] /\ Head(q) \in S /\ Tail(q) \in Seq(S)
  OBVIOUS
<1>2. In(q, Head(q))
  BY <1>1 DEF In
<1>3. ASSUME NEW x, In(Tail(q), x) PROVE In(q, x)
  <2>1. PICK j \in 1..(Len(q) - 1) : q[j + 1] = x
    BY <1>1, <1>3 DEF In
  <2>2. j + 1 \in 1..Len(q)
    BY <1>1
  <2> QED BY <1>1, <2>1, <2>2 DEF In
<1>4. ASSUME NEW x, In(q, x), x # Head(q) PROVE In(Tail(q), x)
  <2>1. PICK i \in 1..Len(q) : q[i] = x
    BY <1>1, <1>4 DEF In
  <2>2. i > 1 /\ i \in Nat
    BY <1>1, <1>4, <2>1
  <2>3. i - 1 \in 1..(Len(q) - 1) /\ Tail(q)[i - 1] = x
    BY <1>1, <2>1, <2>2
  <2> QED BY <1>1, <2>3 DEF In
<1> QED BY <1>1, <1>2, <1>3, <1>4

LEMMA InConcat ==
  ASSUME NEW S, NEW q \in Seq(S), NEW r \in Seq(S), NEW x
  PROVE  In(q \o r, x) <=> In(q, x) \/ In(r, x)
<1>1. /\ Len(q \o r) = Len(q) + Len(r) /\ Len(q) \in Nat /\ Len(r) \in Nat
      /\ DOMAIN (q \o r) = 1..(Len(q) + Len(r))
      /\ DOMAIN q = 1..Len(q) /\ DOMAIN r = 1..Len(r)
      /\ \A i \in 1..Len(q) : (q \o r)[i] = q[i]
      /\ \A i \in 1..Len(r) : (q \o r)[Len(q) + i] = r[i]
      /\ \A i \in 1..(Len(q) + Len(r)) : i > Len(q) =>
           i - Len(q) \in 1..Len(r) /\ (q \o r)[i] = r[i - Len(q)]
  OBVIOUS
<1>2. ASSUME In(q \o r, x) PROVE In(q, x) \/ In(r, x)
  BY <1>1, <1>2 DEF In
<1>3. ASSUME In(q, x) PROVE In(q \o r, x)
  BY <1>1, <1>3 DEF In
<1>4. ASSUME In(r, x) PROVE In(q \o r, x)
  BY <1>1, <1>4 DEF In
<1> QED BY <1>2, <1>3, <1>4

-----------------------------------------------------------------------------
(* Types *)

LEMMA TypeInit == Init => TypeInv
<1> SUFFICES ASSUME Init PROVE TypeInv
  OBVIOUS
<1> USE SchedulerAssumption DEF All, LoopSteps, FiberSteps
<1>1. QueueTypes
  <2>1. <<First>> \in Seq(All) /\ <<>> \in Seq(All) /\ <<>> \in Seq(Fibers)
    OBVIOUS
  <2> QED BY <2>1 DEF Init, QueueTypes
<1>2. ContextTypes
  BY DEF Init, ContextTypes
<1>3. StepTypes /\ StackTypes
  BY DEF Init, StepTypes, StackTypes
<1>4. Homes
  BY DEF Init, Homes, In
<1>5. Targets /\ Spawned
  BY DEF Init, Targets, Spawned
<1> QED BY <1>1, <1>2, <1>3, <1>4, <1>5 DEF TypeInv

(* What the thread's current fiber is, by its step. *)
LEMMA AtStep ==
  ASSUME TypeInv, NEW t \in Threads, NEW step, At(t, step)
  PROVE  /\ ~fatal /\ ~polling[t] /\ pc[current[t]] = step
         /\ current[t] \in All
         /\ step \in {"loop", "receive", "reading", "wake"} => current[t] = t
         /\ step \in {"unborn", "run", "enqueue", "suspending", "ended"} =>
              current[t] \in Fibers /\ current[t] # t
BY SchedulerAssumption
   DEF TypeInv, ContextTypes, StepTypes, Homes, LoopSteps, FiberSteps, At

LEMMA ContinuesTypes ==
  ASSUME NEW h \in All
  PROVE  /\ Continues(h) \in {"receive", "loop", "run", "ended"}
         /\ h \in Fibers => Continues(h) \in {"run", "ended"}
         /\ h \in Threads => Continues(h) \in {"receive", "loop"}
BY SchedulerAssumption DEF Continues

(* Resume changes the steps of the resumed fiber alone. *)
LEMMA ResumeTypes ==
  ASSUME TypeInv, NEW t \in Threads, NEW h \in Fibers \cup {t}, Resume(t, h),
         UNCHANGED stack, target' \in [All -> Fibers \cup {None}]
  PROVE  /\ ContextTypes' /\ StepTypes' /\ StackTypes' /\ Spawned'
         /\ \A u \in Threads : /\ current'[u] \in Fibers \cup {u}
                               /\ thread'[u] \in {u, None}
<1>0. h \in All /\ current[t] \in All
  BY DEF TypeInv, ContextTypes, All
<1>1. StackTypes'
  <2>1. UNCHANGED <<pool, freeStacks>> \/ ReleaseStacks(t, h)
    BY DEF Resume
  <2> QED BY <2>1 DEF ReleaseStacks, TypeInv, StackTypes
<1>2. CASE saved[h] /\ pc[h] # "ended"
  <2>1. /\ current' = [current EXCEPT ![t] = h]
        /\ saved' = [saved EXCEPT ![current[t]] = TRUE, ![h] = FALSE]
        /\ thread' = [thread EXCEPT ![h] = t]
        /\ pc' = [pc EXCEPT ![h] = Continues(h)]
        /\ fatal' = fatal
    BY <1>2 DEF Resume, Goto
  <2>2. ContextTypes'
    BY <1>0, <2>1 DEF TypeInv, ContextTypes, All
  <2>3. StepTypes'
    BY <1>0, <2>1, ContinuesTypes, SchedulerAssumption
       DEF TypeInv, StepTypes, LoopSteps, FiberSteps, All
  <2>4. \A u \in Threads : /\ current'[u] \in Fibers \cup {u}
                           /\ thread'[u] \in {u, None}
    BY <1>0, <2>1, SchedulerAssumption DEF TypeInv, ContextTypes, Homes, All
  <2>5. Spawned'
    <3>1. Continues(h) # "unborn" /\ (h \in Fibers => pc[h] # "unborn")
      BY <1>0, <1>2, ContinuesTypes DEF TypeInv, Spawned
    <3>2. \A x \in All : pc'[x] = "unborn" <=> x # h /\ pc[x] = "unborn"
      BY <1>0, <2>1, <3>1 DEF TypeInv, StepTypes
    <3>3. ASSUME NEW u \in Threads PROVE pc'[current'[u]] # "unborn"
      BY <1>0, <2>1, <3>2 DEF TypeInv, ContextTypes, Spawned
    <3>4. ASSUME NEW f \in Fibers, saved'[f] PROVE pc'[f] # "unborn"
      <4>1. f # h /\ (f = current[t] \/ saved[f])
        BY <1>0, <2>1, <3>4 DEF TypeInv, ContextTypes, All
      <4> QED BY <3>2, <4>1 DEF TypeInv, Spawned, All
    <3>5. ASSUME NEW f \in Fibers, pc'[f] # "unborn" PROVE stack'[f] \in Fibers
      BY <3>1, <3>2, <3>5 DEF TypeInv, Spawned, All
    <3> QED BY <3>3, <3>4, <3>5 DEF Spawned
  <2> QED BY <1>1, <2>2, <2>3, <2>4, <2>5
<1>3. CASE ~(saved[h] /\ pc[h] # "ended")
  <2>1. fatal' = TRUE /\ UNCHANGED <<current, saved, thread, pc>>
    BY <1>3 DEF Resume
  <2> QED BY <1>1, <2>1 DEF TypeInv, ContextTypes, StepTypes, Homes, Spawned
<1> QED BY <1>2, <1>3

(* What the targets need of a step that may resume a fiber. *)
LEMMA ResumeTargets ==
  ASSUME TypeInv, NEW t \in Threads, NEW h \in Fibers \cup {t}, Resume(t, h),
         \/ UNCHANGED target
         \/ target' = [target EXCEPT ![t] = None] /\ h \in Fibers
  PROVE  Targets'
<1>1. CASE saved[h] /\ pc[h] # "ended"
  <2>1. /\ current' = [current EXCEPT ![t] = h]
        /\ pc' = [pc EXCEPT ![h] = Continues(h)]
        /\ fatal' = fatal
    BY <1>1 DEF Resume, Goto
  <2>2. Continues(h) \notin {"wake", "enqueue"}
    BY ContinuesTypes DEF All
  <2>3. \A x \in All : pc'[x] \in {"wake", "enqueue"} => x # h /\ pc'[x] = pc[x]
    BY <2>1, <2>2 DEF TypeInv, StepTypes, All
  <2>4. ASSUME NEW u \in Threads, ~fatal', pc'[u] = "wake", current'[u] = u
        PROVE  target'[u] \in Fibers
    <3>1. u # h /\ pc[u] = "wake"
      BY <2>3, <2>4 DEF All
    <3>2. u # t /\ current[u] = u
      BY <2>1, <2>4, <3>1 DEF TypeInv, ContextTypes
    <3> QED BY <2>1, <2>4, <3>1, <3>2 DEF TypeInv, StepTypes, Targets, All
  <2>5. ASSUME NEW f \in Fibers, pc'[f] = "enqueue" PROVE target'[f] \in Fibers
    BY <2>3, <2>5, SchedulerAssumption DEF TypeInv, StepTypes, Targets, All
  <2> QED BY <2>4, <2>5 DEF Targets
<1>2. CASE ~(saved[h] /\ pc[h] # "ended")
  <2>1. fatal' = TRUE /\ pc' = pc
    BY <1>2 DEF Resume
  <2> QED BY <2>1, SchedulerAssumption DEF TypeInv, StepTypes, Targets, All
<1> QED BY <1>1, <1>2

LEMMA TypeStep == TypeInv /\ [Next]_vars => TypeInv'
<1> SUFFICES ASSUME TypeInv, [Next]_vars PROVE TypeInv'
  OBVIOUS
<1> USE SchedulerAssumption DEF All, queues, context, stacks, Goto
<1>1. ASSUME NEW t \in Threads, NEW g \in Fibers, Spawn(t, g) PROVE TypeInv'
  <2>1. At(t, "run") /\ pc[g] = "unborn"
    BY <1>1 DEF Spawn, Acts
  <2>2. current[t] \in Fibers /\ pc[current[t]] = "run"
    BY <2>1, AtStep
  <2>3. PICK s \in Fibers : /\ s \in Checkout(g)
                            /\ stack' = [stack EXCEPT ![g] = s]
                            /\ pool' = pool \ {s}
    BY <1>1 DEF Spawn, Checkout, TypeInv, StackTypes
  <2>4. PICK home \in {None, t} : thread' = [thread EXCEPT ![g] = home]
    BY <1>1 DEF Spawn
  <2>5. QueueTypes' /\ ContextTypes' /\ Homes'
    BY <1>1, <2>4 DEF Spawn, TypeInv, QueueTypes, ContextTypes, Homes
  <2>6. StepTypes' /\ Targets'
    BY <1>1, <2>1, <2>2
       DEF Spawn, TypeInv, StepTypes, Targets, LoopSteps, FiberSteps
  <2>7. StackTypes' /\ Spawned'
    BY <1>1, <2>1, <2>2, <2>3
       DEF Spawn, TypeInv, StackTypes, StepTypes, ContextTypes, Spawned
  <2> QED BY <2>5, <2>6, <2>7 DEF TypeInv
<1>2. ASSUME NEW t \in Threads, NEW g \in Fibers, Claim(t, g) PROVE TypeInv'
  <2>1. current[t] \in Fibers /\ pc[current[t]] = "run"
    BY <1>2, AtStep DEF Claim, Acts
  <2>2. QueueTypes' /\ ContextTypes' /\ Homes' /\ StackTypes'
    BY <1>2
       DEF Claim, TypeInv, QueueTypes, ContextTypes, Homes, StackTypes
  <2>3. StepTypes' /\ Targets'
    BY <1>2, <2>1
       DEF Claim, TypeInv, StepTypes, Targets, LoopSteps, FiberSteps
  <2>4. Spawned'
    BY <1>2, <2>1 DEF Claim, TypeInv, StepTypes, ContextTypes, Spawned
  <2> QED BY <2>2, <2>3, <2>4 DEF TypeInv
<1>3. ASSUME NEW t \in Threads, Enqueue(t) PROVE TypeInv'
  <2>1. current[t] \in Fibers /\ pc[current[t]] = "enqueue"
    BY <1>3, AtStep DEF Enqueue
  <2>2. target[current[t]] \in Fibers
    BY <2>1 DEF TypeInv, Targets
  <2>3. PICK th \in Threads :
          \/ /\ pipe' = [pipe EXCEPT ![th] = Append(@, target[current[t]])]
             /\ UNCHANGED runnables
          \/ /\ runnables' = [runnables EXCEPT ![th] =
                                Append(@, target[current[t]])]
             /\ UNCHANGED pipe
    BY <1>3, <2>2 DEF Enqueue, Home, TypeInv, ContextTypes
  <2>4. QueueTypes'
    <3>1. \A u \in Threads :
            /\ Append(runnables[u], target[current[t]]) \in Seq(All)
            /\ Append(pipe[u], target[current[t]]) \in Seq(Fibers)
      BY <2>2 DEF TypeInv, QueueTypes
    <3>2. runnables' \in [Threads -> Seq(All)] /\ pipe' \in [Threads -> Seq(Fibers)]
      BY <2>3, <3>1 DEF TypeInv, QueueTypes
    <3> QED BY <1>3, <3>2 DEF Enqueue, TypeInv, QueueTypes
  <2>5. ASSUME NEW u \in Threads, NEW x, In(runnables'[u], x)
        PROVE  x \in Fibers \cup {u}
    <3>1. CASE runnables'[u] = runnables[u]
      BY <2>5, <3>1 DEF TypeInv, Homes
    <3>2. CASE runnables'[u] = Append(runnables[u], target[current[t]])
      <4>0. runnables[u] \in Seq(All) /\ target[current[t]] \in All
        BY <2>2 DEF TypeInv, QueueTypes
      <4>1. In(runnables[u], x) \/ x = target[current[t]]
        BY <2>5, <3>2, <4>0, InAppend
      <4> QED BY <2>2, <4>1 DEF TypeInv, Homes
    <3> QED BY <2>3, <3>1, <3>2 DEF TypeInv, QueueTypes
  <2>6. Homes'
    BY <1>3, <2>5 DEF Enqueue, TypeInv, Homes
  <2>7. ContextTypes' /\ StackTypes'
    BY <1>3 DEF Enqueue, TypeInv, ContextTypes, StackTypes
  <2>8. StepTypes' /\ Targets'
    BY <1>3, <2>1
       DEF Enqueue, TypeInv, StepTypes, Targets, LoopSteps, FiberSteps
  <2>9. Spawned'
    BY <1>3, <2>1 DEF Enqueue, TypeInv, StepTypes, ContextTypes, Spawned
  <2> QED BY <2>4, <2>6, <2>7, <2>8, <2>9 DEF TypeInv
<1>4. ASSUME NEW t \in Threads, Await(t) \/ Sleep(t) \/ Finish(t) PROVE TypeInv'
  <2>1. current[t] \in Fibers /\ pc[current[t]] = "run"
    BY <1>4, AtStep DEF Await, Sleep, Finish, Acts
  <2>2. UNCHANGED <<runnables, sleeping, pipe, polling, current, thread, saved,
                    fatal, stack, pool, target>>
    BY <1>4 DEF Await, Sleep, Finish
  <2>3. /\ waiting' \subseteq Fibers /\ events' \subseteq All
        /\ freeStacks' \in [Threads -> SUBSET Fibers]
        /\ \E step \in {"suspending", "ended"} :
             pc' = [pc EXCEPT ![current[t]] = step]
    BY <1>4, <2>1
       DEF Await, Sleep, Finish, TypeInv, QueueTypes, StackTypes, StepTypes, Spawned
  <2>4. QueueTypes' /\ ContextTypes' /\ Homes' /\ StackTypes'
    BY <2>2, <2>3 DEF TypeInv, QueueTypes, ContextTypes, Homes, StackTypes
  <2>5. StepTypes' /\ Targets'
    BY <2>1, <2>2, <2>3 DEF TypeInv, StepTypes, Targets, LoopSteps, FiberSteps
  <2>6. Spawned'
    BY <2>1, <2>2, <2>3 DEF TypeInv, StepTypes, ContextTypes, Spawned
  <2> QED BY <2>4, <2>5, <2>6 DEF TypeInv
<1>5. ASSUME NEW t \in Threads, Reschedule(t) PROVE TypeInv'
  <2> DEFINE h == Head(runnables[t])
  <2>1. runnables[t] \in Seq(All) /\ runnables[t] # <<>>
    BY <1>5 DEF Reschedule, TypeInv, QueueTypes
  <2>2. /\ h \in Fibers \cup {t} /\ Tail(runnables[t]) \in Seq(All)
        /\ \A x : In(Tail(runnables[t]), x) => In(runnables[t], x)
    BY <2>1, InTail DEF TypeInv, Homes
  <2>3. /\ runnables' = [runnables EXCEPT ![t] = Tail(@)]
        /\ UNCHANGED <<sleeping, pipe, polling, stack, target, waiting, events>>
    BY <1>5 DEF Reschedule
  <2>4. QueueTypes'
    BY <2>2, <2>3 DEF TypeInv, QueueTypes
  <2>5. \A u \in Threads : \A x : In(runnables'[u], x) => x \in Fibers \cup {u}
    BY <2>2, <2>3 DEF TypeInv, QueueTypes, Homes
  <2>6. CASE h = current[t]
    <3>1. /\ pc' = [pc EXCEPT ![h] = Continues(h)] /\ ReleaseStacks(t, h)
          /\ UNCHANGED context
      BY <1>5, <2>6 DEF Reschedule, SameFiber
    <3>2. /\ h \in All
          /\ Continues(h) \in {"receive", "loop", "run", "ended"}
          /\ h \in Fibers => Continues(h) \in {"run", "ended"}
          /\ h \in Threads => Continues(h) \in {"receive", "loop"}
      BY <2>2, ContinuesTypes
    <3>3. StackTypes'
      BY <2>3, <3>1 DEF ReleaseStacks, TypeInv, StackTypes
    <3>4. ContextTypes' /\ Homes'
      BY <2>5, <3>1 DEF TypeInv, ContextTypes, Homes
    <3>5. StepTypes' /\ Targets'
      BY <2>3, <3>1, <3>2
         DEF TypeInv, StepTypes, Targets, LoopSteps, FiberSteps
    <3>6. pc[h] # "unborn"
      BY <2>6 DEF TypeInv, Spawned
    <3>7. Spawned'
      BY <2>3, <3>1, <3>2, <3>6 DEF TypeInv, StepTypes, ContextTypes, Spawned
    <3> QED BY <2>4, <3>3, <3>4, <3>5, <3>7 DEF TypeInv
  <2>7. CASE h # current[t]
    <3>1. Resume(t, h)
      BY <1>5, <2>7 DEF Reschedule, SameFiber
    <3>2. Targets'
      BY <2>2, <2>3, <3>1, ResumeTargets
    <3>3. /\ ContextTypes' /\ StepTypes' /\ StackTypes' /\ Spawned'
          /\ \A u \in Threads : /\ current'[u] \in Fibers \cup {u}
                                /\ thread'[u] \in {u, None}
      <4>1. target' \in [All -> Fibers \cup {None}]
        BY <2>3 DEF TypeInv, StepTypes
      <4> QED BY <2>2, <2>3, <3>1, <4>1, ResumeTypes
    <3>4. Homes'
      BY <2>5, <3>3 DEF Homes
    <3> QED BY <2>4, <3>2, <3>3, <3>4 DEF TypeInv
  <2> QED BY <2>6, <2>7
<1>6. ASSUME NEW t \in Threads, Poll(t) PROVE TypeInv'
  BY <1>6
     DEF Poll, TypeInv, QueueTypes, ContextTypes, StepTypes, StackTypes, Homes,
         Targets, Spawned
<1>7. ASSUME NEW t \in Threads, RunEventLoop(t) PROVE TypeInv'
  <2>1. PICK some \in SUBSET Due(t) \ {{}} :
          \E order \in [1..Cardinality(some) -> some] :
            /\ runnables' = [runnables EXCEPT ![t] = @ \o order]
            /\ events' = events \ some
    BY <1>7 DEF RunEventLoop
  <2>2. PICK order \in [1..Cardinality(some) -> some] :
          /\ runnables' = [runnables EXCEPT ![t] = @ \o order]
          /\ events' = events \ some
    BY <2>1
  <2>3. some \subseteq Fibers \cup {t} /\ some \subseteq All
    <3>1. ASSUME NEW f \in some PROVE f \in Fibers \cup {t}
      <4>1. f \in All /\ thread[f] = t
        BY <2>1 DEF Due, TypeInv, QueueTypes
      <4>2. f \in Threads => thread[f] \in {f, None}
        BY DEF TypeInv, Homes
      <4> QED BY <4>1, <4>2
    <3> QED BY <3>1
  <2>4. Cardinality(some) \in Nat
    <3>1. IsFiniteSet(All)
      BY FS_Union
    <3> QED BY <2>3, <3>1, FS_Subset, FS_CardinalityType
  <2>5. order \in Seq(some) /\ order \in Seq(All)
    BY <2>3, <2>4
  <2>6. \A x : In(order, x) => x \in some
    BY <2>2 DEF In
  <2>7. runnables[t] \in Seq(All) /\ runnables[t] \o order \in Seq(All)
    BY <2>5 DEF TypeInv, QueueTypes
  <2>8. QueueTypes'
    BY <1>7, <2>2, <2>7 DEF RunEventLoop, TypeInv, QueueTypes
  <2>9. \A x : In(runnables[t] \o order, x) => x \in Fibers \cup {t}
    BY <2>3, <2>5, <2>6, <2>7, InConcat DEF TypeInv, Homes
  <2>10. Homes'
    <3>1. ASSUME NEW u \in Threads, NEW x, In(runnables'[u], x)
          PROVE  x \in Fibers \cup {u}
      <4>1. CASE u = t
        BY <2>2, <2>9, <3>1, <4>1 DEF TypeInv, QueueTypes
      <4>2. CASE u # t
        BY <2>2, <3>1, <4>2 DEF TypeInv, QueueTypes, Homes
      <4> QED BY <4>1, <4>2
    <3>2. UNCHANGED <<current, thread>>
      BY <1>7 DEF RunEventLoop
    <3> QED BY <3>1, <3>2 DEF TypeInv, Homes
  <2>11. ContextTypes' /\ StepTypes' /\ StackTypes' /\ Targets' /\ Spawned'
    BY <1>7
       DEF RunEventLoop, TypeInv, ContextTypes, StepTypes, StackTypes, Targets,
           Spawned
  <2> QED BY <2>8, <2>10, <2>11 DEF TypeInv
<1>8. ASSUME NEW t \in Threads, Loop(t) PROVE TypeInv'
  <2>1. current[t] = t /\ pc[t] = "loop"
    BY <1>8, AtStep DEF Loop
  <2>2. CASE runnables[t] # <<>>
    <3> DEFINE h == Head(runnables[t])
    <3>1. runnables[t] \in Seq(All)
      BY DEF TypeInv, QueueTypes
    <3>2. /\ h \in Fibers \cup {t} /\ Tail(runnables[t]) \in Seq(All)
          /\ \A x : In(Tail(runnables[t]), x) => In(runnables[t], x)
      BY <2>2, <3>1, InTail DEF TypeInv, Homes
    <3>3. /\ Resume(t, h) /\ UNCHANGED <<stack, target>>
          /\ runnables' = [runnables EXCEPT ![t] = Append(Tail(@), t)]
          /\ UNCHANGED <<sleeping, pipe, polling, waiting, events>>
      BY <1>8, <2>2 DEF Loop
    <3>4. Append(Tail(runnables[t]), t) \in Seq(All)
      BY <3>2
    <3>5. QueueTypes'
      BY <3>3, <3>4 DEF TypeInv, QueueTypes
    <3>6. \A x : In(Append(Tail(runnables[t]), t), x) =>
                   In(Tail(runnables[t]), x) \/ x = t
      <4>1. t \in All
        OBVIOUS
      <4>2. Tail(runnables[t]) \in Seq(All)
        BY <3>2
      <4> HIDE DEF h, All
      <4> QED BY <4>1, <4>2, InAppend
    <3>7. ASSUME NEW u \in Threads, NEW x, In(runnables'[u], x)
          PROVE  x \in Fibers \cup {u}
      <4>1. CASE u = t
        BY <3>2, <3>3, <3>6, <3>7, <4>1 DEF TypeInv, QueueTypes, Homes
      <4>2. CASE u # t
        BY <3>3, <3>7, <4>2 DEF TypeInv, QueueTypes, Homes
      <4> QED BY <4>1, <4>2
    <3>8. Targets'
      BY <3>2, <3>3, ResumeTargets
    <3>9. /\ ContextTypes' /\ StepTypes' /\ StackTypes' /\ Spawned'
          /\ \A u \in Threads : /\ current'[u] \in Fibers \cup {u}
                                /\ thread'[u] \in {u, None}
      <4>1. target' \in [All -> Fibers \cup {None}]
        BY <3>3 DEF TypeInv, StepTypes
      <4> QED BY <3>2, <3>3, <4>1, ResumeTypes
    <3>10. Homes'
      BY <3>7, <3>9 DEF Homes
    <3> QED BY <3>5, <3>8, <3>9, <3>10 DEF TypeInv
  <2>3. CASE runnables[t] = <<>>
    <3>1. /\ pc' = [pc EXCEPT ![t] = "receive"]
          /\ sleeping' = [sleeping EXCEPT ![t] = TRUE]
          /\ UNCHANGED <<runnables, context, stacks, pipe, polling, target,
                         waiting, events>>
      BY <1>8, <2>3 DEF Loop
    <3>2. QueueTypes' /\ ContextTypes' /\ Homes' /\ StackTypes'
      BY <3>1 DEF TypeInv, QueueTypes, ContextTypes, Homes, StackTypes
    <3>3. StepTypes' /\ Targets'
      BY <3>1 DEF TypeInv, StepTypes, Targets, LoopSteps, FiberSteps
    <3>4. Spawned'
      BY <3>1 DEF TypeInv, StepTypes, ContextTypes, Spawned
    <3> QED BY <3>2, <3>3, <3>4 DEF TypeInv
  <2> QED BY <2>2, <2>3
<1>9. ASSUME NEW t \in Threads, Receive(t) PROVE TypeInv'
  <2>1. current[t] = t /\ pc[t] = "receive"
    BY <1>9, AtStep DEF Receive
  <2>2. /\ UNCHANGED <<runnables, sleeping, polling, context, stacks, waiting>>
        /\ events' \in {events, events \cup {t}}
        /\ \/ /\ pipe[t] # <<>>
              /\ target' = [target EXCEPT ![t] = Head(pipe[t])]
              /\ pipe' = [pipe EXCEPT ![t] = Tail(@)]
              /\ pc' = [pc EXCEPT ![t] = "wake"]
           \/ UNCHANGED <<target, pipe>> /\ pc' = [pc EXCEPT ![t] = "reading"]
    BY <1>9 DEF Receive
  <2>3. pipe[t] # <<>> => Head(pipe[t]) \in Fibers /\ Tail(pipe[t]) \in Seq(Fibers)
    <3>1. pipe[t] \in Seq(Fibers)
      BY DEF TypeInv, QueueTypes
    <3> QED BY <3>1, InTail
  <2>4. QueueTypes' /\ ContextTypes' /\ Homes' /\ StackTypes'
    <3>1. pipe' \in [Threads -> Seq(Fibers)]
      BY <2>2, <2>3 DEF TypeInv, QueueTypes
    <3>2. QueueTypes'
      BY <2>2, <3>1 DEF TypeInv, QueueTypes
    <3> QED BY <2>2, <3>2 DEF TypeInv, ContextTypes, Homes, StackTypes
  <2>5. StepTypes' /\ Targets'
    BY <2>2, <2>3 DEF TypeInv, StepTypes, Targets, LoopSteps, FiberSteps
  <2>6. Spawned'
    BY <2>2 DEF TypeInv, StepTypes, ContextTypes, Spawned
  <2> QED BY <2>4, <2>5, <2>6 DEF TypeInv
<1>10. ASSUME NEW t \in Threads, Wake(t) PROVE TypeInv'
  <2>1. current[t] = t /\ pc[t] = "wake" /\ ~fatal
    BY <1>10, AtStep DEF Wake
  <2>2. target[t] \in Fibers
    BY <2>1 DEF TypeInv, Targets
  <2>3. /\ Resume(t, target[t])
        /\ target' = [target EXCEPT ![t] = None]
        /\ runnables' = [runnables EXCEPT ![t] = Append(@, t)]
        /\ sleeping' = [sleeping EXCEPT ![t] = FALSE]
        /\ UNCHANGED <<pipe, polling, stack, waiting, events>>
    BY <1>10 DEF Wake
  <2>4. runnables[t] \in Seq(All) /\ Append(runnables[t], t) \in Seq(All)
    BY DEF TypeInv, QueueTypes
  <2>5. QueueTypes'
    BY <2>3, <2>4 DEF TypeInv, QueueTypes
  <2>6. \A x : In(Append(runnables[t], t), x) => In(runnables[t], x) \/ x = t
    BY <2>4, InAppend
  <2>7. ASSUME NEW u \in Threads, NEW x, In(runnables'[u], x)
        PROVE  x \in Fibers \cup {u}
    <3>1. CASE u = t
      BY <2>3, <2>6, <2>7, <3>1 DEF TypeInv, QueueTypes, Homes
    <3>2. CASE u # t
      BY <2>3, <2>7, <3>2 DEF TypeInv, QueueTypes, Homes
    <3> QED BY <3>1, <3>2
  <2>8. Targets'
    BY <2>2, <2>3, ResumeTargets
  <2>9. /\ ContextTypes' /\ StepTypes' /\ StackTypes' /\ Spawned'
        /\ \A u \in Threads : /\ current'[u] \in Fibers \cup {u}
                              /\ thread'[u] \in {u, None}
    <3>1. target' \in [All -> Fibers \cup {None}]
      BY <2>3 DEF TypeInv, StepTypes
    <3> QED BY <2>2, <2>3, <3>1, ResumeTypes
  <2>10. Homes'
    BY <2>7, <2>9 DEF Homes
  <2> QED BY <2>5, <2>8, <2>9, <2>10 DEF TypeInv
<1>11. ASSUME UNCHANGED vars PROVE TypeInv'
  BY <1>11
     DEF vars, TypeInv, QueueTypes, ContextTypes, StepTypes, StackTypes, Homes,
         Targets, Spawned
<1> QED
  BY <1>1, <1>2, <1>3, <1>4, <1>5, <1>6, <1>7, <1>8, <1>9, <1>10, <1>11
     DEF Next, Step

-----------------------------------------------------------------------------
(* Threads that sleep *)

(* What a step must leave alone for a thread's worker loop to stay held.   *)
LEMMA LoopKept ==
  ASSUME TypeInv, NEW u \in Threads, LoopAt(u),
         pc'[u] = pc[u], current'[u] = current[u], sleeping'[u] = sleeping[u],
         polling'[u] = polling[u], u \in events => u \in events',
         In(runnables[u], u) => In(runnables'[u], u),
         fatal => fatal'
  PROVE  LoopAt(u)'
BY DEF LoopAt

(* A resumed fiber is another thread's business only if it is a fiber.     *)
LEMMA ResumeLoops ==
  ASSUME TypeInv, NEW t \in Threads, NEW h \in Fibers \cup {t}, Resume(t, h)
  PROVE  /\ \A u \in Threads \ {t} : pc'[u] = pc[u] /\ current'[u] = current[u]
         /\ h # t => pc'[t] = pc[t]
         /\ fatal' \/ current'[t] = h
         /\ h = t => fatal' \/ pc'[t] = Continues(t)
         /\ fatal => fatal'
<1> USE SchedulerAssumption DEF All
<1>1. CASE saved[h] /\ pc[h] # "ended"
  <2>1. /\ current' = [current EXCEPT ![t] = h]
        /\ pc' = [pc EXCEPT ![h] = Continues(h)]
        /\ fatal' = fatal
    BY <1>1 DEF Resume, Goto
  <2> QED BY <2>1 DEF TypeInv, ContextTypes, StepTypes
<1>2. CASE ~(saved[h] /\ pc[h] # "ended")
  <2>1. fatal' = TRUE /\ UNCHANGED <<current, pc>>
    BY <1>2 DEF Resume
  <2> QED BY <2>1
<1> QED BY <1>1, <1>2

LEMMA LoopInit == Init => LoopInv
<1> SUFFICES ASSUME Init, NEW t \in Threads PROVE LoopAt(t)
  BY DEF LoopInv
<1> USE SchedulerAssumption DEF All
<1>1. ~polling[t] /\ pc[t] \in {"start", "loop"}
  BY DEF Init
<1>2. CASE t = First
  <2>1. runnables[t] = <<t>>
    BY <1>2 DEF Init
  <2> QED BY <1>1, <2>1 DEF LoopAt, In
<1>3. CASE t # First
  <2>1. current[t] = t
    BY <1>3 DEF Init
  <2> QED BY <1>1, <2>1 DEF LoopAt
<1> QED BY <1>2, <1>3

LEMMA LoopStep == TypeInv /\ LoopInv /\ [Next]_vars => LoopInv'
<1> SUFFICES ASSUME TypeInv, LoopInv, [Next]_vars, NEW u \in Threads
             PROVE  LoopAt(u)'
  BY DEF LoopInv
<1> USE SchedulerAssumption DEF queues, context, stacks, Goto
<1>0. LoopAt(u)
  BY DEF LoopInv
<1>1. ASSUME NEW t \in Threads,
             (\E g \in Fibers : Spawn(t, g) \/ Claim(t, g)) \/ Await(t)
               \/ Sleep(t) \/ Finish(t)
      PROVE  LoopAt(u)'
  <2>1. current[t] \in Fibers
    BY <1>1, AtStep DEF Spawn, Claim, Await, Sleep, Finish, Acts
  <2>2. pc'[u] = pc[u]
    BY <1>1, <2>1 DEF Spawn, Claim, Await, Sleep, Finish, TypeInv, StepTypes, All
  <2>3. /\ UNCHANGED <<runnables, sleeping, polling, current, fatal>>
        /\ events \subseteq events'
    BY <1>1 DEF Spawn, Claim, Await, Sleep, Finish
  <2> QED BY <1>0, <2>2, <2>3, LoopKept
<1>2. ASSUME NEW t \in Threads, Enqueue(t) PROVE LoopAt(u)'
  <2>1. current[t] \in Fibers /\ pc[current[t]] = "enqueue"
    BY <1>2, AtStep DEF Enqueue
  <2>2. target[current[t]] \in All /\ runnables[u] \in Seq(All)
    BY <2>1 DEF TypeInv, Targets, QueueTypes, All
  <2>3. runnables'[u] \in {runnables[u], Append(runnables[u], target[current[t]])}
    BY <1>2, <2>2 DEF Enqueue, TypeInv, QueueTypes
  <2>4. In(runnables[u], u) => In(runnables'[u], u)
    <3>1. \A x : In(Append(runnables[u], target[current[t]]), x)
                   <=> In(runnables[u], x) \/ x = target[current[t]]
      BY <2>2, InAppend
    <3> QED BY <2>3, <3>1
  <2>5. pc'[u] = pc[u] /\ UNCHANGED <<sleeping, polling, current, fatal, events>>
    BY <1>2, <2>1 DEF Enqueue, TypeInv, StepTypes, All
  <2> QED BY <1>0, <2>4, <2>5, LoopKept
<1>3. ASSUME NEW t \in Threads, Reschedule(t) PROVE LoopAt(u)'
  <2> DEFINE h == Head(runnables[t])
  <2>1. runnables[t] \in Seq(All) /\ runnables[t] # <<>>
    BY <1>3 DEF Reschedule, TypeInv, QueueTypes
  <2>2. /\ h \in Fibers \cup {t}
        /\ t # h /\ In(runnables[t], t) => In(Tail(runnables[t]), t)
    BY <2>1, InTail DEF TypeInv, Homes
  <2>3. /\ runnables' = [runnables EXCEPT ![t] = Tail(@)]
        /\ UNCHANGED <<sleeping, polling, events>>
    BY <1>3 DEF Reschedule
  <2>4. ~polling[t] /\ pc[current[t]] \in {"suspending", "ended", "reading"}
    BY <1>3 DEF Reschedule, InReschedule, At
  <2>5. CASE h = current[t]
    <3>1. pc' = [pc EXCEPT ![h] = Continues(h)] /\ UNCHANGED <<current, fatal>>
      BY <1>3, <2>5 DEF Reschedule, SameFiber
    <3>2. CASE u # t \/ h # t
      <4>1. pc'[u] = pc[u]
        BY <2>2, <3>1, <3>2 DEF TypeInv, StepTypes, All
      <4>2. In(runnables[u], u) => In(runnables'[u], u)
        BY <2>2, <2>3, <3>2 DEF TypeInv, QueueTypes
      <4> QED BY <1>0, <2>3, <3>1, <4>1, <4>2, LoopKept
    <3>3. CASE u = t /\ h = t
      <4>1. pc[t] = "reading"
        BY <2>4, <2>5, <3>3 DEF TypeInv, StepTypes, LoopSteps
      <4>2. pc'[t] = "receive"
        BY <3>1, <3>3, <4>1 DEF Continues, TypeInv, StepTypes, All
      <4> QED BY <1>0, <2>3, <2>4, <2>5, <3>1, <3>3, <4>1, <4>2 DEF LoopAt
    <3> QED BY <3>2, <3>3
  <2>6. CASE h # current[t]
    <3>1. Resume(t, h)
      BY <1>3, <2>6 DEF Reschedule, SameFiber
    <3>2. /\ \A v \in Threads \ {t} : pc'[v] = pc[v] /\ current'[v] = current[v]
          /\ h # t => pc'[t] = pc[t]
          /\ fatal' \/ current'[t] = h
          /\ h = t => fatal' \/ pc'[t] = Continues(t)
          /\ fatal => fatal'
      BY <2>2, <3>1, ResumeLoops
    <3>3. CASE u # t
      <4>1. In(runnables[u], u) => In(runnables'[u], u)
        BY <2>3, <3>3 DEF TypeInv, QueueTypes
      <4> QED BY <1>0, <2>3, <3>2, <3>3, <4>1, LoopKept
    <3>4. CASE u = t /\ h # t
      <4>1. In(runnables[t], t) => In(runnables'[t], t)
        BY <2>2, <2>3, <3>4 DEF TypeInv, QueueTypes
      <4>2. ~(current[t] = t /\ pc[t] # "reading")
        BY <2>4 DEF TypeInv, StepTypes, LoopSteps
      <4> QED BY <1>0, <2>3, <3>2, <3>4, <4>1, <4>2 DEF LoopAt
    <3>5. CASE u = t /\ h = t
      <4>1. Continues(t) \in {"receive", "loop"}
            /\ (Continues(t) = "receive" => pc[t] = "reading")
        BY DEF Continues
      <4>2. pc'[t] = pc[t] \/ pc'[t] = Continues(t)
        BY <3>1, <3>5 DEF Resume, TypeInv, StepTypes, All
      <4> QED BY <1>0, <2>3, <2>4, <3>2, <3>5, <4>1, <4>2 DEF LoopAt
    <3> QED BY <3>3, <3>4, <3>5
  <2> QED BY <2>5, <2>6
<1>4. ASSUME NEW t \in Threads, Poll(t) PROVE LoopAt(u)'
  <2>1. /\ polling' = [polling EXCEPT ![t] = TRUE] /\ ~fatal
        /\ UNCHANGED <<runnables, sleeping, events, pc, current, fatal>>
    BY <1>4 DEF Poll, InReschedule, At
  <2>2. runnables[t] = <<>> /\ pc[current[t]] \in {"suspending", "ended", "reading"}
    BY <1>4 DEF Poll, InReschedule, At
  <2>3. ~In(runnables[t], t)
    BY <2>2 DEF In
  <2>4. ~(current[t] = t /\ pc[t] # "reading")
    BY <2>2 DEF TypeInv, StepTypes, LoopSteps
  <2>5. LoopAt(t)
    BY DEF LoopInv
  <2>6. t \in events /\ pc[t] = "reading"
    BY <2>1, <2>3, <2>4, <2>5 DEF LoopAt
  <2> QED BY <1>0, <2>1, <2>6 DEF LoopAt, TypeInv, QueueTypes
<1>5. ASSUME NEW t \in Threads, RunEventLoop(t) PROVE LoopAt(u)'
  <2>1. PICK some \in SUBSET Due(t) \ {{}} :
          \E order \in [1..Cardinality(some) -> some] :
            /\ \A f \in some : \E i \in DOMAIN order : order[i] = f
            /\ runnables' = [runnables EXCEPT ![t] = @ \o order]
            /\ events' = events \ some
    BY <1>5 DEF RunEventLoop
  <2>2. PICK order \in [1..Cardinality(some) -> some] :
          /\ \A f \in some : \E i \in DOMAIN order : order[i] = f
          /\ runnables' = [runnables EXCEPT ![t] = @ \o order]
          /\ events' = events \ some
    BY <2>1
  <2>3. /\ polling' = [polling EXCEPT ![t] = FALSE]
        /\ UNCHANGED <<sleeping, pc, current, fatal>>
    BY <1>5 DEF RunEventLoop
  <2>4. some \subseteq All /\ order \in Seq(All)
    <3>1. some \subseteq All /\ IsFiniteSet(All)
      BY <2>1, FS_Union DEF Due, TypeInv, QueueTypes, All
    <3>2. Cardinality(some) \in Nat
      BY <3>1, FS_Subset, FS_CardinalityType
    <3> QED BY <3>1, <3>2
  <2>5. CASE u # t
    <3>1. u \notin some
      <4>1. thread[u] # t
        BY <2>5 DEF TypeInv, Homes
      <4> QED BY <2>1, <4>1 DEF Due
    <3>2. runnables'[u] = runnables[u] /\ polling'[u] = polling[u]
      BY <2>2, <2>3, <2>5 DEF TypeInv, QueueTypes
    <3> QED BY <1>0, <2>2, <2>3, <3>1, <3>2, LoopKept
  <2>6. CASE u = t
    <3>1. runnables[t] \in Seq(All)
      BY DEF TypeInv, QueueTypes
    <3>2. /\ In(runnables[t], t) => In(runnables'[t], t)
          /\ t \in some => In(runnables'[t], t)
      <4>1. \A x : In(runnables[t] \o order, x) <=> In(runnables[t], x) \/ In(order, x)
        BY <2>4, <3>1, InConcat
      <4>2. runnables'[t] = runnables[t] \o order
        BY <2>2 DEF TypeInv, QueueTypes
      <4>3. t \in some => In(order, t)
        BY <2>2 DEF In
      <4> QED BY <4>1, <4>2, <4>3
    <3>3. ~polling'[t]
      BY <2>3 DEF TypeInv, QueueTypes
    <3> QED BY <1>0, <2>2, <2>3, <2>6, <3>2, <3>3 DEF LoopAt
  <2> QED BY <2>5, <2>6
<1>6. ASSUME NEW t \in Threads, Loop(t) PROVE LoopAt(u)'
  <2>1. current[t] = t /\ pc[t] = "loop" /\ ~polling[t]
    BY <1>6, AtStep DEF Loop
  <2>2. CASE runnables[t] # <<>>
    <3> DEFINE h == Head(runnables[t])
    <3>1. runnables[t] \in Seq(All) /\ t \in All
      BY DEF TypeInv, QueueTypes, All
    <3>2. h \in Fibers \cup {t} /\ Tail(runnables[t]) \in Seq(All)
      BY <2>2, <3>1, InTail DEF TypeInv, Homes
    <3>3. /\ Resume(t, h)
          /\ runnables' = [runnables EXCEPT ![t] = Append(Tail(@), t)]
          /\ UNCHANGED <<sleeping, polling, events>>
      BY <1>6, <2>2 DEF Loop
    <3>4. /\ \A v \in Threads \ {t} : pc'[v] = pc[v] /\ current'[v] = current[v]
          /\ h # t => pc'[t] = pc[t]
          /\ h = t => fatal' \/ pc'[t] = Continues(t)
          /\ fatal => fatal'
      BY <3>2, <3>3, ResumeLoops
    <3>5. CASE u # t
      <4>1. runnables'[u] = runnables[u]
        BY <3>3, <3>5 DEF TypeInv, QueueTypes
      <4> QED BY <1>0, <3>3, <3>4, <3>5, <4>1, LoopKept
    <3>6. CASE u = t
      <4>1. runnables'[t] = Append(Tail(runnables[t]), t)
        BY <3>3 DEF TypeInv, QueueTypes
      <4>2. In(runnables'[t], t)
        <5>1. \A x : In(Append(Tail(runnables[t]), t), x)
                       <=> In(Tail(runnables[t]), x) \/ x = t
          <6>1. t \in All /\ Tail(runnables[t]) \in Seq(All)
            BY <3>1, <3>2
          <6> HIDE DEF h
          <6> QED BY <6>1, InAppend
        <5> QED BY <4>1, <5>1
      <4>3. pc'[t] = pc[t] \/ pc'[t] = Continues(t)
        BY <3>1, <3>3 DEF Resume, TypeInv, StepTypes
      <4>4. pc'[t] = "loop"
        BY <2>1, <4>3 DEF Continues
      <4> QED BY <2>1, <3>3, <3>6, <4>2, <4>4 DEF LoopAt
    <3> QED BY <3>5, <3>6
  <2>3. CASE runnables[t] = <<>>
    <3>1. /\ pc' = [pc EXCEPT ![t] = "receive"]
          /\ sleeping' = [sleeping EXCEPT ![t] = TRUE]
          /\ UNCHANGED <<runnables, current, fatal, polling, events>>
      BY <1>6, <2>3 DEF Loop
    <3>2. CASE u # t
      BY <1>0, <3>1, <3>2, LoopKept DEF TypeInv, StepTypes, QueueTypes, All
    <3>3. CASE u = t
      BY <2>1, <3>1, <3>3 DEF LoopAt, TypeInv, StepTypes, QueueTypes, All
    <3> QED BY <3>2, <3>3
  <2> QED BY <2>2, <2>3
<1>7. ASSUME NEW t \in Threads, Receive(t) PROVE LoopAt(u)'
  <2>1. current[t] = t /\ pc[t] = "receive" /\ ~polling[t]
    BY <1>7, AtStep DEF Receive
  <2>2. /\ UNCHANGED <<runnables, sleeping, polling, current, fatal>>
        /\ \/ pc' = [pc EXCEPT ![t] = "wake"] /\ UNCHANGED events
           \/ pc' = [pc EXCEPT ![t] = "reading"] /\ events' = events \cup {t}
    BY <1>7 DEF Receive
  <2>3. CASE u # t
    <3>1. pc'[u] = pc[u]
      BY <2>2, <2>3 DEF TypeInv, StepTypes, All
    <3> QED BY <1>0, <2>2, <3>1, LoopKept
  <2>4. CASE u = t
    BY <1>0, <2>1, <2>2, <2>4 DEF LoopAt, TypeInv, StepTypes, All
  <2> QED BY <2>3, <2>4
<1>8. ASSUME NEW t \in Threads, Wake(t) PROVE LoopAt(u)'
  <2>1. current[t] = t /\ pc[t] = "wake" /\ ~fatal /\ ~polling[t]
    BY <1>8, AtStep DEF Wake
  <2>2. target[t] \in Fibers
    BY <2>1 DEF TypeInv, Targets
  <2>3. /\ Resume(t, target[t])
        /\ runnables' = [runnables EXCEPT ![t] = Append(@, t)]
        /\ sleeping' = [sleeping EXCEPT ![t] = FALSE]
        /\ UNCHANGED <<polling, events>>
    BY <1>8 DEF Wake
  <2>4. /\ \A v \in Threads : pc'[v] = pc[v]
        /\ \A v \in Threads \ {t} : current'[v] = current[v]
        /\ fatal => fatal'
    BY <2>2, <2>3, ResumeLoops
  <2>5. runnables[t] \in Seq(All) /\ t \in All
    BY DEF TypeInv, QueueTypes, All
  <2>6. CASE u # t
    <3>1. runnables'[u] = runnables[u] /\ sleeping'[u] = sleeping[u]
      BY <2>3, <2>6 DEF TypeInv, QueueTypes
    <3> QED BY <1>0, <2>3, <2>4, <2>6, <3>1, LoopKept
  <2>7. CASE u = t
    <3>1. runnables'[t] = Append(runnables[t], t)
      BY <2>3 DEF TypeInv, QueueTypes
    <3>2. In(runnables'[t], t)
      BY <2>5, <3>1, InAppend
    <3> QED BY <2>1, <2>3, <2>4, <2>7, <3>2 DEF LoopAt
  <2> QED BY <2>6, <2>7
<1>9. ASSUME UNCHANGED vars PROVE LoopAt(u)'
  BY <1>0, <1>9 DEF vars, LoopAt
<1> QED
  BY <1>1, <1>2, <1>3, <1>4, <1>5, <1>6, <1>7, <1>8, <1>9 DEF Next, Step

(* A thread in its event loop is marked sleeping and listens to its pipe,  *)
(* for any number of threads and fibers (scheduler.cr:155-168, 201-231).   *)
THEOREM SleepersWakeable == Spec => []SleepersListen
<1>1. Init => TypeInv /\ LoopInv
  BY TypeInit, LoopInit
<1>2. TypeInv /\ LoopInv /\ [Next]_vars => (TypeInv /\ LoopInv)'
  BY TypeStep, LoopStep
<1>3. TypeInv /\ LoopInv => SleepersListen
  BY DEF LoopInv, LoopAt, SleepersListen
<1> QED BY <1>1, <1>2, <1>3, PTL DEF Spec

-----------------------------------------------------------------------------
(* Stacks *)

LEMMA StackInit == Init => StackInv
<1> SUFFICES ASSUME Init PROVE StackInv
  OBVIOUS
<1> USE SchedulerAssumption DEF All
<1>1. RunsOnce
  <2>1. \A t \in Threads : current[t] = IF t = First THEN Main ELSE t
    BY DEF Init
  <2> QED BY <2>1 DEF Init, RunsOnce
<1>2. \A f \in Fibers : pc[f] # "unborn" => f = Main /\ stack[f] = Main
  BY DEF Init
<1>3. StackPlaces
  BY <1>2 DEF Init, StackPlaces
<1>4. NoSharedStack
  BY <1>2 DEF Init, NoSharedStack
<1> QED BY <1>1, <1>3, <1>4 DEF StackInv

(* NoSharedStack without its set. *)
LEMMA SharedStacks ==
  NoSharedStack <=>
    \A f \in Fibers : InUse(f) =>
      /\ stack[f] \notin pool
      /\ \A g \in Fibers : InUse(g) /\ stack[f] = stack[g] => f = g
BY DEF NoSharedStack, InUse

(* Steps that neither start nor end a fiber, nor resume one. *)
LEMMA StackKept ==
  ASSUME TypeInv, StackInv, UNCHANGED <<current, saved, stack, pool, freeStacks>>,
         \A x \in All : /\ pc'[x] = "unborn" <=> pc[x] = "unborn"
                        /\ pc'[x] = "ended" <=> pc[x] = "ended"
  PROVE  StackInv'
<1>1. ASSUME NEW f \in Fibers PROVE InUse(f)' <=> InUse(f)
  <2>1. /\ pc'[f] = "unborn" <=> pc[f] = "unborn"
        /\ pc'[f] = "ended" <=> pc[f] = "ended"
    BY DEF All
  <2>2. IsCurrent(f)' <=> IsCurrent(f)
    BY DEF IsCurrent
  <2> QED BY <2>1, <2>2 DEF InUse
<1>2. RunsOnce'
  BY DEF StackInv, RunsOnce
<1>3. StackPlaces'
  <2>1. \A f \in Fibers : pc[f] # "unborn" => stack[f] \in Fibers
    BY DEF TypeInv, Spawned
  <2>2. pool \subseteq Fibers /\ \A t \in Threads : freeStacks[t] \subseteq Fibers
    BY DEF TypeInv, StackTypes
  <2>3. \A f \in Fibers : /\ pc'[f] = "unborn" <=> pc[f] = "unborn"
                          /\ pc'[f] = "ended" <=> pc[f] = "ended"
    BY DEF All
  <2>4. \A f \in Fibers : pc'[f] # "unborn" => pc'[stack'[f]] # "unborn"
    BY <2>1, <2>3 DEF StackInv, StackPlaces
  <2>5. \A s \in pool' : pc'[s] # "unborn"
    BY <2>2, <2>3 DEF StackInv, StackPlaces
  <2>6. ASSUME NEW t \in Threads, NEW s \in freeStacks'[t]
        PROVE  /\ s \notin pool' /\ pc'[s] # "unborn"
               /\ \A u \in Threads : s \in freeStacks'[u] => u = t
               /\ \A f \in Fibers : InUse(f)' /\ stack'[f] = s =>
                    pc'[f] = "ended" /\ current'[t] = f
    <3>1. s \in Fibers /\ s \in freeStacks[t]
      BY <2>2
    <3> QED BY <1>1, <2>3, <3>1 DEF StackInv, StackPlaces
  <2> QED BY <2>4, <2>5, <2>6 DEF StackPlaces
<1>4. NoSharedStack'
  <2>1. \A f \in Fibers : InUse(f) =>
          /\ stack[f] \notin pool
          /\ \A g \in Fibers : InUse(g) /\ stack[f] = stack[g] => f = g
    BY SharedStacks DEF StackInv
  <2>2. NoSharedStack' <=>
          \A f \in Fibers : InUse(f)' =>
            /\ stack'[f] \notin pool'
            /\ \A g \in Fibers : InUse(g)' /\ stack'[f] = stack'[g] => f = g
    BY DEF NoSharedStack, InUse
  <2> QED BY <1>1, <2>1, <2>2
<1> QED BY <1>2, <1>3, <1>4 DEF StackInv

(* What the release of a thread's stacks needs: nobody uses them.          *)
LEMMA Released ==
  ASSUME TypeInv, StackInv, NEW t \in Threads,
         UNCHANGED stack,
         \/ UNCHANGED <<pool, freeStacks>>
         \/ /\ pool' = pool \cup freeStacks[t]
            /\ freeStacks' = [freeStacks EXCEPT ![t] = {}],
         \A f \in Fibers : InUse(f)' => InUse(f),
         \A f \in Fibers : InUse(f)' => ~(pc[f] = "ended" /\ current[t] = f)
                              \/ UNCHANGED <<pool, freeStacks>>,
         \A u \in Threads, f \in Fibers :
           InUse(f)' /\ pc[f] = "ended" /\ current[u] = f =>
             pc'[f] = "ended" /\ current'[u] = f,
         \A x \in Fibers : pc'[x] = "unborn" <=> pc[x] = "unborn"
  PROVE  (StackPlaces /\ NoSharedStack)'
<1>1. \A f \in Fibers : InUse(f) =>
        /\ stack[f] \notin pool
        /\ \A g \in Fibers : InUse(g) /\ stack[f] = stack[g] => f = g
  BY SharedStacks DEF StackInv
<1>2. /\ pool \subseteq Fibers /\ freeStacks \in [Threads -> SUBSET Fibers]
      /\ \A f \in Fibers : pc[f] # "unborn" => stack[f] \in Fibers
  BY DEF TypeInv, StackTypes, Spawned
<1>3. \A f \in Fibers, u \in Threads :
        InUse(f) /\ stack[f] \in freeStacks[u] => pc[f] = "ended" /\ current[u] = f
  BY DEF StackInv, StackPlaces
<1>4. \A f \in Fibers : InUse(f)' => stack[f] \notin pool'
  BY <1>1, <1>3
<1>5. NoSharedStack'
  <2>1. NoSharedStack' <=>
          \A f \in Fibers : InUse(f)' =>
            /\ stack'[f] \notin pool'
            /\ \A g \in Fibers : InUse(g)' /\ stack'[f] = stack'[g] => f = g
    BY DEF NoSharedStack, InUse
  <2> QED BY <1>1, <1>4, <2>1
<1>6. \A u \in Threads : freeStacks'[u] \in {freeStacks[u], {}}
  BY <1>2
<1>7. StackPlaces'
  <2>1. \A f \in Fibers : pc'[f] # "unborn" => pc'[stack'[f]] # "unborn"
    BY <1>2 DEF StackInv, StackPlaces
  <2>2. \A s \in pool' : pc'[s] # "unborn"
    BY <1>2 DEF StackInv, StackPlaces
  <2>3. ASSUME NEW u \in Threads, NEW s \in freeStacks'[u]
        PROVE  /\ s \notin pool' /\ pc'[s] # "unborn"
               /\ \A v \in Threads : s \in freeStacks'[v] => v = u
               /\ \A f \in Fibers : InUse(f)' /\ stack'[f] = s =>
                    pc'[f] = "ended" /\ current'[u] = f
    <3>1. s \in freeStacks[u] /\ s \in Fibers
      BY <1>2, <1>6, <2>3
    <3>2. /\ s \notin pool /\ pc[s] # "unborn"
          /\ \A v \in Threads : s \in freeStacks[v] => v = u
      BY <3>1 DEF StackInv, StackPlaces
    <3>3. s \notin pool'
      BY <1>2, <2>3, <3>2
    <3>4. \A v \in Threads : s \in freeStacks'[v] => v = u
      BY <1>6, <3>2
    <3>5. \A f \in Fibers : InUse(f)' /\ stack'[f] = s =>
            pc'[f] = "ended" /\ current'[u] = f
      BY <1>3, <3>1
    <3> QED BY <3>1, <3>2, <3>3, <3>4, <3>5
  <2> QED BY <2>1, <2>2, <2>3 DEF StackPlaces
<1> QED BY <1>5, <1>7

(* Resume: the one who gives up the thread has saved its context, the one  *)
(* who gets it ran nowhere.                                                *)
LEMMA ResumeStacks ==
  ASSUME TypeInv, StackInv, NEW t \in Threads, NEW h \in Fibers \cup {t},
         Resume(t, h), UNCHANGED stack
  PROVE  StackInv'
<1> USE SchedulerAssumption
<1>0. /\ h \in All /\ current \in [Threads -> All] /\ saved \in [All -> BOOLEAN]
      /\ DOMAIN pc = All /\ Fibers \subseteq All
  BY DEF TypeInv, ContextTypes, StepTypes, All
<1>1. CASE saved[h] /\ pc[h] # "ended"
  <2>1. /\ current' = [current EXCEPT ![t] = h]
        /\ saved' = [saved EXCEPT ![current[t]] = TRUE, ![h] = FALSE]
        /\ pc' = [pc EXCEPT ![h] = Continues(h)]
        /\ ReleaseStacks(t, h)
    BY <1>1 DEF Resume, Goto
  <2>2. \A u \in Threads : current[u] # h
    BY <1>1 DEF StackInv, RunsOnce
  <2>3. /\ current'[t] = h /\ \A u \in Threads \ {t} : current'[u] = current[u]
        /\ \A u, v \in Threads : current[u] = current[v] => u = v
    BY <1>0, <2>1 DEF StackInv, RunsOnce
  <2>4. RunsOnce'
    <3>1. \A u \in Threads : ~saved'[current'[u]]
      BY <1>0, <2>1, <2>2, <2>3 DEF StackInv, RunsOnce
    <3>2. \A u, v \in Threads : current'[u] = current'[v] => u = v
      BY <2>2, <2>3
    <3> QED BY <3>1, <3>2 DEF RunsOnce
  <2>5. Continues(h) \notin {"unborn", "ended"} /\ (h \in Fibers => pc[h] # "unborn")
    BY <1>0, <1>1, ContinuesTypes DEF Continues, TypeInv, Spawned
  <2>6. /\ \A x \in All : x # h => pc'[x] = pc[x]
        /\ pc'[h] \notin {"unborn", "ended"}
    BY <1>0, <2>1, <2>5
  <2>7. \A x \in Fibers : pc'[x] = "unborn" <=> pc[x] = "unborn"
    BY <1>0, <2>5, <2>6
  <2>8. \A f \in Fibers : InUse(f)' => InUse(f)
    <3>1. SUFFICES ASSUME NEW f \in Fibers, InUse(f)' PROVE InUse(f)
      OBVIOUS
    <3>2. CASE f = h
      BY <1>1, <2>5, <3>2 DEF InUse
    <3>3. CASE f # h
      <4>1. pc'[f] = pc[f] /\ pc[f] # "unborn"
        BY <1>0, <2>6, <3>1, <3>3 DEF InUse
      <4>2. IsCurrent(f)' => IsCurrent(f)
        BY <2>3, <3>3 DEF IsCurrent
      <4> QED BY <3>1, <4>1, <4>2 DEF InUse
    <3> QED BY <3>2, <3>3
  <2>9. \A f \in Fibers : InUse(f)' => ~(pc[f] = "ended" /\ current[t] = f)
    <3>1. SUFFICES ASSUME NEW f \in Fibers, InUse(f)', pc[f] = "ended",
                          current[t] = f
                   PROVE  FALSE
      OBVIOUS
    <3>2. f # h /\ pc'[f] = "ended"
      BY <1>0, <1>1, <2>6, <3>1
    <3>3. PICK u \in Threads : current'[u] = f
      BY <3>1, <3>2 DEF InUse, IsCurrent
    <3> QED BY <2>3, <3>1, <3>2, <3>3
  <2>10. ASSUME NEW u \in Threads, NEW f \in Fibers, InUse(f)', pc[f] = "ended",
                current[u] = f
         PROVE  pc'[f] = "ended" /\ current'[u] = f
    <3>1. f # h /\ u # t
      BY <1>1, <2>9, <2>10
    <3> QED BY <1>0, <2>3, <2>6, <2>10, <3>1
  <2>11. (StackPlaces /\ NoSharedStack)'
    <3>1. \/ UNCHANGED <<pool, freeStacks>>
          \/ /\ pool' = pool \cup freeStacks[t]
             /\ freeStacks' = [freeStacks EXCEPT ![t] = {}]
      BY <2>1 DEF ReleaseStacks
    <3> QED BY <2>7, <2>8, <2>9, <2>10, <3>1, Released
  <2> QED BY <2>4, <2>11 DEF StackInv
<1>2. CASE ~(saved[h] /\ pc[h] # "ended")
  <2>1. UNCHANGED <<current, saved, pc, pool, freeStacks>>
    BY <1>2 DEF Resume
  <2> QED BY <2>1, StackKept
<1> QED BY <1>1, <1>2

LEMMA StackStep == TypeInv /\ StackInv /\ [Next]_vars => StackInv'
<1> SUFFICES ASSUME TypeInv, StackInv, [Next]_vars PROVE StackInv'
  OBVIOUS
<1> USE SchedulerAssumption DEF queues, context, stacks, Goto
<1>0. pc \in [All -> LoopSteps \cup FiberSteps] /\ Fibers \subseteq All
  BY DEF TypeInv, StepTypes, All
<1>1. ASSUME NEW t \in Threads, NEW g \in Fibers, Spawn(t, g) PROVE StackInv'
  <2>1. At(t, "run") /\ pc[g] = "unborn"
    BY <1>1 DEF Spawn, Acts
  <2>2. current[t] \in Fibers /\ pc[current[t]] = "run"
    BY <2>1, AtStep
  <2>3. PICK s \in Fibers : /\ s \in Checkout(g)
                            /\ stack' = [stack EXCEPT ![g] = s]
                            /\ pool' = pool \ {s}
    BY <1>1 DEF Spawn, Checkout, TypeInv, StackTypes
  <2>4. /\ pc' = [pc EXCEPT ![current[t]] = "enqueue", ![g] = "start"]
        /\ saved' = [saved EXCEPT ![g] = TRUE]
        /\ UNCHANGED <<current, freeStacks>>
    BY <1>1 DEF Spawn
  <2>5. /\ pc'[g] = "start" /\ stack'[g] = s
        /\ \A f \in All \ {g} : pc'[f] = "unborn" <=> pc[f] = "unborn"
        /\ \A f \in All \ {g} : pc'[f] = "ended" <=> pc[f] = "ended"
        /\ \A f \in Fibers \ {g} : stack'[f] = stack[f]
    BY <1>0, <2>1, <2>2, <2>3, <2>4 DEF TypeInv, StackTypes
  <2>6. \A f \in Fibers \ {g} : InUse(f)' <=> InUse(f)
    <3>1. SUFFICES ASSUME NEW f \in Fibers \ {g} PROVE InUse(f)' <=> InUse(f)
      OBVIOUS
    <3>2. IsCurrent(f)' <=> IsCurrent(f)
      BY <2>4 DEF IsCurrent
    <3> QED BY <1>0, <2>5, <3>2 DEF InUse
  <2>7. \A f \in Fibers : InUse(f) =>
          /\ stack[f] \notin pool
          /\ \A k \in Fibers : InUse(k) /\ stack[f] = stack[k] => f = k
    BY SharedStacks DEF StackInv
  <2>8. \A u \in Threads : current[u] # g
    BY <2>1 DEF TypeInv, Spawned
  <2>9. RunsOnce'
    BY <2>4, <2>8 DEF StackInv, RunsOnce, TypeInv, ContextTypes
  <2>10. /\ \A f \in Fibers : InUse(f) => stack[f] # s
         /\ \A u \in Threads : s \notin freeStacks[u]
         /\ pc'[s] # "unborn"
    <3>1. CASE s = g /\ pool = {}
      <4>1. \A f \in Fibers : InUse(f) => stack[f] # s
        BY <2>1, <3>1 DEF InUse, StackInv, StackPlaces
      <4>2. \A u \in Threads : s \notin freeStacks[u]
        BY <2>1, <3>1 DEF StackInv, StackPlaces
      <4> QED BY <2>5, <3>1, <4>1, <4>2
    <3>2. CASE s \in pool
      <4>1. pc[s] # "unborn"
        BY <3>2 DEF StackInv, StackPlaces
      <4>2. pc'[s] # "unborn"
        BY <1>0, <2>3, <2>5, <4>1
      <4>3. \A u \in Threads : s \notin freeStacks[u]
        BY <3>2 DEF StackInv, StackPlaces
      <4> QED BY <2>7, <3>2, <4>2, <4>3
    <3> QED BY <2>3, <3>1, <3>2 DEF Checkout
  <2>11. NoSharedStack'
    <3>1. NoSharedStack' <=>
            \A f \in Fibers : InUse(f)' =>
              /\ stack'[f] \notin pool'
              /\ \A k \in Fibers : InUse(k)' /\ stack'[f] = stack'[k] => f = k
      BY DEF NoSharedStack, InUse
    <3>2. \A f \in Fibers : InUse(f)' => stack'[f] \notin pool'
      BY <2>3, <2>5, <2>6, <2>7
    <3>3. \A f, k \in Fibers :
            InUse(f)' /\ InUse(k)' /\ stack'[f] = stack'[k] => f = k
      BY <2>5, <2>6, <2>7, <2>10
    <3> QED BY <3>1, <3>2, <3>3
  <2>12. StackPlaces'
    <3>1. \A f \in Fibers : pc'[f] # "unborn" => pc'[stack'[f]] # "unborn"
      <4>1. SUFFICES ASSUME NEW f \in Fibers, pc'[f] # "unborn"
                     PROVE  pc'[stack'[f]] # "unborn"
        OBVIOUS
      <4>2. CASE f = g
        BY <2>5, <2>10, <4>2
      <4>3. CASE f # g
        <5>1. stack[f] \in Fibers /\ pc[stack[f]] # "unborn"
          BY <1>0, <2>5, <4>1, <4>3 DEF StackInv, StackPlaces, TypeInv, Spawned
        <5> QED BY <1>0, <2>1, <2>5, <4>3, <5>1
      <4> QED BY <4>2, <4>3
    <3>2. \A x \in Fibers : pc[x] # "unborn" => pc'[x] # "unborn"
      BY <1>0, <2>5
    <3>3. \A x \in pool' : pc'[x] # "unborn"
      BY <2>3, <3>2 DEF StackInv, StackPlaces, TypeInv, StackTypes
    <3>4. ASSUME NEW u \in Threads, NEW x \in freeStacks'[u]
          PROVE  /\ x \notin pool' /\ pc'[x] # "unborn"
                 /\ \A v \in Threads : x \in freeStacks'[v] => v = u
                 /\ \A f \in Fibers : InUse(f)' /\ stack'[f] = x =>
                      pc'[f] = "ended" /\ current'[u] = f
      <4>1. x \in freeStacks[u] /\ x \in Fibers
        BY <2>4 DEF TypeInv, StackTypes
      <4>2. /\ x \notin pool /\ pc[x] # "unborn"
            /\ \A v \in Threads : x \in freeStacks[v] => v = u
        BY <4>1 DEF StackInv, StackPlaces
      <4>3. ASSUME NEW f \in Fibers, InUse(f)', stack'[f] = x
            PROVE  pc'[f] = "ended" /\ current'[u] = f
        <5>1. f # g
          BY <2>5, <2>10, <4>1, <4>3
        <5>2. InUse(f) /\ stack[f] = x
          BY <2>5, <2>6, <4>3, <5>1
        <5>3. pc[f] = "ended" /\ current[u] = f
          BY <4>1, <5>2 DEF StackInv, StackPlaces
        <5> QED BY <1>0, <2>4, <2>5, <5>1, <5>3
      <4> QED BY <2>3, <2>4, <3>2, <4>1, <4>2, <4>3
    <3> QED BY <3>1, <3>3, <3>4 DEF StackPlaces
  <2> QED BY <2>9, <2>11, <2>12 DEF StackInv
<1>2. ASSUME NEW t \in Threads,
             (\E g \in Fibers : Claim(t, g)) \/ Enqueue(t) \/ Await(t) \/ Sleep(t)
      PROVE  StackInv'
  <2>1. current[t] \in Fibers /\ pc[current[t]] \in {"run", "enqueue"}
    BY <1>2, AtStep DEF Claim, Enqueue, Await, Sleep, Acts
  <2>2. \E step \in {"enqueue", "run", "suspending"} :
          pc' = [pc EXCEPT ![current[t]] = step]
    BY <1>2 DEF Claim, Enqueue, Await, Sleep
  <2>3. \A x \in All : /\ pc'[x] = "unborn" <=> pc[x] = "unborn"
                       /\ pc'[x] = "ended" <=> pc[x] = "ended"
    BY <1>0, <2>1, <2>2
  <2>4. UNCHANGED <<current, saved, stack, pool, freeStacks>>
    BY <1>2 DEF Claim, Enqueue, Await, Sleep
  <2> QED BY <2>3, <2>4, StackKept
<1>3. ASSUME NEW t \in Threads, Finish(t) PROVE StackInv'
  <2> DEFINE f == current[t]
  <2>1. f \in Fibers /\ pc[f] = "run"
    BY <1>3, AtStep DEF Finish
  <2>2. /\ pc' = [pc EXCEPT ![f] = "ended"]
        /\ freeStacks' = [freeStacks EXCEPT ![t] = @ \cup {stack[f]}]
        /\ UNCHANGED <<current, saved, stack, pool>>
    BY <1>3 DEF Finish
  <2>3. /\ pc'[f] = "ended" /\ \A x \in All \ {f} : pc'[x] = pc[x]
        /\ freeStacks'[t] = freeStacks[t] \cup {stack[f]}
        /\ \A u \in Threads \ {t} : freeStacks'[u] = freeStacks[u]
    BY <1>0, <2>1, <2>2 DEF TypeInv, StackTypes
  <2>4. InUse(f) /\ stack[f] \in Fibers /\ pc[stack[f]] # "unborn"
    BY <2>1 DEF InUse, TypeInv, Spawned, StackInv, StackPlaces
  <2>5. \A x \in Fibers : pc'[x] = "unborn" <=> pc[x] = "unborn"
    BY <1>0, <2>1, <2>3
  <2>6. \A x \in Fibers : InUse(x)' => InUse(x)
    <3>1. SUFFICES ASSUME NEW x \in Fibers, InUse(x)' PROVE InUse(x)
      OBVIOUS
    <3>2. IsCurrent(x)' <=> IsCurrent(x)
      BY <2>2 DEF IsCurrent
    <3> QED BY <1>0, <2>3, <2>4, <3>1, <3>2 DEF InUse
  <2>7. \A x \in Fibers : InUse(x) =>
          /\ stack[x] \notin pool
          /\ \A k \in Fibers : InUse(k) /\ stack[x] = stack[k] => x = k
    BY SharedStacks DEF StackInv
  <2>8. NoSharedStack'
    <3>1. NoSharedStack' <=>
            \A x \in Fibers : InUse(x)' =>
              /\ stack'[x] \notin pool'
              /\ \A k \in Fibers : InUse(k)' /\ stack'[x] = stack'[k] => x = k
      BY DEF NoSharedStack, InUse
    <3> QED BY <2>2, <2>6, <2>7, <3>1
  <2>9. RunsOnce'
    BY <2>2 DEF StackInv, RunsOnce
  <2>10. \A u \in Threads : stack[f] \notin freeStacks[u]
    BY <2>1, <2>4 DEF StackInv, StackPlaces
  <2>11. StackPlaces'
    <3>1. \A x \in Fibers : pc'[x] # "unborn" => pc'[stack'[x]] # "unborn"
      BY <2>2, <2>5 DEF StackInv, StackPlaces, TypeInv, Spawned
    <3>2. \A x \in pool' : pc'[x] # "unborn"
      BY <2>2, <2>5 DEF StackInv, StackPlaces, TypeInv, StackTypes
    <3>3. ASSUME NEW u \in Threads, NEW s \in freeStacks'[u]
          PROVE  /\ s \notin pool' /\ pc'[s] # "unborn"
                 /\ \A v \in Threads : s \in freeStacks'[v] => v = u
                 /\ \A x \in Fibers : InUse(x)' /\ stack'[x] = s =>
                      pc'[x] = "ended" /\ current'[u] = x
      <4>1. CASE s = stack[f]
        <5>1. u = t
          BY <2>3, <2>10, <3>3, <4>1
        <5>2. s \notin pool' /\ pc'[s] # "unborn"
          BY <2>1, <2>2, <2>4, <2>5, <2>7, <4>1
        <5>3. \A v \in Threads : s \in freeStacks'[v] => v = u
          BY <2>3, <2>10, <4>1, <5>1
        <5>4. \A x \in Fibers : InUse(x)' /\ stack'[x] = s => x = f
          BY <2>1, <2>2, <2>4, <2>6, <2>7, <4>1
        <5> QED BY <2>2, <2>3, <5>1, <5>2, <5>3, <5>4
      <4>2. CASE s # stack[f]
        <5>1. s \in freeStacks[u] /\ s \in Fibers
          BY <2>3, <3>3, <4>2 DEF TypeInv, StackTypes
        <5>2. /\ s \notin pool /\ pc[s] # "unborn"
              /\ \A v \in Threads : s \in freeStacks[v] => v = u
              /\ \A x \in Fibers : InUse(x) /\ stack[x] = s =>
                   pc[x] = "ended" /\ current[u] = x
          BY <5>1 DEF StackInv, StackPlaces
        <5>3. \A v \in Threads : s \in freeStacks'[v] => v = u
          BY <2>3, <4>2, <5>2
        <5>4. \A x \in Fibers : InUse(x)' /\ stack'[x] = s =>
                pc'[x] = "ended" /\ current'[u] = x
          BY <1>0, <2>2, <2>3, <2>6, <5>2
        <5> QED BY <2>2, <2>5, <5>1, <5>2, <5>3, <5>4
      <4> QED BY <4>1, <4>2
    <3> QED BY <3>1, <3>2, <3>3 DEF StackPlaces
  <2> QED BY <2>8, <2>9, <2>11 DEF StackInv
<1>4. ASSUME NEW t \in Threads, Reschedule(t) PROVE StackInv'
  <2> DEFINE h == Head(runnables[t])
  <2>1. h \in Fibers \cup {t}
    <3>1. runnables[t] \in Seq(All) /\ runnables[t] # <<>>
      BY <1>4 DEF Reschedule, TypeInv, QueueTypes
    <3> QED BY <3>1, InTail DEF TypeInv, Homes
  <2>2. UNCHANGED stack
    BY <1>4 DEF Reschedule
  <2>3. CASE h = current[t]
    <3>1. pc' = [pc EXCEPT ![h] = Continues(h)] /\ ReleaseStacks(t, h)
          /\ UNCHANGED <<current, saved>>
      BY <1>4, <2>3 DEF Reschedule, SameFiber
    <3>2. h \in All /\ pc[h] # "unborn"
      BY <2>1, <2>3 DEF TypeInv, Spawned, All
    <3>3. /\ \A x \in All : x # h => pc'[x] = pc[x]
          /\ pc'[h] = Continues(h)
      BY <1>0, <3>1, <3>2
    <3>4. Continues(h) # "unborn" /\ (Continues(h) = "ended" <=> pc[h] = "ended")
      <4>1. h \in Threads => pc[h] # "ended"
        BY DEF TypeInv, StepTypes, LoopSteps
      <4> QED BY <4>1 DEF Continues
    <3>5. \A x \in Fibers : /\ pc'[x] = "unborn" <=> pc[x] = "unborn"
                            /\ pc'[x] = "ended" <=> pc[x] = "ended"
      BY <1>0, <3>2, <3>3, <3>4
    <3>6. \A x \in Fibers : InUse(x)' => InUse(x)
      BY <3>1, <3>5 DEF InUse, IsCurrent
    <3>7. \/ UNCHANGED <<pool, freeStacks>>
          \/ /\ pc[h] # "ended"
             /\ pool' = pool \cup freeStacks[t]
             /\ freeStacks' = [freeStacks EXCEPT ![t] = {}]
      BY <3>1 DEF ReleaseStacks
    <3>8. \A x \in Fibers : InUse(x)' =>
            ~(pc[x] = "ended" /\ current[t] = x) \/ UNCHANGED <<pool, freeStacks>>
      BY <2>3, <3>7
    <3>9. \A u \in Threads, x \in Fibers :
            InUse(x)' /\ pc[x] = "ended" /\ current[u] = x =>
              pc'[x] = "ended" /\ current'[u] = x
      BY <3>1, <3>5
    <3>10. (StackPlaces /\ NoSharedStack)'
      BY <2>2, <3>5, <3>6, <3>7, <3>8, <3>9, Released
    <3>11. RunsOnce'
      BY <3>1 DEF StackInv, RunsOnce
    <3> QED BY <3>10, <3>11 DEF StackInv
  <2>4. CASE h # current[t]
    <3>1. Resume(t, h)
      BY <1>4, <2>4 DEF Reschedule, SameFiber
    <3> QED BY <2>1, <2>2, <3>1, ResumeStacks
  <2> QED BY <2>3, <2>4
<1>5. ASSUME NEW t \in Threads, Poll(t) \/ RunEventLoop(t) PROVE StackInv'
  BY <1>5, StackKept DEF Poll, RunEventLoop
<1>6. ASSUME NEW t \in Threads, Loop(t) PROVE StackInv'
  <2>1. t \in All /\ pc[t] = "loop"
    BY <1>6, AtStep DEF Loop, All
  <2>2. CASE runnables[t] # <<>>
    <3>1. runnables[t] \in Seq(All)
      BY DEF TypeInv, QueueTypes
    <3>2. Head(runnables[t]) \in Fibers \cup {t}
      BY <2>2, <3>1, InTail DEF TypeInv, Homes
    <3>3. Resume(t, Head(runnables[t])) /\ UNCHANGED stack
      BY <1>6, <2>2 DEF Loop
    <3> QED BY <3>2, <3>3, ResumeStacks
  <2>3. CASE runnables[t] = <<>>
    <3>1. /\ pc' = [pc EXCEPT ![t] = "receive"]
          /\ UNCHANGED <<current, saved, stack, pool, freeStacks>>
      BY <1>6, <2>3 DEF Loop
    <3>2. \A x \in All : /\ pc'[x] = "unborn" <=> pc[x] = "unborn"
                         /\ pc'[x] = "ended" <=> pc[x] = "ended"
      BY <1>0, <2>1, <3>1
    <3> QED BY <3>1, <3>2, StackKept
  <2> QED BY <2>2, <2>3
<1>7. ASSUME NEW t \in Threads, Receive(t) PROVE StackInv'
  <2>1. t \in All /\ pc[t] = "receive"
    BY <1>7, AtStep DEF Receive, All
  <2>2. /\ \E step \in {"wake", "reading"} : pc' = [pc EXCEPT ![t] = step]
        /\ UNCHANGED <<current, saved, stack, pool, freeStacks>>
    BY <1>7 DEF Receive
  <2>3. \A x \in All : /\ pc'[x] = "unborn" <=> pc[x] = "unborn"
                       /\ pc'[x] = "ended" <=> pc[x] = "ended"
    BY <1>0, <2>1, <2>2
  <2> QED BY <2>2, <2>3, StackKept
<1>8. ASSUME NEW t \in Threads, Wake(t) PROVE StackInv'
  <2>1. current[t] = t /\ pc[t] = "wake" /\ ~fatal
    BY <1>8, AtStep DEF Wake
  <2>2. target[t] \in Fibers
    BY <2>1 DEF TypeInv, Targets
  <2>3. Resume(t, target[t]) /\ UNCHANGED stack
    BY <1>8 DEF Wake
  <2> QED BY <2>2, <2>3, ResumeStacks
<1>9. ASSUME UNCHANGED vars PROVE StackInv'
  BY <1>9, StackKept DEF vars
<1> QED
  BY <1>1, <1>2, <1>3, <1>4, <1>5, <1>6, <1>7, <1>8, <1>9 DEF Next, Step

(* No two fibers share a stack, and none is in the pool while a fiber still*)
(* runs on it, for any number of threads and fibers (scheduler.cr:144-168).*)
THEOREM StacksUnshared == Spec => []NoSharedStack
<1>1. Init => TypeInv /\ StackInv
  BY TypeInit, StackInit
<1>2. TypeInv /\ StackInv /\ [Next]_vars => (TypeInv /\ StackInv)'
  BY TypeStep, StackStep
<1>3. StackInv => NoSharedStack
  BY DEF StackInv
<1> QED BY <1>1, <1>2, <1>3, PTL DEF Spec

-----------------------------------------------------------------------------
(* No fatal error *)

LEMMA InjectiveAppend ==
  ASSUME NEW S, NEW q \in Seq(S), NEW e \in S, IsInjective(q), ~In(q, e)
  PROVE  IsInjective(Append(q, e))
<1>1. /\ DOMAIN q = 1..Len(q) /\ Len(q) \in Nat
      /\ DOMAIN Append(q, e) = 1..(Len(q) + 1)
      /\ \A i \in 1..Len(q) : Append(q, e)[i] = q[i]
      /\ Append(q, e)[Len(q) + 1] = e
  OBVIOUS
<1>2. \A i \in 1..Len(q) : q[i] # e
  BY <1>1 DEF In
<1> QED BY <1>1, <1>2 DEF IsInjective

LEMMA InjectiveTail ==
  ASSUME NEW S, NEW q \in Seq(S), q # <<>>, IsInjective(q)
  PROVE  IsInjective(Tail(q)) /\ ~In(Tail(q), Head(q))
<1>1. /\ Len(q) \in Nat /\ Len(q) > 0 /\ DOMAIN q = 1..Len(q)
      /\ DOMAIN Tail(q) = 1..(Len(q) - 1)
      /\ \A j \in 1..(Len(q) - 1) : Tail(q)[j] = q[j + 1]
      /\ Head(q) = q[1]
  OBVIOUS
<1>2. ASSUME NEW i \in DOMAIN Tail(q), NEW j \in DOMAIN Tail(q),
             Tail(q)[i] = Tail(q)[j]
      PROVE  i = j
  <2>1. i + 1 \in DOMAIN q /\ j + 1 \in DOMAIN q /\ q[i + 1] = q[j + 1]
    BY <1>1, <1>2
  <2>2. i + 1 = j + 1
    BY <2>1 DEF IsInjective
  <2> QED BY <1>1, <2>2
<1>3. ASSUME NEW i \in DOMAIN Tail(q) PROVE Tail(q)[i] # Head(q)
  <2>1. i + 1 \in DOMAIN q /\ 1 \in DOMAIN q /\ i + 1 # 1
    BY <1>1
  <2>2. q[i + 1] # q[1]
    BY <2>1 DEF IsInjective
  <2> QED BY <1>1, <2>2
<1> QED BY <1>2, <1>3 DEF IsInjective, In

LEMMA InjectiveConcat ==
  ASSUME NEW S, NEW q \in Seq(S), NEW r \in Seq(S), IsInjective(q), IsInjective(r),
         \A x : ~(In(q, x) /\ In(r, x))
  PROVE  IsInjective(q \o r)
<1>1. /\ Len(q) \in Nat /\ Len(r) \in Nat
      /\ DOMAIN (q \o r) = 1..(Len(q) + Len(r))
      /\ DOMAIN q = 1..Len(q) /\ DOMAIN r = 1..Len(r)
      /\ \A i \in 1..Len(q) : (q \o r)[i] = q[i]
      /\ \A i \in 1..(Len(q) + Len(r)) : i > Len(q) =>
           i - Len(q) \in 1..Len(r) /\ (q \o r)[i] = r[i - Len(q)]
  OBVIOUS
<1>2. ASSUME NEW i \in DOMAIN (q \o r), NEW j \in DOMAIN (q \o r),
             (q \o r)[i] = (q \o r)[j]
      PROVE  i = j
  <2>1. CASE i <= Len(q) /\ j <= Len(q)
    BY <1>1, <1>2, <2>1 DEF IsInjective
  <2>2. CASE i > Len(q) /\ j > Len(q)
    <3>1. i - Len(q) = j - Len(q)
      BY <1>1, <1>2, <2>2 DEF IsInjective
    <3> QED BY <1>1, <3>1
  <2>3. CASE i <= Len(q) /\ j > Len(q)
    <3>1. In(q, (q \o r)[i]) /\ In(r, (q \o r)[j])
      BY <1>1, <2>3 DEF In
    <3> QED BY <1>2, <3>1
  <2>4. CASE i > Len(q) /\ j <= Len(q)
    <3>1. In(r, (q \o r)[i]) /\ In(q, (q \o r)[j])
      BY <1>1, <2>4 DEF In
    <3> QED BY <1>2, <3>1
  <2> QED BY <1>1, <2>1, <2>2, <2>3, <2>4
<1> QED BY <1>2 DEF IsInjective

LEMMA HeldBy ==
  ASSUME NEW x
  PROVE  /\ \A t \in Threads : In(runnables[t], x) \/ In(pipe[t], x) => Held(x)
         /\ \A g \in All : target[g] = x => Held(x)
         /\ x \in waiting \cup events => Held(x)
<1>1. ASSUME NEW t \in Threads, In(runnables[t], x) PROVE Held(x)
  <2>1. Holds("queue", t, x)
    BY <1>1 DEF Holds
  <2> QED BY <2>1 DEF Held, Kinds, Holders, All
<1>2. ASSUME NEW t \in Threads, In(pipe[t], x) PROVE Held(x)
  <2>1. Holds("pipe", t, x)
    BY <1>2 DEF Holds
  <2> QED BY <2>1 DEF Held, Kinds, Holders, All
<1>3. ASSUME NEW g \in All, target[g] = x PROVE Held(x)
  <2>1. Holds("target", g, x)
    BY <1>3 DEF Holds
  <2> QED BY <2>1 DEF Held, Kinds, Holders
<1>4. ASSUME x \in waiting PROVE Held(x)
  <2>1. Holds("waiting", None, x)
    BY <1>4 DEF Holds
  <2> QED BY <2>1 DEF Held, Kinds, Holders
<1>5. ASSUME x \in events PROVE Held(x)
  <2>1. Holds("events", None, x)
    BY <1>5 DEF Holds
  <2> QED BY <2>1 DEF Held, Kinds, Holders
<1> QED BY <1>1, <1>2, <1>3, <1>4, <1>5

(* A fiber stays in one place if a step takes it from its places, or puts  *)
(* it in a single one.                                                     *)
LEMMA Moved ==
  ASSUME AtMostOne,
         \A x \in All :
           \/ \A k \in Kinds, a \in Holders : Holds(k, a, x)' => Holds(k, a, x)
           \/ \E l \in Kinds, b \in Holders :
                \A k \in Kinds, a \in Holders : Holds(k, a, x)' => k = l /\ a = b
  PROVE  AtMostOne'
<1>1. SUFFICES ASSUME NEW x \in All, NEW k \in Kinds, NEW l \in Kinds,
                      NEW a \in Holders, NEW b \in Holders,
                      Holds(k, a, x)', Holds(l, b, x)'
               PROVE  k = l /\ a = b
  BY DEF AtMostOne, All, Kinds, Holders
<1>2. CASE \A m \in Kinds, c \in Holders : Holds(m, c, x)' => Holds(m, c, x)
  BY <1>1, <1>2 DEF AtMostOne
<1>3. CASE \E m \in Kinds, c \in Holders :
             \A n \in Kinds, d \in Holders : Holds(n, d, x)' => n = m /\ d = c
  BY <1>1, <1>3
<1> QED BY <1>2, <1>3

(* The fiber that runs is held nowhere. *)
LEMMA RunsUnheld ==
  ASSUME TypeInv, WhereInv, NEW t \in Threads,
         pc[current[t]] \notin {"suspending", "reading"}
  PROVE  ~Held(current[t])
<1>1. current[t] \in All /\ IsCurrent(current[t])
  BY DEF TypeInv, ContextTypes, IsCurrent
<1> QED BY <1>1 DEF WhereInv, HeldRest, Resting

LEMMA WhereInit == Init => WhereInv
<1> SUFFICES ASSUME Init PROVE WhereInv
  OBVIOUS
<1> USE SchedulerAssumption DEF All
<1>1. /\ \A t \in Threads : runnables[t] = IF t = First THEN <<First>> ELSE <<>>
      /\ \A t \in Threads : pipe[t] = <<>>
      /\ \A x \in All : target[x] = None
      /\ waiting = {} /\ events = {}
  BY DEF Init
<1>2. /\ \A t \in Threads : \A x : In(runnables[t], x) => t = First /\ x = First
      /\ \A t \in Threads : \A x : ~In(pipe[t], x)
  BY <1>1 DEF In
<1>3. \A x \in All, k \in Kinds, a \in Holders :
        Holds(k, a, x) => k = "queue" /\ a = First /\ x = First
  BY <1>1, <1>2 DEF Holds
<1>4. HeldOnce
  <2>1. AtMostOne
    BY <1>3 DEF AtMostOne
  <2>2. \A t \in Threads : IsInjective(runnables[t]) /\ IsInjective(pipe[t])
    BY <1>1 DEF IsInjective
  <2> QED BY <2>1, <2>2 DEF HeldOnce
<1>5. \A t \in Threads : current[t] = IF t = First THEN Main ELSE t
  BY DEF Init
<1>6. ~IsCurrent(First) /\ pc[First] = "start"
  BY <1>5 DEF IsCurrent, Init
<1>7. HeldRest
  BY <1>3, <1>6 DEF HeldRest, Held, Resting
<1>8. AtHome
  BY <1>1, <1>2, <1>5 DEF AtHome, Init
<1>9. Saved
  <2>1. SUFFICES ASSUME NEW x \in All, pc[x] # "unborn", ~IsCurrent(x), x # First
                 PROVE  FALSE
    BY DEF Saved, Init
  <2>2. x = Main \/ x \in Threads \ {First}
    BY <2>1 DEF Init
  <2> QED BY <1>5, <2>1, <2>2 DEF IsCurrent
<1> QED BY <1>4, <1>7, <1>8, <1>9 DEF WhereInv, NeverFatal, Init

(* One fiber moves to a single place, the others stay where they are. *)
LEMMA WhereMoved ==
  ASSUME TypeInv, WhereInv, NEW g \in All, NEW l \in Kinds, NEW b \in Holders,
         \A x \in All \ {g}, k \in Kinds, a \in Holders :
           Holds(k, a, x)' => Holds(k, a, x),
         \A k \in Kinds, a \in Holders : Holds(k, a, g)' => k = l /\ a = b,
         Held(g)' => Resting(g)',
         \A x \in All \ {g} : Held(x) => pc'[x] = pc[x],
         UNCHANGED current
  PROVE  AtMostOne' /\ HeldRest'
<1>1. AtMostOne'
  <2>1. ASSUME NEW x \in All
        PROVE  \/ \A k \in Kinds, a \in Holders : Holds(k, a, x)' => Holds(k, a, x)
               \/ \E m \in Kinds, c \in Holders :
                    \A k \in Kinds, a \in Holders : Holds(k, a, x)' => k = m /\ a = c
    <3>1. CASE x = g
      BY <3>1
    <3>2. CASE x # g
      BY <3>2
    <3> QED BY <3>1, <3>2
  <2>2. AtMostOne
    BY DEF WhereInv, HeldOnce
  <2> QED BY <2>1, <2>2, Moved
<1>2. ASSUME NEW x \in All \ {g}, Held(x)' PROVE Resting(x)'
  <2>1. Held(x)
    BY <1>2 DEF Held, Kinds, Holders, All
  <2>2. Resting(x) /\ pc'[x] = pc[x]
    BY <2>1 DEF WhereInv, HeldRest
  <2>3. IsCurrent(x)' <=> IsCurrent(x)
    BY DEF IsCurrent
  <2> QED BY <2>2, <2>3 DEF Resting
<1>3. HeldRest'
  BY <1>2 DEF HeldRest, All
<1> QED BY <1>1, <1>3

(* A held fiber of this thread can be resumed: no fatal error.             *)
LEMMA ResumeWorks ==
  ASSUME TypeInv, WhereInv, NEW t \in Threads, NEW h \in Fibers \cup {t},
         h # current[t], Held(h), thread[h] \in {t, None}, Resume(t, h)
  PROVE  /\ ~IsCurrent(h) /\ ~fatal'
         /\ current' = [current EXCEPT ![t] = h]
         /\ saved' = [saved EXCEPT ![current[t]] = TRUE, ![h] = FALSE]
         /\ thread' = [thread EXCEPT ![h] = t]
         /\ pc' = [pc EXCEPT ![h] = Continues(h)]
<1>0. h \in All
  BY DEF All
<1>1. ~IsCurrent(h)
  <2>1. SUFFICES ASSUME NEW u \in Threads, current[u] = h PROVE FALSE
    BY DEF IsCurrent
  <2>2. thread[h] = u
    BY <2>1 DEF WhereInv, AtHome
  <2> QED BY <2>1, <2>2, SchedulerAssumption
<1>2. saved[h] /\ pc[h] # "ended"
  BY <1>0, <1>1 DEF WhereInv, HeldRest, Resting, Saved
<1>3. ~fatal
  BY DEF WhereInv, NeverFatal
<1> QED BY <1>1, <1>2, <1>3 DEF Resume, Goto

LEMMA ResumeWhere ==
  ASSUME TypeInv, WhereInv, NEW t \in Threads, NEW h \in Fibers \cup {t},
         h # current[t], Held(h), thread[h] \in {t, None}, Resume(t, h),
         \A x \in All : Held(x)' => x # h /\ (Held(x) \/ (x = t /\ current[t] = t))
  PROVE  /\ ~fatal' /\ HeldRest' /\ Saved'
         /\ \A u \in Threads : thread'[current'[u]] = u
         /\ \A x \in All \ {h} : thread'[x] = thread[x]
<1> USE SchedulerAssumption
<1>0. h \in All
  BY DEF All
<1>1. /\ ~IsCurrent(h) /\ ~fatal'
      /\ current' = [current EXCEPT ![t] = h]
      /\ saved' = [saved EXCEPT ![current[t]] = TRUE, ![h] = FALSE]
      /\ thread' = [thread EXCEPT ![h] = t]
      /\ pc' = [pc EXCEPT ![h] = Continues(h)]
  BY ResumeWorks
<1>2. /\ current \in [Threads -> All] /\ saved \in [All -> BOOLEAN]
      /\ DOMAIN thread = All /\ DOMAIN pc = All
      /\ \A u \in Threads : current[u] \in Fibers \cup {u}
  BY DEF TypeInv, ContextTypes, StepTypes, Homes
<1>3. /\ current'[t] = h /\ \A u \in Threads \ {t} : current'[u] = current[u]
      /\ thread'[h] = t /\ \A x \in All \ {h} : thread'[x] = thread[x]
      /\ \A x \in All \ {h} : pc'[x] = pc[x]
      /\ \A x \in All \ {h} : saved'[x] = IF x = current[t] THEN TRUE ELSE saved[x]
  BY <1>0, <1>1, <1>2
<1>4. ASSUME NEW x \in All \ {h}, IsCurrent(x)' PROVE IsCurrent(x) /\ x # current[t]
  <2>1. PICK u \in Threads : current'[u] = x
    BY <1>4 DEF IsCurrent
  <2>2. u # t /\ current[u] = x
    BY <1>3, <1>4, <2>1
  <2>3. x # current[t]
    BY <2>2 DEF WhereInv, AtHome
  <2> QED BY <2>2, <2>3 DEF IsCurrent
<1>5. HeldRest'
  <2>1. SUFFICES ASSUME NEW x \in All, Held(x)' PROVE Resting(x)'
    BY DEF HeldRest, All
  <2>2. x # h /\ pc'[x] = pc[x]
    BY <1>3, <2>1
  <2>3. CASE Held(x)
    <3>1. Resting(x)
      BY <2>3 DEF WhereInv, HeldRest
    <3> QED BY <1>4, <2>2, <3>1 DEF Resting
  <2>4. CASE x = t /\ current[t] = t
    <3>1. ~IsCurrent(x)'
      BY <1>4, <2>2, <2>4
    <3>2. pc[x] \notin {"unborn", "ended"}
      BY <2>4 DEF TypeInv, StepTypes, LoopSteps
    <3> QED BY <2>2, <3>1, <3>2 DEF Resting
  <2> QED BY <2>1, <2>3, <2>4
<1>6. Saved'
  <2>1. SUFFICES ASSUME NEW x \in All, pc'[x] # "unborn", ~IsCurrent(x)'
                 PROVE  saved'[x]
    BY DEF Saved, All
  <2>2. x # h
    BY <1>3, <2>1 DEF IsCurrent
  <2>3. CASE x = current[t]
    BY <1>3, <2>2, <2>3
  <2>4. CASE x # current[t]
    <3>1. ~IsCurrent(x)
      BY <1>3, <2>1, <2>4 DEF IsCurrent
    <3> QED BY <1>3, <2>1, <2>2, <2>4, <3>1 DEF WhereInv, Saved
  <2> QED BY <2>3, <2>4
<1>7. \A u \in Threads : thread'[current'[u]] = u
  <2>1. \A u \in Threads \ {t} : current[u] # h /\ thread[current[u]] = u
    BY <1>1 DEF IsCurrent, WhereInv, AtHome
  <2> QED BY <1>2, <1>3, <2>1
<1> QED BY <1>1, <1>3, <1>5, <1>6, <1>7

(* A fiber is resumed: taken from its only place, while the worker loop    *)
(* may get one.                                                            *)
LEMMA ResumeTaken ==
  ASSUME TypeInv, TypeInv', WhereInv, NEW t \in Threads, NEW h \in Fibers \cup {t},
         h # current[t], Held(h), thread[h] \in {t, None}, Resume(t, h),
         \A k \in Kinds, a \in Holders : ~Holds(k, a, h)',
         \A x \in All \ {h}, k \in Kinds, a \in Holders :
           Holds(k, a, x)' => \/ Holds(k, a, x)
                              \/ /\ x = t /\ current[t] = t /\ ~Held(t)
                                 /\ k = "queue" /\ a = t,
         \A u \in Threads : target'[u] \in {target[u], None}
  PROVE  /\ ~fatal' /\ AtMostOne' /\ HeldRest' /\ AtHome' /\ Saved'
<1> USE SchedulerAssumption
<1>0. h \in All /\ Threads \subseteq All
  BY DEF All
<1>1. AtMostOne'
  <2>1. ASSUME NEW x \in All
        PROVE  \/ \A k \in Kinds, a \in Holders : Holds(k, a, x)' => Holds(k, a, x)
               \/ \E m \in Kinds, c \in Holders :
                    \A k \in Kinds, a \in Holders : Holds(k, a, x)' => k = m /\ a = c
    <3>1. CASE x = h
      BY <3>1
    <3>2. CASE x # h /\ ~(x = t /\ current[t] = t /\ ~Held(t))
      BY <3>2
    <3>3. CASE x # h /\ x = t /\ current[t] = t /\ ~Held(t)
      <4>1. \A k \in Kinds, a \in Holders : ~Holds(k, a, x)
        BY <3>3 DEF Held
      <4>2. \A k \in Kinds, a \in Holders : Holds(k, a, x)' => k = "queue" /\ a = t
        BY <3>3, <4>1
      <4>3. "queue" \in Kinds /\ t \in Holders
        BY <1>0 DEF Kinds, Holders
      <4> QED BY <4>2, <4>3
    <3> QED BY <3>1, <3>2, <3>3
  <2>2. AtMostOne
    BY DEF WhereInv, HeldOnce
  <2> QED BY <2>1, <2>2, Moved
<1>2. ASSUME NEW x \in All, Held(x)'
      PROVE  x # h /\ (Held(x) \/ (x = t /\ current[t] = t))
  <2>1. PICK k \in Kinds, a \in Holders : Holds(k, a, x)'
    BY <1>2 DEF Held, Kinds, Holders, All
  <2>2. x # h
    BY <2>1
  <2> QED BY <2>1, <2>2 DEF Held
<1>3. /\ ~fatal' /\ HeldRest' /\ Saved'
      /\ \A u \in Threads : thread'[current'[u]] = u
      /\ \A x \in All \ {h} : thread'[x] = thread[x]
  BY <1>2, ResumeWhere
<1>4. AtHome'
  <2>1. ASSUME NEW u \in Threads, NEW x, In(runnables'[u], x) \/ In(pipe'[u], x),
               x \in All
        PROVE  thread'[x] \in {u, None}
    <3>1. PICK k \in {"queue", "pipe"} : Holds(k, u, x)'
      BY <2>1 DEF Holds
    <3>2. k \in Kinds /\ u \in Holders
      BY <1>0 DEF Kinds, Holders
    <3>3. x # h /\ (Holds(k, u, x) \/ (x = t /\ u = t))
      BY <2>1, <3>1, <3>2
    <3>4. CASE Holds(k, u, x)
      <4>1. In(runnables[u], x) \/ In(pipe[u], x)
        BY <3>1, <3>4 DEF Holds
      <4> QED BY <1>3, <2>1, <3>3, <4>1 DEF WhereInv, AtHome
    <3>5. CASE x = t /\ u = t
      <4>1. thread[t] \in {t, None}
        BY DEF TypeInv, Homes
      <4> QED BY <1>3, <2>1, <3>3, <3>5, <4>1
    <3> QED BY <3>3, <3>4, <3>5
  <2>2. ASSUME NEW u \in Threads, target'[u] # None
        PROVE  thread'[target'[u]] \in {u, None}
    <3>1. target'[u] = target[u] /\ target[u] \in All /\ thread[target[u]] \in {u, None}
      BY <1>0, <2>2 DEF WhereInv, AtHome, TypeInv, StepTypes, All
    <3>2. target'[u] # h
      <4>1. "target" \in Kinds /\ u \in Holders /\ u \in All
        BY <1>0 DEF Kinds, Holders
      <4>2. target'[u] = h => Holds("target", u, h)'
        BY <4>1 DEF Holds, All
      <4> QED BY <4>1, <4>2
    <3> QED BY <1>3, <3>1, <3>2
  <2>3. \A u \in Threads : \A x : In(runnables'[u], x) \/ In(pipe'[u], x) => x \in All
    BY DEF TypeInv, QueueTypes, In, All
  <2> QED BY <1>3, <2>1, <2>2, <2>3 DEF AtHome
<1> QED BY <1>1, <1>3, <1>4

LEMMA SavedKept ==
  ASSUME Saved, UNCHANGED <<current, saved>>,
         \A x \in All : ~IsCurrent(x) => pc'[x] = pc[x]
  PROVE  Saved'
<1>1. \A x \in All : IsCurrent(x)' <=> IsCurrent(x)
  BY DEF IsCurrent
<1> QED BY <1>1 DEF Saved, All

LEMMA WhereStep == TypeInv /\ TypeInv' /\ WhereInv /\ [Next]_vars => WhereInv'
<1> SUFFICES ASSUME TypeInv, TypeInv', WhereInv, [Next]_vars PROVE WhereInv'
  OBVIOUS
<1> USE SchedulerAssumption DEF queues, context, stacks, Goto
<1>0. /\ pc \in [All -> LoopSteps \cup FiberSteps] /\ target \in [All -> Fibers \cup {None}]
      /\ Fibers \subseteq All /\ Threads \subseteq All /\ None \notin All
      /\ runnables \in [Threads -> Seq(All)] /\ pipe \in [Threads -> Seq(Fibers)]
      /\ current \in [Threads -> All]
      /\ \A u \in Threads : pc[u] \in LoopSteps
  BY DEF TypeInv, StepTypes, QueueTypes, ContextTypes, All
<1>01. {"queue", "pipe", "target", "waiting", "events"} \subseteq Kinds
       /\ All \cup {None} \subseteq Holders
  BY DEF Kinds, Holders
<1>1. ASSUME NEW t \in Threads, NEW g \in Fibers, Spawn(t, g) PROVE WhereInv'
  <2> DEFINE f == current[t]
  <2>1. At(t, "run") /\ pc[g] = "unborn"
    BY <1>1 DEF Spawn, Acts
  <2>2. f \in Fibers /\ pc[f] = "run" /\ f # g /\ ~fatal
    BY <2>1, AtStep
  <2>3. ~Held(f) /\ ~Held(g)
    BY <1>0, <2>1, <2>2, RunsUnheld DEF WhereInv, HeldRest, Resting
  <2>4. /\ target' = [target EXCEPT ![f] = g]
        /\ pc' = [pc EXCEPT ![f] = "enqueue", ![g] = "start"]
        /\ saved' = [saved EXCEPT ![g] = TRUE]
        /\ UNCHANGED <<runnables, pipe, waiting, events, current, fatal>>
        /\ \E home \in {None, t} : thread' = [thread EXCEPT ![g] = home]
    BY <1>1 DEF Spawn
  <2>5. \A x \in All \ {g}, k \in Kinds, a \in Holders : Holds(k, a, x)' => Holds(k, a, x)
    BY <1>0, <2>2, <2>4 DEF Holds
  <2>6. \A k \in Kinds, a \in Holders : Holds(k, a, g)' => k = "target" /\ a = f
    <3>1. /\ \A u \in Threads : ~In(runnables[u], g) /\ ~In(pipe[u], g)
          /\ \A u \in All : target[u] # g
          /\ g \notin waiting /\ g \notin events
      BY <2>3, HeldBy
    <3> QED BY <1>0, <2>4, <3>1 DEF Holds
  <2>7. ~IsCurrent(g)
    BY <2>1 DEF IsCurrent, TypeInv, Spawned
  <2>8. Resting(g)'
    <3>1. ~IsCurrent(g)'
      BY <2>4, <2>7 DEF IsCurrent
    <3> QED BY <1>0, <2>2, <2>4, <3>1 DEF Resting
  <2>9. \A x \in All \ {g} : Held(x) => pc'[x] = pc[x]
    BY <1>0, <2>3, <2>4
  <2>10. AtMostOne' /\ HeldRest'
    <3>1. g \in All /\ f \in Holders /\ "target" \in Kinds /\ UNCHANGED current
      BY <1>0, <1>01, <2>2, <2>4
    <3> HIDE DEF f
    <3> QED BY <2>5, <2>6, <2>8, <2>9, <3>1, WhereMoved
  <2>11. HeldOnce'
    BY <2>4, <2>10 DEF HeldOnce, WhereInv
  <2>12. AtHome'
    <3>1. /\ \A u \in Threads : ~In(runnables[u], g) /\ ~In(pipe[u], g)
          /\ \A u \in All : target[u] # g
      BY <2>3, HeldBy
    <3>2. \A x : x # g => thread'[x] = thread[x]
      BY <2>4
    <3>3. \A u \in Threads : target'[u] = target[u] /\ current'[u] = current[u]
      BY <1>0, <2>2, <2>4
    <3>4. \A u \in Threads : current[u] # g
      BY <2>7 DEF IsCurrent
    <3> QED BY <1>0, <2>4, <3>1, <3>2, <3>3, <3>4 DEF AtHome, WhereInv
  <2>13. Saved'
    <3>1. SUFFICES ASSUME NEW x \in All, pc'[x] # "unborn", ~IsCurrent(x)'
                   PROVE  saved'[x]
      BY DEF Saved, All
    <3>2. saved'[x] = IF x = g THEN TRUE ELSE saved[x]
      BY <2>4 DEF TypeInv, ContextTypes
    <3>3. x # g /\ x # f => pc'[x] = pc[x]
      BY <1>0, <2>4
    <3>4. ~IsCurrent(x) /\ x # f
      BY <2>4, <3>1 DEF IsCurrent
    <3> QED BY <3>1, <3>2, <3>3, <3>4 DEF Saved, WhereInv
  <2> QED BY <2>2, <2>4, <2>10, <2>11, <2>12, <2>13 DEF WhereInv, NeverFatal
<1>2. ASSUME NEW t \in Threads, NEW g \in Fibers, Claim(t, g) PROVE WhereInv'
  <2> DEFINE f == current[t]
  <2>1. f \in Fibers /\ pc[f] = "run" /\ IsCurrent(f) /\ g \in waiting
    BY <1>2, AtStep DEF Claim, Acts, IsCurrent
  <2>2. ~Held(f) /\ Held(g) /\ f # g
    BY <2>1, RunsUnheld, HeldBy
  <2>3. /\ target' = [target EXCEPT ![f] = g] /\ pc' = [pc EXCEPT ![f] = "enqueue"]
        /\ waiting' = waiting \ {g}
        /\ UNCHANGED <<runnables, pipe, events, current, fatal, thread, saved>>
    BY <1>2 DEF Claim
  <2>4. \A k \in Kinds, a \in Holders : Holds(k, a, g) => k = "waiting" /\ a = None
    <3>1. Holds("waiting", None, g)
      BY <2>1 DEF Holds
    <3> QED BY <1>0, <1>01, <3>1 DEF WhereInv, HeldOnce, AtMostOne
  <2>5. \A x \in All \ {g}, k \in Kinds, a \in Holders : Holds(k, a, x)' => Holds(k, a, x)
    BY <1>0, <2>1, <2>3 DEF Holds
  <2>6. \A k \in Kinds, a \in Holders : Holds(k, a, g)' => k = "target" /\ a = f
    <3>1. \A k \in Kinds, a \in Holders :
            Holds(k, a, g)' => k # "waiting" /\ (Holds(k, a, g) \/ (k = "target" /\ a = f))
      BY <1>0, <2>1, <2>3 DEF Holds
    <3> QED BY <2>4, <3>1
  <2>7. \A x \in All \ {f} : pc'[x] = pc[x]
    BY <1>0, <2>3
  <2>8. Resting(g)'
    <3>1. Resting(g)
      BY <1>0, <2>2 DEF WhereInv, HeldRest
    <3> QED BY <1>0, <2>2, <2>3, <2>7, <3>1 DEF Resting, IsCurrent
  <2>9. AtMostOne' /\ HeldRest'
    <3>1. g \in All /\ f \in Holders /\ "target" \in Kinds /\ UNCHANGED current
      BY <1>0, <1>01, <2>1, <2>3
    <3>2. \A x \in All \ {g} : Held(x) => pc'[x] = pc[x]
      BY <2>2, <2>7
    <3> HIDE DEF f
    <3> QED BY <2>5, <2>6, <2>8, <3>1, <3>2, WhereMoved
  <2>10. HeldOnce'
    BY <2>3, <2>9 DEF HeldOnce, WhereInv
  <2>11. AtHome'
    <3>1. \A u \in Threads : target'[u] = target[u]
      BY <1>0, <2>1, <2>3
    <3> QED BY <2>3, <3>1 DEF AtHome, WhereInv
  <2>12. Saved'
    BY <2>1, <2>3, <2>7, SavedKept DEF WhereInv
  <2> QED BY <2>3, <2>9, <2>10, <2>11, <2>12 DEF WhereInv, NeverFatal
<1>3. ASSUME NEW t \in Threads, Enqueue(t) PROVE WhereInv'
  <2> DEFINE f == current[t]
  <2>1. f \in Fibers /\ pc[f] = "enqueue" /\ IsCurrent(f)
    BY <1>3, AtStep DEF Enqueue, IsCurrent
  <2>0. PICK g \in Fibers : g = target[f]
    BY <2>1 DEF TypeInv, Targets
  <2>2. Held(g) /\ ~Held(f) /\ f # g
    BY <1>0, <2>0, <2>1, RunsUnheld, HeldBy
  <2>3. PICK th \in Home(t, g) :
          \/ /\ pipe' = [pipe EXCEPT ![th] = Append(@, g)]
             /\ UNCHANGED runnables
          \/ /\ runnables' = [runnables EXCEPT ![th] = Append(@, g)]
             /\ UNCHANGED pipe
    BY <1>3, <2>0 DEF Enqueue
  <2>4. th \in Threads /\ thread[g] \in {th, None}
    BY <1>0, <2>2 DEF Home, TypeInv, ContextTypes
  <2>5. /\ target' = [target EXCEPT ![f] = None] /\ pc' = [pc EXCEPT ![f] = "run"]
        /\ UNCHANGED <<waiting, events, current, fatal, thread, saved>>
    BY <1>3 DEF Enqueue
  <2>6. \A k \in Kinds, a \in Holders : Holds(k, a, g) => k = "target" /\ a = f
    <3>1. Holds("target", f, g) /\ f \in Holders
      BY <1>0, <1>01, <2>0, <2>1 DEF Holds
    <3> QED BY <1>0, <1>01, <2>2, <3>1 DEF WhereInv, HeldOnce, AtMostOne
  <2>7. ~In(runnables[th], g) /\ ~In(pipe[th], g)
    BY <1>0, <1>01, <2>4, <2>6 DEF Holds
  <2>8. \A x : /\ In(Append(runnables[th], g), x) <=> In(runnables[th], x) \/ x = g
               /\ In(Append(pipe[th], g), x) <=> In(pipe[th], x) \/ x = g
    <3>1. runnables[th] \in Seq(All) /\ pipe[th] \in Seq(Fibers) /\ g \in All
      BY <1>0, <2>2, <2>4
    <3> QED BY <2>2, <3>1, InAppend
  <2>9. \E l \in {"queue", "pipe"} :
          \A u \in Threads : \A x :
            /\ In(runnables'[u], x) => In(runnables[u], x)
                                        \/ (l = "queue" /\ u = th /\ x = g)
            /\ In(pipe'[u], x) => In(pipe[u], x) \/ (l = "pipe" /\ u = th /\ x = g)
    <3>1. CASE pipe' = [pipe EXCEPT ![th] = Append(@, g)] /\ UNCHANGED runnables
      BY <1>0, <2>4, <2>8, <3>1
    <3>2. CASE runnables' = [runnables EXCEPT ![th] = Append(@, g)] /\ UNCHANGED pipe
      BY <1>0, <2>4, <2>8, <3>2
    <3> QED BY <2>3, <3>1, <3>2
  <2>10. PICK l \in {"queue", "pipe"} :
           \A u \in Threads : \A x :
             /\ In(runnables'[u], x) => In(runnables[u], x)
                                         \/ (l = "queue" /\ u = th /\ x = g)
             /\ In(pipe'[u], x) => In(pipe[u], x) \/ (l = "pipe" /\ u = th /\ x = g)
    BY <2>9
  <2>11. \A x \in All \ {g}, k \in Kinds, a \in Holders : Holds(k, a, x)' => Holds(k, a, x)
    BY <1>0, <2>1, <2>5, <2>10 DEF Holds
  <2>12. \A k \in Kinds, a \in Holders : Holds(k, a, g)' => k = l /\ a = th
    <3>1. \A k \in Kinds, a \in Holders :
            Holds(k, a, g)' => /\ ~(k = "target" /\ a = f)
                               /\ Holds(k, a, g) \/ (k = l /\ a = th)
      BY <1>0, <2>1, <2>2, <2>5, <2>10 DEF Holds
    <3> QED BY <2>6, <3>1
  <2>13. \A x \in All \ {f} : pc'[x] = pc[x]
    BY <1>0, <2>5
  <2>14. Resting(g)'
    <3>1. Resting(g)
      BY <1>0, <2>2 DEF WhereInv, HeldRest
    <3> QED BY <1>0, <2>2, <2>5, <2>13, <3>1 DEF Resting, IsCurrent
  <2>15. AtMostOne' /\ HeldRest'
    <3>1. g \in All /\ th \in Holders /\ l \in Kinds /\ UNCHANGED current
      BY <1>0, <1>01, <2>2, <2>4, <2>5, <2>10
    <3>2. \A x \in All \ {g} : Held(x) => pc'[x] = pc[x]
      BY <2>2, <2>13
    <3> QED BY <2>11, <2>12, <2>14, <3>1, <3>2, WhereMoved
  <2>16. HeldOnce'
    <3>1. \A u \in Threads : IsInjective(runnables[u]) /\ IsInjective(pipe[u])
      BY DEF WhereInv, HeldOnce
    <3>2. IsInjective(Append(runnables[th], g)) /\ IsInjective(Append(pipe[th], g))
      <4>1. runnables[th] \in Seq(All) /\ pipe[th] \in Seq(Fibers) /\ g \in All
        BY <1>0, <2>2, <2>4
      <4> QED BY <2>2, <2>4, <2>7, <3>1, <4>1, InjectiveAppend
    <3>3. \A u \in Threads :
            /\ runnables'[u] = runnables[u]
                 \/ (u = th /\ runnables'[u] = Append(runnables[th], g))
            /\ pipe'[u] = pipe[u] \/ (u = th /\ pipe'[u] = Append(pipe[th], g))
      BY <1>0, <2>3, <2>4
    <3>4. \A u \in Threads : IsInjective(runnables'[u]) /\ IsInjective(pipe'[u])
      BY <3>1, <3>2, <3>3
    <3> QED BY <2>15, <3>4 DEF HeldOnce
  <2>17. AtHome'
    <3>1. \A u \in Threads : target'[u] = target[u]
      BY <1>0, <2>1, <2>5
    <3> QED BY <2>4, <2>5, <2>10, <3>1 DEF AtHome, WhereInv
  <2>18. Saved'
    BY <2>1, <2>5, <2>13, SavedKept DEF WhereInv
  <2> QED BY <2>5, <2>15, <2>16, <2>17, <2>18 DEF WhereInv, NeverFatal
<1>4. ASSUME NEW t \in Threads, Await(t) \/ Sleep(t) \/ Finish(t) PROVE WhereInv'
  <2>0. PICK f \in All : f = current[t]
    BY <1>0
  <2>1. f \in Fibers /\ pc[f] = "run" /\ IsCurrent(f)
    BY <1>4, <2>0, AtStep DEF Await, Sleep, Finish, Acts, IsCurrent
  <2>2. ~Held(f)
    BY <2>0, <2>1, RunsUnheld
  <2>3. UNCHANGED <<runnables, pipe, target, current, fatal, thread, saved>>
    BY <1>4 DEF Await, Sleep, Finish
  <2>4. PICK l \in {"waiting", "events"} :
          /\ waiting' \subseteq IF l = "waiting" THEN waiting \cup {f} ELSE waiting
          /\ events' \subseteq IF l = "events" THEN events \cup {f} ELSE events
          /\ \/ pc' = [pc EXCEPT ![f] = "suspending"]
             \/ /\ pc' = [pc EXCEPT ![f] = "ended"]
                /\ UNCHANGED <<waiting, events>>
    <3>1. CASE Await(t)
      BY <2>0, <3>1 DEF Await
    <3>2. CASE Sleep(t)
      BY <2>0, <3>2 DEF Sleep
    <3>3. CASE Finish(t)
      BY <2>0, <3>3 DEF Finish
    <3> QED BY <1>4, <3>1, <3>2, <3>3
  <2>5. \A x \in All \ {f}, k \in Kinds, a \in Holders : Holds(k, a, x)' => Holds(k, a, x)
    BY <1>0, <2>3, <2>4 DEF Holds
  <2>6. \A k \in Kinds, a \in Holders :
          Holds(k, a, f)' => k = l /\ a = None /\ pc' = [pc EXCEPT ![f] = "suspending"]
    <3>1. \A k \in Kinds, a \in Holders : ~Holds(k, a, f)
      BY <2>2 DEF Held
    <3>2. \A k \in Kinds, a \in Holders :
            Holds(k, a, f)' => \/ Holds(k, a, f)
                               \/ /\ k = l /\ a = None
                                  /\ pc' = [pc EXCEPT ![f] = "suspending"]
      BY <1>0, <2>3, <2>4 DEF Holds
    <3> QED BY <3>1, <3>2
  <2>7. \A x \in All \ {f} : pc'[x] = pc[x]
    BY <1>0, <2>4
  <2>8. Held(f)' => Resting(f)'
    <3>1. Held(f)' => pc' = [pc EXCEPT ![f] = "suspending"]
      BY <2>6 DEF Held, Kinds, Holders, All
    <3> QED BY <1>0, <2>1, <3>1 DEF Resting
  <2>9. AtMostOne' /\ HeldRest'
    <3>1. None \in Holders /\ l \in Kinds /\ UNCHANGED current
      BY <1>0, <1>01, <2>1, <2>3, <2>4
    <3>2. \A k \in Kinds, a \in Holders : Holds(k, a, f)' => k = l /\ a = None
      BY <2>6
    <3>3. \A x \in All \ {f} : Held(x) => pc'[x] = pc[x]
      BY <2>7
    <3> QED BY <2>5, <2>8, <3>1, <3>2, <3>3, WhereMoved
  <2>10. HeldOnce' /\ AtHome'
    BY <2>3, <2>9 DEF HeldOnce, AtHome, WhereInv
  <2>11. Saved'
    BY <2>1, <2>3, <2>7, SavedKept DEF WhereInv
  <2> QED BY <2>3, <2>9, <2>10, <2>11 DEF WhereInv, NeverFatal
<1>5. ASSUME NEW t \in Threads, Reschedule(t) PROVE WhereInv'
  <2>1. runnables[t] \in Seq(All) /\ runnables[t] # <<>>
    BY <1>0, <1>5 DEF Reschedule
  <2>2. PICK h \in All : h = Head(runnables[t])
    BY <2>1
  <2>3. /\ In(runnables[t], h) /\ IsInjective(Tail(runnables[t]))
        /\ ~In(Tail(runnables[t]), h)
        /\ \A x : In(Tail(runnables[t]), x) => In(runnables[t], x)
    <3>1. IsInjective(runnables[t])
      BY DEF WhereInv, HeldOnce
    <3> QED BY <2>1, <2>2, <3>1, InTail, InjectiveTail
  <2>4. h \in Fibers \cup {t} /\ Held(h) /\ thread[h] \in {t, None}
    BY <2>3, HeldBy DEF TypeInv, Homes, WhereInv, AtHome
  <2>5. /\ runnables' = [runnables EXCEPT ![t] = Tail(@)]
        /\ UNCHANGED <<pipe, target, waiting, events>>
    BY <1>5 DEF Reschedule
  <2>6. \A u \in Threads : \A x : In(runnables'[u], x) =>
          In(runnables[u], x) /\ (u = t => x # h)
    BY <1>0, <2>3, <2>5
  <2>7. \A k \in Kinds, a \in Holders : Holds(k, a, h) => k = "queue" /\ a = t
    <3>1. Holds("queue", t, h)
      BY <2>3 DEF Holds
    <3> QED BY <1>0, <1>01, <3>1 DEF WhereInv, HeldOnce, AtMostOne
  <2>8. \A x \in All, k \in Kinds, a \in Holders : Holds(k, a, x)' => Holds(k, a, x)
    BY <2>5, <2>6 DEF Holds
  <2>9. \A k \in Kinds, a \in Holders : ~Holds(k, a, h)'
    <3>1. \A k \in Kinds, a \in Holders : Holds(k, a, h)' => ~(k = "queue" /\ a = t)
      BY <2>6 DEF Holds
    <3> QED BY <2>7, <2>8, <3>1
  <2>10. \A u \in Threads : IsInjective(runnables'[u]) /\ IsInjective(pipe'[u])
    BY <1>0, <2>3, <2>5 DEF WhereInv, HeldOnce
  <2>11. CASE h = current[t]
    <3>1. pc' = [pc EXCEPT ![h] = Continues(h)] /\ UNCHANGED <<current, saved, thread, fatal>>
      BY <1>5, <2>2, <2>11 DEF Reschedule, SameFiber
    <3>2. \A x \in All \ {h} : pc'[x] = pc[x]
      BY <1>0, <3>1
    <3>3. ~Held(h)'
      BY <2>9 DEF Held, Kinds, Holders, All
    <3>4. AtMostOne' /\ HeldRest'
      <4>1. "queue" \in Kinds /\ t \in Holders /\ UNCHANGED current
        BY <1>0, <1>01, <3>1
      <4> QED BY <2>8, <2>9, <3>2, <3>3, <4>1, WhereMoved
    <3>5. AtHome'
      BY <2>5, <2>6, <3>1 DEF WhereInv, AtHome
    <3>6. Saved'
      BY <2>11, <3>1, <3>2, SavedKept DEF WhereInv, IsCurrent
    <3> QED BY <2>10, <3>1, <3>4, <3>5, <3>6 DEF WhereInv, NeverFatal, HeldOnce
  <2>12. CASE h # current[t]
    <3>1. Resume(t, h)
      BY <1>5, <2>2, <2>12 DEF Reschedule, SameFiber
    <3>2. ~fatal' /\ AtMostOne' /\ HeldRest' /\ AtHome' /\ Saved'
      BY <2>4, <2>5, <2>8, <2>9, <2>12, <3>1, ResumeTaken
    <3> QED BY <2>10, <3>2 DEF WhereInv, NeverFatal, HeldOnce
  <2> QED BY <2>11, <2>12
<1>6. ASSUME NEW t \in Threads, Poll(t) PROVE WhereInv'
  BY <1>6
     DEF Poll, WhereInv, NeverFatal, HeldOnce, AtMostOne, HeldRest, Held, Holds, Resting,
         IsCurrent, AtHome, Saved
<1>7. ASSUME NEW t \in Threads, RunEventLoop(t) PROVE WhereInv'
  <2>1. PICK some \in SUBSET Due(t) \ {{}} :
          \E order \in [1..Cardinality(some) -> some] :
            /\ \A f \in some : \E i \in DOMAIN order : order[i] = f
            /\ runnables' = [runnables EXCEPT ![t] = @ \o order]
            /\ events' = events \ some
    BY <1>7 DEF RunEventLoop
  <2>2. PICK order \in [1..Cardinality(some) -> some] :
          /\ \A f \in some : \E i \in DOMAIN order : order[i] = f
          /\ runnables' = [runnables EXCEPT ![t] = @ \o order]
          /\ events' = events \ some
    BY <2>1
  <2>3. UNCHANGED <<pipe, target, waiting, pc, current, fatal, thread, saved>>
    BY <1>7 DEF RunEventLoop
  <2>4. some \subseteq All /\ some \subseteq events /\ \A x \in some : thread[x] = t
    BY <2>1 DEF Due, TypeInv, QueueTypes
  <2>5. IsFiniteSet(some) /\ Cardinality(some) \in Nat
    <3>1. IsFiniteSet(All)
      BY FS_Union DEF All
    <3> QED BY <2>4, <3>1, FS_Subset, FS_CardinalityType
  <2>6. order \in Seq(All) /\ DOMAIN order = 1..Cardinality(some)
    BY <2>4, <2>5
  <2>7. IsInjective(order)
    <3>1. order \in Surjection(1..Cardinality(some), some)
      BY <2>2, <2>6 DEF Surjection
    <3>2. IsFiniteSet(1..Cardinality(some))
          /\ Cardinality(1..Cardinality(some)) = Cardinality(some)
      BY <2>5, FS_Interval
    <3>3. order \in Injection(1..Cardinality(some), some)
      BY <3>1, <3>2, FS_SurjSameCardinalityImpliesInj
    <3> QED BY <3>3 DEF Injection
  <2>8. \A x : In(order, x) => x \in some
    BY <2>2 DEF In
  <2>9. \A x \in some, k \in Kinds, a \in Holders :
          Holds(k, a, x) => k = "events" /\ a = None
    <3>1. \A x \in some : Holds("events", None, x)
      BY <2>4 DEF Holds
    <3> QED BY <1>0, <1>01, <2>4, <3>1 DEF WhereInv, HeldOnce, AtMostOne
  <2>10. \A x : ~(In(runnables[t], x) /\ In(order, x))
    <3>1. SUFFICES ASSUME NEW x \in some, In(runnables[t], x) PROVE FALSE
      BY <2>8
    <3>2. Holds("queue", t, x)
      BY <3>1 DEF Holds
    <3> QED BY <1>0, <1>01, <2>9, <3>2
  <2>11. \A u \in Threads : \A x :
           In(runnables'[u], x) => In(runnables[u], x) \/ (u = t /\ x \in some)
    <3>1. \A x : In(runnables[t] \o order, x) => In(runnables[t], x) \/ In(order, x)
      <4>1. runnables[t] \in Seq(All)
        BY <1>0
      <4> QED BY <2>6, <4>1, InConcat
    <3> QED BY <1>0, <2>2, <2>8, <3>1
  <2>12. AtMostOne'
    <3>1. ASSUME NEW x \in All
          PROVE  \/ \A k \in Kinds, a \in Holders : Holds(k, a, x)' => Holds(k, a, x)
                 \/ \E m \in Kinds, c \in Holders :
                      \A k \in Kinds, a \in Holders : Holds(k, a, x)' => k = m /\ a = c
      <4>1. CASE x \notin some
        BY <2>2, <2>3, <2>11, <4>1 DEF Holds
      <4>2. CASE x \in some
        <5>1. \A k \in Kinds, a \in Holders :
                Holds(k, a, x)' => /\ k # "events"
                                   /\ Holds(k, a, x) \/ (k = "queue" /\ a = t)
          BY <2>2, <2>3, <2>11, <4>2 DEF Holds
        <5>2. \A k \in Kinds, a \in Holders : Holds(k, a, x)' => k = "queue" /\ a = t
          BY <2>9, <4>2, <5>1
        <5>3. "queue" \in Kinds /\ t \in Holders
          BY <1>0, <1>01
        <5> QED BY <5>2, <5>3
      <4> QED BY <4>1, <4>2
    <3>2. AtMostOne
      BY DEF WhereInv, HeldOnce
    <3> QED BY <3>1, <3>2, Moved
  <2>13. \A x \in All : Held(x)' => Held(x)
    <3>1. SUFFICES ASSUME NEW x \in All, NEW k \in Kinds, NEW a \in Holders,
                          Holds(k, a, x)'
                   PROVE  Held(x)
      BY DEF Held, Kinds, Holders, All
    <3>2. Holds(k, a, x) \/ x \in some
      BY <2>2, <2>3, <2>11, <3>1 DEF Holds
    <3>3. x \in some => Held(x)
      BY <2>4, HeldBy
    <3> QED BY <3>2, <3>3 DEF Held
  <2>14. HeldRest' /\ Saved'
    <3>1. \A x : Resting(x)' <=> Resting(x)
      BY <2>3 DEF Resting, IsCurrent
    <3> QED BY <2>3, <2>13, <3>1 DEF WhereInv, HeldRest, Saved, IsCurrent, All
  <2>15. HeldOnce'
    <3>1. IsInjective(runnables[t] \o order)
      <4>1. runnables[t] \in Seq(All) /\ IsInjective(runnables[t])
        BY <1>0 DEF WhereInv, HeldOnce
      <4> QED BY <2>6, <2>7, <2>10, <4>1, InjectiveConcat
    <3>2. \A u \in Threads : IsInjective(runnables'[u]) /\ IsInjective(pipe'[u])
      BY <1>0, <2>2, <2>3, <3>1 DEF WhereInv, HeldOnce
    <3> QED BY <2>12, <3>2 DEF HeldOnce
  <2>16. AtHome'
    BY <2>3, <2>4, <2>11 DEF WhereInv, AtHome
  <2> QED BY <2>3, <2>14, <2>15, <2>16 DEF WhereInv, NeverFatal
<1>8. ASSUME NEW t \in Threads, Receive(t) PROVE WhereInv'
  <2>1. current[t] = t /\ pc[t] = "receive" /\ IsCurrent(t)
    BY <1>8, AtStep DEF Receive, IsCurrent
  <2>2. ~Held(t)
    BY <2>1, RunsUnheld
  <2>3. UNCHANGED <<runnables, waiting, current, fatal, thread, saved>>
    BY <1>8 DEF Receive
  <2>4. CASE pipe[t] # <<>>
    <3>1. pipe[t] \in Seq(Fibers) /\ IsInjective(pipe[t])
      BY <1>0 DEF WhereInv, HeldOnce
    <3>2. PICK g \in Fibers : g = Head(pipe[t])
      BY <2>4, <3>1
    <3>3. /\ In(pipe[t], g) /\ IsInjective(Tail(pipe[t])) /\ ~In(Tail(pipe[t]), g)
          /\ \A x : In(Tail(pipe[t]), x) => In(pipe[t], x)
      BY <2>4, <3>1, <3>2, InTail, InjectiveTail
    <3>4. /\ target' = [target EXCEPT ![t] = g] /\ pipe' = [pipe EXCEPT ![t] = Tail(@)]
          /\ pc' = [pc EXCEPT ![t] = "wake"] /\ UNCHANGED events
      BY <1>8, <2>4, <3>2 DEF Receive
    <3>5. Held(g) /\ g # t /\ thread[g] \in {t, None}
      BY <2>2, <3>3, HeldBy DEF WhereInv, AtHome
    <3>6. \A k \in Kinds, a \in Holders : Holds(k, a, g) => k = "pipe" /\ a = t
      <4>1. Holds("pipe", t, g)
        BY <3>3 DEF Holds
      <4> QED BY <1>0, <1>01, <4>1 DEF WhereInv, HeldOnce, AtMostOne
    <3>7. \A u \in Threads : \A x :
            In(pipe'[u], x) => In(pipe[u], x) /\ (u = t => x # g)
      BY <1>0, <3>3, <3>4
    <3>8. \A x \in All \ {g}, k \in Kinds, a \in Holders :
            Holds(k, a, x)' => Holds(k, a, x)
      BY <1>0, <2>3, <3>4, <3>7 DEF Holds
    <3>9. \A k \in Kinds, a \in Holders : Holds(k, a, g)' => k = "target" /\ a = t
      <4>1. \A k \in Kinds, a \in Holders :
              Holds(k, a, g)' => /\ ~(k = "pipe" /\ a = t)
                                 /\ Holds(k, a, g) \/ (k = "target" /\ a = t)
        BY <1>0, <2>3, <3>4, <3>7 DEF Holds
      <4> QED BY <3>6, <4>1
    <3>10. \A x \in All \ {t} : pc'[x] = pc[x]
      BY <1>0, <3>4
    <3>11. Resting(g)'
      <4>1. Resting(g)
        BY <1>0, <3>5 DEF WhereInv, HeldRest
      <4> QED BY <1>0, <2>3, <3>5, <3>10, <4>1 DEF Resting, IsCurrent
    <3>12. AtMostOne' /\ HeldRest'
      <4>1. g \in All /\ t \in Holders /\ "target" \in Kinds /\ UNCHANGED current
        BY <1>0, <1>01, <2>3
      <4>2. \A x \in All \ {g} : Held(x) => pc'[x] = pc[x]
        BY <2>2, <3>10
      <4> QED BY <3>8, <3>9, <3>11, <4>1, <4>2, WhereMoved
    <3>13. HeldOnce'
      <4>1. \A u \in Threads : IsInjective(runnables'[u]) /\ IsInjective(pipe'[u])
        BY <1>0, <2>3, <3>3, <3>4 DEF WhereInv, HeldOnce
      <4> QED BY <3>12, <4>1 DEF HeldOnce
    <3>14. AtHome'
      BY <1>0, <2>3, <3>4, <3>5, <3>7 DEF WhereInv, AtHome
    <3>15. Saved'
      BY <2>1, <2>3, <3>10, SavedKept DEF WhereInv
    <3> QED BY <2>3, <3>12, <3>13, <3>14, <3>15 DEF WhereInv, NeverFatal
  <2>5. CASE pipe[t] = <<>>
    <3>1. /\ events' = events \cup {t} /\ pc' = [pc EXCEPT ![t] = "reading"]
          /\ UNCHANGED <<target, pipe>>
      BY <1>8, <2>5 DEF Receive
    <3>2. \A x \in All \ {t}, k \in Kinds, a \in Holders :
            Holds(k, a, x)' => Holds(k, a, x)
      BY <2>3, <3>1 DEF Holds
    <3>3. \A k \in Kinds, a \in Holders : Holds(k, a, t)' => k = "events" /\ a = None
      <4>1. \A k \in Kinds, a \in Holders : ~Holds(k, a, t)
        BY <2>2 DEF Held
      <4>2. \A k \in Kinds, a \in Holders :
              Holds(k, a, t)' => Holds(k, a, t) \/ (k = "events" /\ a = None)
        BY <2>3, <3>1 DEF Holds
      <4> QED BY <4>1, <4>2
    <3>4. \A x \in All \ {t} : pc'[x] = pc[x]
      BY <1>0, <3>1
    <3>5. Resting(t)'
      BY <1>0, <3>1 DEF Resting
    <3>6. AtMostOne' /\ HeldRest'
      <4>1. t \in All /\ None \in Holders /\ "events" \in Kinds /\ UNCHANGED current
        BY <1>0, <1>01, <2>3
      <4>2. \A x \in All \ {t} : Held(x) => pc'[x] = pc[x]
        BY <3>4
      <4> QED BY <3>2, <3>3, <3>5, <4>1, <4>2, WhereMoved
    <3>7. HeldOnce' /\ AtHome'
      BY <2>3, <3>1, <3>6 DEF WhereInv, HeldOnce, AtHome
    <3>8. Saved'
      BY <2>1, <2>3, <3>4, SavedKept DEF WhereInv
    <3> QED BY <2>3, <3>6, <3>7, <3>8 DEF WhereInv, NeverFatal
  <2> QED BY <2>4, <2>5
<1>9. ASSUME NEW t \in Threads, Loop(t) PROVE WhereInv'
  <2>1. current[t] = t /\ pc[t] = "loop" /\ IsCurrent(t)
    BY <1>9, AtStep DEF Loop, IsCurrent
  <2>2. ~Held(t)
    BY <2>1, RunsUnheld
  <2>3. UNCHANGED <<pipe, target, waiting, events>>
    BY <1>9 DEF Loop
  <2>4. CASE runnables[t] # <<>>
    <3>1. runnables[t] \in Seq(All) /\ IsInjective(runnables[t])
      BY <1>0 DEF WhereInv, HeldOnce
    <3>2. PICK h \in All : h = Head(runnables[t])
      BY <2>4, <3>1
    <3>3. /\ In(runnables[t], h) /\ IsInjective(Tail(runnables[t]))
          /\ ~In(Tail(runnables[t]), h) /\ Tail(runnables[t]) \in Seq(All)
          /\ \A x : In(Tail(runnables[t]), x) => In(runnables[t], x)
      BY <2>4, <3>1, <3>2, InTail, InjectiveTail
    <3>4. /\ h \in Fibers \cup {t} /\ Held(h) /\ thread[h] \in {t, None}
          /\ h # t
      BY <2>2, <3>3, HeldBy DEF TypeInv, Homes, WhereInv, AtHome
    <3>5. /\ runnables' = [runnables EXCEPT ![t] = Append(Tail(@), t)]
          /\ Resume(t, h)
      BY <1>9, <2>4, <3>2 DEF Loop
    <3>6. /\ \A x : In(Append(Tail(runnables[t]), t), x)
                     => In(Tail(runnables[t]), x) \/ x = t
          /\ IsInjective(Append(Tail(runnables[t]), t))
      <4>1. t \in All /\ ~In(Tail(runnables[t]), t)
        BY <1>0, <2>2, <3>3, HeldBy
      <4>2. PICK q \in Seq(All) : q = Tail(runnables[t])
        BY <3>3
      <4>3. t \in All /\ ~In(q, t) /\ IsInjective(q)
        BY <3>3, <4>1, <4>2
      <4>4. /\ \A x : In(Append(q, t), x) <=> In(q, x) \/ x = t
            /\ IsInjective(Append(q, t))
        BY <4>3, InAppend, InjectiveAppend
      <4> QED BY <4>2, <4>4
    <3>7. \A u \in Threads : \A x : In(runnables'[u], x) =>
            \/ In(runnables[u], x) /\ (u = t => x # h)
            \/ u = t /\ x = t
      BY <1>0, <3>3, <3>4, <3>5, <3>6
    <3>8. \A k \in Kinds, a \in Holders : Holds(k, a, h) => k = "queue" /\ a = t
      <4>1. Holds("queue", t, h)
        BY <3>3 DEF Holds
      <4> QED BY <1>0, <1>01, <4>1 DEF WhereInv, HeldOnce, AtMostOne
    <3>9. \A x \in All \ {h}, k \in Kinds, a \in Holders :
            Holds(k, a, x)' => \/ Holds(k, a, x)
                               \/ /\ x = t /\ current[t] = t /\ ~Held(t)
                                  /\ k = "queue" /\ a = t
      BY <2>1, <2>2, <2>3, <3>7 DEF Holds
    <3>10. \A k \in Kinds, a \in Holders : ~Holds(k, a, h)'
      <4>1. \A k \in Kinds, a \in Holders :
              Holds(k, a, h)' => Holds(k, a, h) /\ ~(k = "queue" /\ a = t)
        BY <2>3, <3>4, <3>7 DEF Holds
      <4> QED BY <3>8, <4>1
    <3>11. ~fatal' /\ AtMostOne' /\ HeldRest' /\ AtHome' /\ Saved'
      <4>1. h # current[t] /\ \A u \in Threads : target'[u] \in {target[u], None}
        BY <2>1, <2>3, <3>4
      <4> QED BY <3>4, <3>5, <3>9, <3>10, <4>1, ResumeTaken
    <3>12. \A u \in Threads : IsInjective(runnables'[u]) /\ IsInjective(pipe'[u])
      BY <1>0, <2>3, <3>5, <3>6 DEF WhereInv, HeldOnce
    <3> QED BY <3>11, <3>12 DEF WhereInv, NeverFatal, HeldOnce
  <2>5. CASE runnables[t] = <<>>
    <3>1. /\ pc' = [pc EXCEPT ![t] = "receive"]
          /\ UNCHANGED <<runnables, current, fatal, thread, saved>>
      BY <1>9, <2>5 DEF Loop
    <3>2. \A x \in All, k \in Kinds, a \in Holders : Holds(k, a, x)' => Holds(k, a, x)
      BY <2>3, <3>1 DEF Holds
    <3>3. \A k \in Kinds, a \in Holders : ~Holds(k, a, t)'
      BY <1>0, <2>2, <3>2 DEF Held
    <3>4. ~Held(t)'
      BY <3>3 DEF Held, Kinds, Holders, All
    <3>5. \A x \in All \ {t} : pc'[x] = pc[x]
      BY <1>0, <3>1
    <3>6. AtMostOne' /\ HeldRest'
      <4>1. t \in All /\ t \in Holders /\ "queue" \in Kinds /\ UNCHANGED current
        BY <1>0, <1>01, <3>1
      <4> QED BY <3>2, <3>3, <3>4, <3>5, <4>1, WhereMoved
    <3>7. HeldOnce' /\ AtHome'
      BY <2>3, <3>1, <3>6 DEF WhereInv, HeldOnce, AtHome
    <3>8. Saved'
      BY <2>1, <3>1, <3>5, SavedKept DEF WhereInv
    <3> QED BY <3>1, <3>6, <3>7, <3>8 DEF WhereInv, NeverFatal
  <2> QED BY <2>4, <2>5
<1>10. ASSUME NEW t \in Threads, Wake(t) PROVE WhereInv'
  <2>1. current[t] = t /\ pc[t] = "wake" /\ ~fatal /\ IsCurrent(t)
    BY <1>10, AtStep DEF Wake, IsCurrent
  <2>2. ~Held(t)
    BY <2>1, RunsUnheld
  <2>3. PICK h \in Fibers : h = target[t]
    BY <2>1 DEF TypeInv, Targets
  <2>4. Held(h) /\ h # t /\ thread[h] \in {t, None}
    <3>1. h # None
      BY <1>0, <2>3
    <3> QED BY <1>0, <2>2, <2>3, <3>1, HeldBy DEF WhereInv, AtHome
  <2>5. /\ Resume(t, h) /\ target' = [target EXCEPT ![t] = None]
        /\ runnables' = [runnables EXCEPT ![t] = Append(@, t)]
        /\ UNCHANGED <<pipe, waiting, events>>
    BY <1>10, <2>3 DEF Wake
  <2>6. /\ \A x : In(Append(runnables[t], t), x) => In(runnables[t], x) \/ x = t
        /\ IsInjective(Append(runnables[t], t))
    <3>1. /\ t \in All /\ ~In(runnables[t], t) /\ runnables[t] \in Seq(All)
          /\ IsInjective(runnables[t])
      BY <1>0, <2>2, HeldBy DEF WhereInv, HeldOnce
    <3> QED BY <3>1, InAppend, InjectiveAppend
  <2>7. \A u \in Threads : \A x : In(runnables'[u], x) =>
          In(runnables[u], x) \/ (u = t /\ x = t)
    BY <1>0, <2>5, <2>6
  <2>8. \A k \in Kinds, a \in Holders : Holds(k, a, h) => k = "target" /\ a = t
    <3>1. Holds("target", t, h)
      BY <1>0, <2>3 DEF Holds
    <3> QED BY <1>0, <1>01, <3>1 DEF WhereInv, HeldOnce, AtMostOne
  <2>9. \A x \in All \ {h}, k \in Kinds, a \in Holders :
          Holds(k, a, x)' => \/ Holds(k, a, x)
                             \/ /\ x = t /\ current[t] = t /\ ~Held(t)
                                /\ k = "queue" /\ a = t
    BY <1>0, <2>1, <2>2, <2>5, <2>7 DEF Holds
  <2>10. \A k \in Kinds, a \in Holders : ~Holds(k, a, h)'
    <3>1. \A k \in Kinds, a \in Holders :
            Holds(k, a, h)' => Holds(k, a, h) /\ ~(k = "target" /\ a = t)
      BY <1>0, <2>4, <2>5, <2>7 DEF Holds
    <3> QED BY <2>8, <3>1
  <2>11. ~fatal' /\ AtMostOne' /\ HeldRest' /\ AtHome' /\ Saved'
    <3>1. /\ h # current[t] /\ h \in Fibers \cup {t}
          /\ \A u \in Threads : target'[u] \in {target[u], None}
      BY <1>0, <2>1, <2>4, <2>5
    <3> QED BY <2>4, <2>5, <2>9, <2>10, <3>1, ResumeTaken
  <2>12. \A u \in Threads : IsInjective(runnables'[u]) /\ IsInjective(pipe'[u])
    BY <1>0, <2>5, <2>6 DEF WhereInv, HeldOnce
  <2> QED BY <2>11, <2>12 DEF WhereInv, NeverFatal, HeldOnce
<1>11. ASSUME UNCHANGED vars PROVE WhereInv'
  BY <1>11
     DEF vars, WhereInv, NeverFatal, HeldOnce, AtMostOne, HeldRest, Held, Holds, Resting,
         IsCurrent, AtHome, Saved
<1> QED
  BY <1>1, <1>2, <1>3, <1>4, <1>5, <1>6, <1>7, <1>8, <1>9, <1>10, <1>11
     DEF Next, Step

(* The process never ends with "can't resume a running fiber" or "tried to *)
(* resume a dead fiber" (scheduler.cr:123-142), for any number of threads  *)
(* and fibers, although fibers are enqueued before they saved their        *)
(* context.                                                                *)
THEOREM ResumesNeverFatal == Spec => []NeverFatal
<1>1. Init => TypeInv /\ WhereInv
  BY TypeInit, WhereInit
<1>2. TypeInv /\ WhereInv /\ [Next]_vars => (TypeInv /\ WhereInv)'
  BY TypeStep, WhereStep
<1>3. WhereInv => NeverFatal
  BY DEF WhereInv
<1> QED BY <1>1, <1>2, <1>3, PTL DEF Spec

-----------------------------------------------------------------------------
(* Every fiber that wants to run is somewhere. *)

Somewhere == \A x \in All : Resting(x) => Held(x)

(* Only a fiber that is about to enqueue or to resume another one has it   *)
(* in its hands.                                                           *)
Handed ==
  \A x \in All : target[x] # None => IsCurrent(x) /\ pc[x] \in {"enqueue", "wake"}

SomewhereInv == Somewhere /\ Handed

LEMMA HeldNext ==
  ASSUME NEW x
  PROVE  /\ \A t \in Threads : In(runnables'[t], x) \/ In(pipe'[t], x) => Held(x)'
         /\ \A g \in All : target'[g] = x => Held(x)'
         /\ x \in waiting' \cup events' => Held(x)'
<1>1. ASSUME NEW t \in Threads, In(runnables'[t], x) PROVE Held(x)'
  <2>1. Holds("queue", t, x)'
    BY <1>1 DEF Holds
  <2> QED BY <2>1 DEF Held, Kinds, Holders, All
<1>2. ASSUME NEW t \in Threads, In(pipe'[t], x) PROVE Held(x)'
  <2>1. Holds("pipe", t, x)'
    BY <1>2 DEF Holds
  <2> QED BY <2>1 DEF Held, Kinds, Holders, All
<1>3. ASSUME NEW g \in All, target'[g] = x PROVE Held(x)'
  <2>1. Holds("target", g, x)'
    BY <1>3 DEF Holds, All
  <2> QED BY <2>1 DEF Held, Kinds, Holders, All
<1>4. ASSUME x \in waiting' PROVE Held(x)'
  <2>1. Holds("waiting", None, x)'
    BY <1>4 DEF Holds
  <2> QED BY <2>1 DEF Held, Kinds, Holders, All
<1>5. ASSUME x \in events' PROVE Held(x)'
  <2>1. Holds("events", None, x)'
    BY <1>5 DEF Holds
  <2> QED BY <2>1 DEF Held, Kinds, Holders, All
<1> QED BY <1>1, <1>2, <1>3, <1>4, <1>5

LEMMA HeldKept ==
  ASSUME NEW x, Held(x),
         \A u \in Threads : In(runnables[u], x) => Held(x)',
         \A u \in Threads : In(pipe[u], x) => Held(x)',
         \A g \in All : target[g] = x => Held(x)',
         x \in waiting => Held(x)', x \in events => Held(x)'
  PROVE  Held(x)'
BY DEF Held, Holds

(* No thread is taken from its fiber: apart from f, which must be          *)
(* accounted for, whoever is held stays held.                              *)
LEMMA SomewhereKept ==
  ASSUME Somewhere, UNCHANGED current, NEW f \in All,
         \A x \in All : Held(x) => Held(x)',
         \A x \in All \ {f} : pc'[x] = pc[x] \/ Held(x)',
         Resting(f)' => Held(f)'
  PROVE  Somewhere'
<1>1. ASSUME NEW x \in All \ {f}, Resting(x)' PROVE Held(x)'
  <2>1. CASE pc'[x] = pc[x]
    <3>1. Resting(x)
      BY <1>1, <2>1 DEF Resting, IsCurrent
    <3> QED BY <1>1, <3>1 DEF Somewhere
  <2> QED BY <1>1, <2>1
<1> QED BY <1>1 DEF Somewhere, All

LEMMA HandedKept ==
  ASSUME Handed, UNCHANGED current, NEW f \in All,
         \A x \in All \ {f} : \/ target'[x] = None
                              \/ target'[x] = target[x] /\ pc'[x] = pc[x],
         target'[f] # None => IsCurrent(f) /\ pc'[f] \in {"enqueue", "wake"}
  PROVE  Handed'
<1>1. \A x : IsCurrent(x)' <=> IsCurrent(x)
  BY DEF IsCurrent
<1>2. ASSUME NEW x \in All, target'[x] # None
      PROVE  IsCurrent(x) /\ pc'[x] \in {"enqueue", "wake"}
  <2>1. CASE x = f
    BY <1>2, <2>1
  <2>2. CASE x # f
    BY <1>2, <2>2 DEF Handed
  <2> QED BY <2>1, <2>2
<1> QED BY <1>1, <1>2 DEF Handed, All

(* Another fiber gets the thread: whoever had it is accounted for.         *)
LEMMA ResumeSomewhere ==
  ASSUME TypeInv, WhereInv, SomewhereInv, NEW t \in Threads, NEW h \in Fibers \cup {t},
         NEW c \in All, c = current[t], h # c, Held(h), thread[h] \in {t, None}, Resume(t, h),
         \A x \in All \ {h} : Held(x) => Held(x)',
         pc[c] = "ended" \/ Held(c)',
         \A x \in All : target'[x] \in {target[x], None},
         target'[c] = None
  PROVE  SomewhereInv'
<1>0. h \in All
  BY DEF All
<1>1. /\ ~IsCurrent(h)
      /\ current' = [current EXCEPT ![t] = h]
      /\ pc' = [pc EXCEPT ![h] = Continues(h)]
  BY ResumeWorks
<1>2. /\ current'[t] = h /\ \A u \in Threads \ {t} : current'[u] = current[u]
      /\ pc'[h] = Continues(h) /\ \A x \in All \ {h} : pc'[x] = pc[x]
  BY <1>0, <1>1 DEF TypeInv, ContextTypes, StepTypes
<1>3. ASSUME NEW x \in All \ {c}, IsCurrent(x) PROVE IsCurrent(x)'
  <2>1. PICK u \in Threads : current[u] = x
    BY <1>3 DEF IsCurrent
  <2>2. u # t /\ current'[u] = x
    BY <1>2, <1>3, <2>1
  <2> QED BY <2>2 DEF IsCurrent
<1>4. Somewhere'
  <2>1. SUFFICES ASSUME NEW x \in All, Resting(x)' PROVE Held(x)'
    BY DEF Somewhere, All
  <2>2. x # h
    <3>1. IsCurrent(h)'
      BY <1>2 DEF IsCurrent
    <3>2. pc'[h] \notin {"suspending", "reading"}
      BY <1>0, <1>2, ContinuesTypes
    <3> QED BY <2>1, <3>1, <3>2 DEF Resting
  <2>3. CASE x = c
    BY <1>2, <2>1, <2>2, <2>3 DEF Resting
  <2>4. CASE x # c
    <3>1. Resting(x)
      BY <1>2, <1>3, <2>1, <2>2, <2>4 DEF Resting
    <3> QED BY <2>2, <3>1 DEF SomewhereInv, Somewhere
  <2> QED BY <2>3, <2>4
<1>5. Handed'
  <2>1. SUFFICES ASSUME NEW x \in All, target'[x] # None
                 PROVE  IsCurrent(x)' /\ pc'[x] \in {"enqueue", "wake"}
    BY DEF Handed, All
  <2>2. x # c /\ IsCurrent(x) /\ pc[x] \in {"enqueue", "wake"}
    BY <2>1 DEF SomewhereInv, Handed
  <2> QED BY <1>1, <1>2, <1>3, <2>2
<1> QED BY <1>4, <1>5 DEF SomewhereInv

LEMMA SomewhereInit == Init => SomewhereInv
<1> SUFFICES ASSUME Init PROVE SomewhereInv
  OBVIOUS
<1> USE SchedulerAssumption DEF All
<1>1. \A t \in Threads : current[t] = IF t = First THEN Main ELSE t
  BY DEF Init
<1>2. ASSUME NEW x \in All, Resting(x) PROVE Held(x)
  <2>1. x = Main \/ x \in Threads
    BY <1>2 DEF Resting, Init
  <2>2. x = First
    <3>1. x # First => IsCurrent(x)
      BY <1>1, <2>1 DEF IsCurrent
    <3>2. x # First => pc[x] \in {"run", "loop"}
      BY <2>1 DEF Init
    <3> QED BY <1>2, <3>1, <3>2 DEF Resting
  <2>3. runnables[First] = <<First>>
    BY DEF Init
  <2>4. In(runnables[First], First)
    BY <2>3 DEF In
  <2> QED BY <2>2, <2>4, HeldBy
<1>3. Handed
  BY DEF Init, Handed
<1> QED BY <1>2, <1>3 DEF SomewhereInv, Somewhere

LEMMA SomewhereStep ==
  TypeInv /\ TypeInv' /\ WhereInv /\ SomewhereInv /\ [Next]_vars => SomewhereInv'
<1> SUFFICES ASSUME TypeInv, TypeInv', WhereInv, SomewhereInv, [Next]_vars
             PROVE  SomewhereInv'
  OBVIOUS
<1> USE SchedulerAssumption DEF queues, context, stacks, Goto
<1>0. /\ pc \in [All -> LoopSteps \cup FiberSteps] /\ target \in [All -> Fibers \cup {None}]
      /\ Fibers \subseteq All /\ Threads \subseteq All /\ None \notin All
      /\ runnables \in [Threads -> Seq(All)] /\ pipe \in [Threads -> Seq(Fibers)]
      /\ current \in [Threads -> All]
      /\ \A u \in Threads : pc[u] \in LoopSteps
  BY DEF TypeInv, StepTypes, QueueTypes, ContextTypes, All
<1>1. ASSUME NEW t \in Threads, NEW g \in Fibers, Spawn(t, g) PROVE SomewhereInv'
  <2>0. PICK f \in All : f = current[t]
    BY <1>0
  <2>1. f \in Fibers /\ pc[f] = "run" /\ pc[g] = "unborn" /\ IsCurrent(f) /\ f # g
    BY <1>1, <2>0, AtStep DEF Spawn, Acts, IsCurrent
  <2>2. /\ target' = [target EXCEPT ![f] = g]
        /\ pc' = [pc EXCEPT ![f] = "enqueue", ![g] = "start"]
        /\ UNCHANGED <<runnables, pipe, waiting, events, current>>
    BY <1>1, <2>0 DEF Spawn
  <2>3. target[f] = None
    BY <2>1 DEF SomewhereInv, Handed
  <2>4. /\ target'[f] = g /\ \A x \in All \ {f} : target'[x] = target[x]
        /\ pc'[f] = "enqueue" /\ \A x \in All \ {f, g} : pc'[x] = pc[x]
    BY <1>0, <2>1, <2>2
  <2>5. ASSUME NEW x \in All, Held(x) PROVE Held(x)'
    <3>1. \A a \in All : target[a] = x => target'[a] = x
      BY <1>0, <2>3, <2>4
    <3> QED BY <2>2, <2>5, <3>1, HeldKept, HeldNext
  <2>6. Held(g)' /\ ~Resting(f)'
    <3>1. IsCurrent(f)'
      BY <2>1, <2>2 DEF IsCurrent
    <3> QED BY <2>4, <3>1, HeldNext DEF Resting
  <2>7. Somewhere'
    BY <2>2, <2>4, <2>5, <2>6, SomewhereKept DEF SomewhereInv
  <2>8. target[g] = None
    BY <1>0, <2>1 DEF SomewhereInv, Handed
  <2>9. Handed'
    BY <1>0, <2>1, <2>2, <2>4, <2>8, HandedKept DEF SomewhereInv
  <2> QED BY <2>7, <2>9 DEF SomewhereInv
<1>2. ASSUME NEW t \in Threads, NEW g \in Fibers, Claim(t, g) PROVE SomewhereInv'
  <2>0. PICK f \in All : f = current[t]
    BY <1>0
  <2>1. pc[f] = "run" /\ IsCurrent(f)
    BY <1>2, <2>0, AtStep DEF Claim, Acts, IsCurrent
  <2>2. /\ target' = [target EXCEPT ![f] = g] /\ pc' = [pc EXCEPT ![f] = "enqueue"]
        /\ waiting' = waiting \ {g}
        /\ UNCHANGED <<runnables, pipe, events, current>>
    BY <1>2, <2>0 DEF Claim
  <2>3. target[f] = None
    BY <2>1 DEF SomewhereInv, Handed
  <2>4. /\ target'[f] = g /\ \A x \in All \ {f} : target'[x] = target[x]
        /\ pc'[f] = "enqueue" /\ \A x \in All \ {f} : pc'[x] = pc[x]
    BY <1>0, <2>1, <2>2
  <2>5. Held(g)'
    BY <2>4, HeldNext
  <2>6. ASSUME NEW x \in All, Held(x) PROVE Held(x)'
    <3>1. \A a \in All : target[a] = x => target'[a] = x
      BY <1>0, <2>3, <2>4
    <3>2. x # g => (x \in waiting => x \in waiting')
      BY <2>2
    <3>3. CASE x = g
      BY <2>5, <3>3
    <3>4. CASE x # g
      BY <2>2, <2>6, <3>1, <3>2, <3>4, HeldKept, HeldNext
    <3> QED BY <3>3, <3>4
  <2>7. ~Resting(f)'
    <3>1. IsCurrent(f)'
      BY <2>1, <2>2 DEF IsCurrent
    <3> QED BY <2>4, <3>1 DEF Resting
  <2>8. Somewhere'
    BY <2>2, <2>4, <2>6, <2>7, SomewhereKept DEF SomewhereInv
  <2>9. Handed'
    BY <2>1, <2>2, <2>4, HandedKept DEF SomewhereInv
  <2> QED BY <2>8, <2>9 DEF SomewhereInv
<1>3. ASSUME NEW t \in Threads, Enqueue(t) PROVE SomewhereInv'
  <2>0. PICK f \in All : f = current[t]
    BY <1>0
  <2>1. f \in Fibers /\ pc[f] = "enqueue" /\ IsCurrent(f)
    BY <1>3, <2>0, AtStep DEF Enqueue, IsCurrent
  <2>2. PICK g \in Fibers : g = target[f]
    BY <2>1 DEF TypeInv, Targets
  <2>3. PICK th \in Home(t, g) :
          \/ /\ pipe' = [pipe EXCEPT ![th] = Append(@, g)]
             /\ UNCHANGED runnables
          \/ /\ runnables' = [runnables EXCEPT ![th] = Append(@, g)]
             /\ UNCHANGED pipe
    BY <1>3, <2>0, <2>2 DEF Enqueue
  <2>4. th \in Threads
    BY <1>0, <2>2, <2>3 DEF Home, TypeInv, ContextTypes
  <2>5. /\ target' = [target EXCEPT ![f] = None] /\ pc' = [pc EXCEPT ![f] = "run"]
        /\ UNCHANGED <<waiting, events, current>>
    BY <1>3, <2>0 DEF Enqueue
  <2>6. \A x : /\ In(Append(runnables[th], g), x) <=> In(runnables[th], x) \/ x = g
               /\ In(Append(pipe[th], g), x) <=> In(pipe[th], x) \/ x = g
    <3>1. runnables[th] \in Seq(All) /\ pipe[th] \in Seq(Fibers) /\ g \in All
      BY <1>0, <2>2, <2>4
    <3> QED BY <2>2, <3>1, InAppend
  <2>7. /\ \A u \in Threads : \A x : In(runnables[u], x) => In(runnables'[u], x)
        /\ \A u \in Threads : \A x : In(pipe[u], x) => In(pipe'[u], x)
        /\ In(runnables'[th], g) \/ In(pipe'[th], g)
    <3>1. CASE pipe' = [pipe EXCEPT ![th] = Append(@, g)] /\ UNCHANGED runnables
      BY <1>0, <2>4, <2>6, <3>1
    <3>2. CASE runnables' = [runnables EXCEPT ![th] = Append(@, g)] /\ UNCHANGED pipe
      BY <1>0, <2>4, <2>6, <3>2
    <3> QED BY <2>3, <3>1, <3>2
  <2>8. /\ target'[f] = None /\ \A x \in All \ {f} : target'[x] = target[x]
        /\ pc'[f] = "run" /\ \A x \in All \ {f} : pc'[x] = pc[x]
    BY <1>0, <2>1, <2>5
  <2>9. Held(g)'
    BY <2>4, <2>7, HeldNext
  <2>10. ASSUME NEW x \in All, Held(x) PROVE Held(x)'
    <3>1. x # g => \A a \in All : target[a] = x => target'[a] = x
      BY <2>2, <2>8
    <3>2. CASE x = g
      BY <2>9, <3>2
    <3>3. CASE x # g
      BY <2>5, <2>7, <2>10, <3>1, <3>3, HeldKept, HeldNext
    <3> QED BY <3>2, <3>3
  <2>11. ~Resting(f)'
    <3>1. IsCurrent(f)'
      BY <2>1, <2>5 DEF IsCurrent
    <3> QED BY <2>8, <3>1 DEF Resting
  <2>12. Somewhere'
    BY <2>5, <2>8, <2>10, <2>11, SomewhereKept DEF SomewhereInv
  <2>13. Handed'
    BY <2>5, <2>8, HandedKept DEF SomewhereInv
  <2> QED BY <2>12, <2>13 DEF SomewhereInv
<1>4. ASSUME NEW t \in Threads, Await(t) \/ Sleep(t) \/ Finish(t)
      PROVE  SomewhereInv'
  <2>0. PICK f \in All : f = current[t]
    BY <1>0
  <2>1. pc[f] = "run"
    BY <1>4, <2>0, AtStep DEF Await, Sleep, Finish, Acts
  <2>2. /\ UNCHANGED <<runnables, pipe, target, current>>
        /\ waiting \subseteq waiting' /\ events \subseteq events'
        /\ \/ pc' = [pc EXCEPT ![f] = "ended"]
           \/ pc' = [pc EXCEPT ![f] = "suspending"] /\ f \in waiting' \cup events'
    <3>1. CASE Await(t)
      BY <2>0, <3>1 DEF Await
    <3>2. CASE Sleep(t)
      BY <2>0, <3>2 DEF Sleep
    <3>3. CASE Finish(t)
      BY <2>0, <3>3 DEF Finish
    <3> QED BY <1>4, <3>1, <3>2, <3>3
  <2>3. \A x \in All \ {f} : pc'[x] = pc[x]
    BY <1>0, <2>2
  <2>4. ASSUME NEW x \in All, Held(x) PROVE Held(x)'
    <3>1. /\ x \in waiting => x \in waiting' \cup events'
          /\ x \in events => x \in waiting' \cup events'
      BY <2>2
    <3> QED BY <2>2, <2>4, <3>1, HeldKept, HeldNext
  <2>5. Resting(f)' => Held(f)'
    <3>1. pc'[f] = "ended" \/ f \in waiting' \cup events'
      BY <1>0, <2>2
    <3> QED BY <3>1, HeldNext DEF Resting
  <2>6. Somewhere'
    BY <2>2, <2>3, <2>4, <2>5, SomewhereKept DEF SomewhereInv
  <2>7. target[f] = None
    BY <2>1 DEF SomewhereInv, Handed
  <2>8. Handed'
    BY <2>2, <2>3, <2>7, HandedKept DEF SomewhereInv
  <2> QED BY <2>6, <2>8 DEF SomewhereInv
<1>5. ASSUME NEW t \in Threads, Reschedule(t) PROVE SomewhereInv'
  <2>0. PICK c \in All : c = current[t]
    BY <1>0
  <2>1. runnables[t] \in Seq(All) /\ runnables[t] # <<>>
    BY <1>0, <1>5 DEF Reschedule
  <2>2. PICK h \in All : h = Head(runnables[t])
    BY <2>1
  <2>3. /\ In(runnables[t], h)
        /\ \A x : In(runnables[t], x) /\ x # h => In(Tail(runnables[t]), x)
    BY <2>1, <2>2, InTail
  <2>4. h \in Fibers \cup {t} /\ Held(h) /\ thread[h] \in {t, None}
    BY <2>3, HeldBy DEF TypeInv, Homes, WhereInv, AtHome
  <2>5. /\ runnables' = [runnables EXCEPT ![t] = Tail(@)]
        /\ UNCHANGED <<pipe, target, waiting, events>>
    BY <1>5 DEF Reschedule
  <2>6. \A u \in Threads : \A x : In(runnables[u], x) /\ x # h => In(runnables'[u], x)
    BY <1>0, <2>3, <2>5
  <2>7. ASSUME NEW x \in All \ {h}, Held(x) PROVE Held(x)'
    BY <2>5, <2>6, <2>7, HeldKept, HeldNext
  <2>8. pc[c] \in {"suspending", "ended", "reading"} /\ IsCurrent(c)
    BY <1>5, <2>0, AtStep DEF Reschedule, InReschedule, IsCurrent
  <2>9. target[c] = None
    BY <2>8 DEF SomewhereInv, Handed
  <2>10. CASE h = c
    <3>1. pc' = [pc EXCEPT ![h] = Continues(h)] /\ UNCHANGED current
      BY <1>5, <2>0, <2>2, <2>10 DEF Reschedule, SameFiber
    <3>2. pc'[h] = Continues(h) /\ \A x \in All \ {h} : pc'[x] = pc[x]
      BY <1>0, <3>1
    <3>3. ~Resting(h)'
      <4>1. IsCurrent(h)'
        BY <2>8, <2>10, <3>1 DEF IsCurrent
      <4>2. pc'[h] \notin {"suspending", "reading"}
        BY <3>2, ContinuesTypes
      <4> QED BY <4>1, <4>2 DEF Resting
    <3>4. Somewhere'
      <4>1. ASSUME NEW x \in All, Resting(x)' PROVE Held(x)'
        <5>1. x # h
          BY <3>3, <4>1
        <5>2. Resting(x)
          BY <3>1, <3>2, <4>1, <5>1 DEF Resting, IsCurrent
        <5> QED BY <2>7, <5>1, <5>2 DEF SomewhereInv, Somewhere
      <4> QED BY <4>1 DEF Somewhere, All
    <3>5. Handed'
      BY <2>5, <2>9, <2>10, <3>1, <3>2, HandedKept DEF SomewhereInv
    <3> QED BY <3>4, <3>5 DEF SomewhereInv
  <2>11. CASE h # c
    <3>1. Resume(t, h)
      BY <1>5, <2>0, <2>2, <2>11 DEF Reschedule, SameFiber
    <3>2. pc[c] = "ended" \/ Held(c)'
      <4>1. pc[c] # "ended" => Held(c)
        BY <2>8 DEF Resting, SomewhereInv, Somewhere
      <4> QED BY <2>7, <2>11, <4>1
    <3>3. target'[c] = None /\ \A x \in All : target'[x] \in {target[x], None}
      BY <2>5, <2>9
    <3> QED BY <2>0, <2>4, <2>7, <2>11, <3>1, <3>2, <3>3, ResumeSomewhere
  <2> QED BY <2>10, <2>11
<1>6. ASSUME NEW t \in Threads, Poll(t) PROVE SomewhereInv'
  BY <1>6
     DEF Poll, SomewhereInv, Somewhere, Handed, Held, Holds, Resting, IsCurrent
<1>7. ASSUME NEW t \in Threads, RunEventLoop(t) PROVE SomewhereInv'
  <2>1. PICK some \in SUBSET Due(t) \ {{}} :
          \E order \in [1..Cardinality(some) -> some] :
            /\ \A f \in some : \E i \in DOMAIN order : order[i] = f
            /\ runnables' = [runnables EXCEPT ![t] = @ \o order]
            /\ events' = events \ some
    BY <1>7 DEF RunEventLoop
  <2>2. PICK order \in [1..Cardinality(some) -> some] :
          /\ \A f \in some : \E i \in DOMAIN order : order[i] = f
          /\ runnables' = [runnables EXCEPT ![t] = @ \o order]
          /\ events' = events \ some
    BY <2>1
  <2>3. UNCHANGED <<pipe, target, waiting, pc, current>>
    BY <1>7 DEF RunEventLoop
  <2>4. some \subseteq All
    BY <2>1 DEF Due, TypeInv, QueueTypes
  <2>5. Cardinality(some) \in Nat
    <3>1. IsFiniteSet(All)
      BY FS_Union DEF All
    <3> QED BY <2>4, <3>1, FS_Subset, FS_CardinalityType
  <2>6. order \in Seq(All)
    BY <2>4, <2>5
  <2>7. /\ \A x : In(runnables[t], x) => In(runnables'[t], x)
        /\ \A x \in some : In(runnables'[t], x)
    <3>1. runnables[t] \in Seq(All) /\ runnables'[t] = runnables[t] \o order
      BY <1>0, <2>2
    <3>2. \A x : In(runnables[t] \o order, x) <=> In(runnables[t], x) \/ In(order, x)
      BY <2>6, <3>1, InConcat
    <3>3. \A x \in some : In(order, x)
      BY <2>2 DEF In
    <3> QED BY <3>1, <3>2, <3>3
  <2>8. \A u \in Threads \ {t} : runnables'[u] = runnables[u]
    BY <1>0, <2>2
  <2>9. ASSUME NEW x \in All, Held(x) PROVE Held(x)'
    <3>1. \A u \in Threads : In(runnables[u], x) => In(runnables'[u], x)
      BY <2>7, <2>8
    <3>2. x \in events => x \in events' \/ In(runnables'[t], x)
      BY <2>2, <2>7
    <3> QED BY <2>3, <2>9, <3>1, <3>2, HeldKept, HeldNext
  <2>10. Somewhere'
    BY <2>3, <2>9 DEF SomewhereInv, Somewhere, Resting, IsCurrent, All
  <2>11. Handed'
    BY <2>3 DEF SomewhereInv, Handed, IsCurrent, All
  <2> QED BY <2>10, <2>11 DEF SomewhereInv
<1>8. ASSUME NEW t \in Threads, Receive(t) PROVE SomewhereInv'
  <2>1. current[t] = t /\ pc[t] = "receive" /\ IsCurrent(t) /\ t \in All
    BY <1>0, <1>8, AtStep DEF Receive, IsCurrent
  <2>2. target[t] = None
    BY <2>1 DEF SomewhereInv, Handed
  <2>3. UNCHANGED <<runnables, waiting, current>>
    BY <1>8 DEF Receive
  <2>4. CASE pipe[t] # <<>>
    <3>1. pipe[t] \in Seq(Fibers)
      BY <1>0
    <3>2. PICK g \in Fibers : g = Head(pipe[t])
      BY <2>4, <3>1
    <3>3. \A x : In(pipe[t], x) /\ x # g => In(Tail(pipe[t]), x)
      BY <2>4, <3>1, <3>2, InTail
    <3>4. /\ target' = [target EXCEPT ![t] = g] /\ pipe' = [pipe EXCEPT ![t] = Tail(@)]
          /\ pc' = [pc EXCEPT ![t] = "wake"] /\ UNCHANGED events
      BY <1>8, <2>4, <3>2 DEF Receive
    <3>5. /\ target'[t] = g /\ \A x \in All \ {t} : target'[x] = target[x]
          /\ pc'[t] = "wake" /\ \A x \in All \ {t} : pc'[x] = pc[x]
      BY <1>0, <2>1, <3>4
    <3>6. Held(g)'
      BY <2>1, <3>5, HeldNext
    <3>7. \A u \in Threads : \A x : In(pipe[u], x) /\ x # g => In(pipe'[u], x)
      BY <1>0, <3>3, <3>4
    <3>8. ASSUME NEW x \in All, Held(x) PROVE Held(x)'
      <4>1. \A a \in All : target[a] = x => target'[a] = x
        BY <1>0, <2>2, <3>5
      <4>2. CASE x = g
        BY <3>6, <4>2
      <4>3. CASE x # g
        BY <2>3, <3>4, <3>7, <3>8, <4>1, <4>3, HeldKept, HeldNext
      <4> QED BY <4>2, <4>3
    <3>9. ~Resting(t)'
      <4>1. IsCurrent(t)'
        BY <2>1, <2>3 DEF IsCurrent
      <4> QED BY <3>5, <4>1 DEF Resting
    <3>10. Somewhere'
      BY <2>1, <2>3, <3>5, <3>8, <3>9, SomewhereKept DEF SomewhereInv
    <3>11. Handed'
      BY <2>1, <2>3, <3>5, HandedKept DEF SomewhereInv
    <3> QED BY <3>10, <3>11 DEF SomewhereInv
  <2>5. CASE pipe[t] = <<>>
    <3>1. /\ events' = events \cup {t} /\ pc' = [pc EXCEPT ![t] = "reading"]
          /\ UNCHANGED <<target, pipe>>
      BY <1>8, <2>5 DEF Receive
    <3>2. \A x \in All \ {t} : pc'[x] = pc[x]
      BY <1>0, <3>1
    <3>3. ASSUME NEW x \in All, Held(x) PROVE Held(x)'
      <4>1. x \in events => x \in waiting' \cup events'
        BY <3>1
      <4> QED BY <2>3, <3>1, <3>3, <4>1, HeldKept, HeldNext
    <3>4. Held(t)'
      BY <3>1, HeldNext
    <3>5. Somewhere'
      BY <2>1, <2>3, <3>2, <3>3, <3>4, SomewhereKept DEF SomewhereInv
    <3>6. Handed'
      BY <2>1, <2>2, <2>3, <3>1, <3>2, HandedKept DEF SomewhereInv
    <3> QED BY <3>5, <3>6 DEF SomewhereInv
  <2> QED BY <2>4, <2>5
<1>9. ASSUME NEW t \in Threads, Loop(t) PROVE SomewhereInv'
  <2>1. current[t] = t /\ pc[t] = "loop" /\ IsCurrent(t) /\ t \in All
    BY <1>0, <1>9, AtStep DEF Loop, IsCurrent
  <2>2. ~Held(t) /\ target[t] = None
    BY <2>1, RunsUnheld DEF SomewhereInv, Handed
  <2>3. UNCHANGED <<pipe, target, waiting, events>>
    BY <1>9 DEF Loop
  <2>4. CASE runnables[t] # <<>>
    <3>1. runnables[t] \in Seq(All)
      BY <1>0
    <3>2. PICK h \in All : h = Head(runnables[t])
      BY <2>4, <3>1
    <3>3. /\ In(runnables[t], h) /\ Tail(runnables[t]) \in Seq(All)
          /\ \A x : In(runnables[t], x) /\ x # h => In(Tail(runnables[t]), x)
      BY <2>4, <3>1, <3>2, InTail
    <3>4. /\ h \in Fibers \cup {t} /\ Held(h) /\ thread[h] \in {t, None}
          /\ h # t
      BY <2>2, <3>3, HeldBy DEF TypeInv, Homes, WhereInv, AtHome
    <3>5. /\ runnables' = [runnables EXCEPT ![t] = Append(Tail(@), t)]
          /\ Resume(t, h)
      BY <1>9, <2>4, <3>2 DEF Loop
    <3>6. /\ In(runnables'[t], t)
          /\ \A x : In(runnables[t], x) /\ x # h => In(runnables'[t], x)
      <4>1. \A x : In(Append(Tail(runnables[t]), t), x)
                     <=> In(Tail(runnables[t]), x) \/ x = t
        <5>1. PICK q \in Seq(All) : q = Tail(runnables[t])
          BY <3>3
        <5>2. \A x : In(Append(q, t), x) <=> In(q, x) \/ x = t
          BY <2>1, InAppend
        <5> QED BY <5>1, <5>2
      <4> QED BY <1>0, <3>3, <3>5, <4>1
    <3>7. \A u \in Threads : \A x : In(runnables[u], x) /\ x # h => In(runnables'[u], x)
      BY <1>0, <3>5, <3>6
    <3>8. \A x \in All \ {h} : Held(x) => Held(x)'
      <4>1. ASSUME NEW x \in All \ {h}, Held(x) PROVE Held(x)'
        BY <2>3, <3>7, <4>1, HeldKept, HeldNext
      <4> QED BY <4>1
    <3>9. Held(t)'
      BY <3>6, HeldNext
    <3>10. target'[t] = None /\ \A x \in All : target'[x] \in {target[x], None}
      BY <2>2, <2>3
    <3> QED BY <2>1, <3>4, <3>5, <3>8, <3>9, <3>10, ResumeSomewhere
  <2>5. CASE runnables[t] = <<>>
    <3>1. /\ pc' = [pc EXCEPT ![t] = "receive"]
          /\ UNCHANGED <<runnables, current>>
      BY <1>9, <2>5 DEF Loop
    <3>2. pc'[t] = "receive" /\ \A x \in All \ {t} : pc'[x] = pc[x]
      BY <1>0, <2>1, <3>1
    <3>3. ASSUME NEW x \in All, Held(x) PROVE Held(x)'
      BY <2>3, <3>1, <3>3, HeldKept, HeldNext
    <3>4. ~Resting(t)'
      <4>1. IsCurrent(t)'
        BY <2>1, <3>1 DEF IsCurrent
      <4> QED BY <3>2, <4>1 DEF Resting
    <3>5. Somewhere'
      BY <2>1, <3>1, <3>2, <3>3, <3>4, SomewhereKept DEF SomewhereInv
    <3>6. Handed'
      BY <2>1, <2>2, <2>3, <3>1, <3>2, HandedKept DEF SomewhereInv
    <3> QED BY <3>5, <3>6 DEF SomewhereInv
  <2> QED BY <2>4, <2>5
<1>10. ASSUME NEW t \in Threads, Wake(t) PROVE SomewhereInv'
  <2>1. current[t] = t /\ pc[t] = "wake" /\ ~fatal /\ IsCurrent(t) /\ t \in All
    BY <1>0, <1>10, AtStep DEF Wake, IsCurrent
  <2>2. PICK h \in Fibers : h = target[t]
    BY <2>1 DEF TypeInv, Targets
  <2>3. ~Held(t)
    BY <2>1, RunsUnheld
  <2>4. Held(h) /\ h # t /\ thread[h] \in {t, None}
    <3>1. h # None
      BY <1>0, <2>2
    <3> QED BY <1>0, <2>2, <2>3, <3>1, HeldBy DEF WhereInv, AtHome
  <2>5. /\ Resume(t, h) /\ target' = [target EXCEPT ![t] = None]
        /\ runnables' = [runnables EXCEPT ![t] = Append(@, t)]
        /\ UNCHANGED <<pipe, waiting, events>>
    BY <1>10, <2>2 DEF Wake
  <2>6. /\ In(runnables'[t], t)
        /\ \A x : In(runnables[t], x) => In(runnables'[t], x)
    <3>1. runnables[t] \in Seq(All) /\ runnables'[t] = Append(runnables[t], t)
      BY <1>0, <2>5
    <3> QED BY <2>1, <3>1, InAppend
  <2>7. \A u \in Threads : \A x : In(runnables[u], x) => In(runnables'[u], x)
    BY <1>0, <2>5, <2>6
  <2>8. /\ target'[t] = None /\ \A x \in All \ {t} : target'[x] = target[x]
    BY <1>0, <2>1, <2>5
  <2>9. \A x \in All \ {h} : Held(x) => Held(x)'
    <3>1. ASSUME NEW x \in All \ {h}, Held(x) PROVE Held(x)'
      <4>1. \A a \in All : target[a] = x => target'[a] = x
        BY <2>2, <2>8, <3>1
      <4> QED BY <2>5, <2>7, <3>1, <4>1, HeldKept, HeldNext
    <3> QED BY <3>1
  <2>10. Held(t)'
    BY <2>6, HeldNext
  <2>11. \A x \in All : target'[x] \in {target[x], None}
    BY <2>8
  <2> QED BY <2>1, <2>4, <2>5, <2>8, <2>9, <2>10, <2>11, ResumeSomewhere
<1>11. ASSUME UNCHANGED vars PROVE SomewhereInv'
  BY <1>11
     DEF vars, SomewhereInv, Somewhere, Handed, Held, Holds, Resting, IsCurrent
<1> QED
  BY <1>1, <1>2, <1>3, <1>4, <1>5, <1>6, <1>7, <1>8, <1>9, <1>10, <1>11
     DEF Next, Step

-----------------------------------------------------------------------------
(* The places of a fiber, counted. *)

LEMMA PlacesOf ==
  ASSUME NEW f, NEW p \in Places(f)
  PROVE  \/ \E t \in Threads : \E i \in DOMAIN Queued(t) :
              Queued(t)[i] = f /\ p = <<t, i>>
         \/ \E g \in All : target[g] = f /\ p = <<g, 0>>
         \/ f \in waiting /\ p = <<"waiting", f>>
         \/ f \in events /\ p = <<"events", f>>
<1>1. CASE p \in Slots(f)
  <2>1. PICK t \in Threads : p \in {t} \X {i \in DOMAIN Queued(t) : Queued(t)[i] = f}
    BY <1>1 DEF Slots
  <2>2. PICK i \in DOMAIN Queued(t) : Queued(t)[i] = f /\ p = <<t, i>>
    BY <2>1
  <2> QED BY <2>2
<1>2. CASE p \in Hands(f)
  BY <1>2 DEF Hands
<1>3. CASE p \in {"waiting"} \X (waiting \cap {f})
  BY <1>3
<1>4. CASE p \in {"events"} \X (events \cap {f})
  BY <1>4
<1> QED BY <1>1, <1>2, <1>3, <1>4 DEF Places

LEMMA SomePlace ==
  ASSUME TypeInv, NEW f \in All, Held(f)
  PROVE  Places(f) # {}
<1>0. PICK k \in Kinds, a \in Holders : Holds(k, a, f)
  BY DEF Held
<1>1. ASSUME a \in Threads, In(runnables[a], f) \/ In(pipe[a], f)
      PROVE  Places(f) # {}
  <2>1. In(Queued(a), f)
    <3>1. runnables[a] \in Seq(All) /\ pipe[a] \in Seq(All)
      BY <1>1 DEF TypeInv, QueueTypes, All
    <3> QED BY <1>1, <3>1, InConcat DEF Queued
  <2>2. PICK i \in DOMAIN Queued(a) : Queued(a)[i] = f
    BY <2>1 DEF In
  <2>3. <<a, i>> \in {a} \X {j \in DOMAIN Queued(a) : Queued(a)[j] = f}
    BY <2>2
  <2>4. <<a, i>> \in Slots(f)
    BY <1>1, <2>3 DEF Slots
  <2> QED BY <2>4 DEF Places
<1>2. ASSUME a \in All, target[a] = f PROVE Places(f) # {}
  <2>1. <<a, 0>> \in Hands(f)
    BY <1>2 DEF Hands
  <2> QED BY <2>1 DEF Places
<1>3. ASSUME f \in waiting PROVE Places(f) # {}
  <2>1. <<"waiting", f>> \in {"waiting"} \X (waiting \cap {f})
    BY <1>3
  <2> QED BY <2>1 DEF Places
<1>4. ASSUME f \in events PROVE Places(f) # {}
  <2>1. <<"events", f>> \in {"events"} \X (events \cap {f})
    BY <1>4
  <2> QED BY <2>1 DEF Places
<1> QED BY <1>0, <1>1, <1>2, <1>3, <1>4 DEF Holds

LEMMA QueuedOnce ==
  ASSUME TypeInv, WhereInv, NEW t \in Threads
  PROVE  IsInjective(Queued(t)) /\ \A x : In(Queued(t), x) <=>
           In(runnables[t], x) \/ In(pipe[t], x)
<1>1. runnables[t] \in Seq(All) /\ pipe[t] \in Seq(All)
  BY DEF TypeInv, QueueTypes, All
<1>2. IsInjective(runnables[t]) /\ IsInjective(pipe[t])
  BY DEF WhereInv, HeldOnce
<1>3. \A x : ~(In(runnables[t], x) /\ In(pipe[t], x))
  <2>1. SUFFICES ASSUME NEW x, In(runnables[t], x), In(pipe[t], x) PROVE FALSE
    OBVIOUS
  <2>2. x \in All /\ Holds("queue", t, x) /\ Holds("pipe", t, x)
    BY <1>1, <2>1 DEF Holds, In
  <2>3. "queue" \in Kinds /\ "pipe" \in Kinds /\ t \in Holders
    BY DEF Kinds, Holders, All
  <2> QED BY <2>2, <2>3 DEF WhereInv, HeldOnce, AtMostOne
<1>4. IsInjective(Queued(t))
  BY <1>1, <1>2, <1>3, InjectiveConcat DEF Queued
<1> QED BY <1>1, <1>4, InConcat DEF Queued

(* A place and who holds the fiber there. *)
HolderAt(p, k, a, f) ==
  \/ k \in {"queue", "pipe"} /\ \E i \in Nat : i > 0 /\ p = <<a, i>>
  \/ k = "target" /\ p = <<a, 0>>
  \/ k = "waiting" /\ p = <<"waiting", f>>
  \/ k = "events" /\ p = <<"events", f>>

LEMMA PlaceHeld ==
  ASSUME TypeInv, WhereInv, NEW f \in All, NEW p \in Places(f)
  PROVE  \E k \in Kinds, a \in Holders : Holds(k, a, f) /\ HolderAt(p, k, a, f)
<1> USE DEF Kinds, Holders, All
<1>1. ASSUME NEW t \in Threads, NEW i \in DOMAIN Queued(t), Queued(t)[i] = f,
             p = <<t, i>>
      PROVE  \E k \in {"queue", "pipe"} : Holds(k, t, f) /\ HolderAt(p, k, t, f)
  <2>1. i \in Nat /\ i > 0
    <3>1. runnables[t] \in Seq(All) /\ pipe[t] \in Seq(All)
      BY DEF TypeInv, QueueTypes
    <3>2. Queued(t) \in Seq(All)
      BY <3>1 DEF Queued
    <3> QED BY <1>1, <3>2
  <2>2. In(Queued(t), f)
    BY <1>1 DEF In
  <2>3. In(runnables[t], f) \/ In(pipe[t], f)
    BY <2>2, QueuedOnce
  <2> QED BY <1>1, <2>1, <2>3 DEF Holds, HolderAt
<1>2. ASSUME NEW g \in All, target[g] = f, p = <<g, 0>>
      PROVE  Holds("target", g, f) /\ HolderAt(p, "target", g, f)
  BY <1>2 DEF Holds, HolderAt
<1>3. ASSUME f \in waiting, p = <<"waiting", f>>
      PROVE  Holds("waiting", None, f) /\ HolderAt(p, "waiting", None, f)
  BY <1>3 DEF Holds, HolderAt
<1>4. ASSUME f \in events, p = <<"events", f>>
      PROVE  Holds("events", None, f) /\ HolderAt(p, "events", None, f)
  BY <1>4 DEF Holds, HolderAt
<1>5. CASE \E t \in Threads : \E i \in DOMAIN Queued(t) : Queued(t)[i] = f /\ p = <<t, i>>
  BY <1>1, <1>5
<1>6. CASE \E g \in All : target[g] = f /\ p = <<g, 0>>
  BY <1>2, <1>6
<1>7. CASE f \in waiting /\ p = <<"waiting", f>>
  BY <1>3, <1>7
<1>8. CASE f \in events /\ p = <<"events", f>>
  BY <1>4, <1>8
<1> QED BY <1>5, <1>6, <1>7, <1>8, PlacesOf

LEMMA OnePlace ==
  ASSUME TypeInv, WhereInv, NEW f \in All, NEW p \in Places(f), NEW q \in Places(f)
  PROVE  p = q
<1>1. PICK k \in Kinds, a \in Holders : Holds(k, a, f) /\ HolderAt(p, k, a, f)
  BY PlaceHeld
<1>2. PICK l \in Kinds, b \in Holders : Holds(l, b, f) /\ HolderAt(q, l, b, f)
  BY PlaceHeld
<1>3. k = l /\ a = b
  BY <1>1, <1>2 DEF WhereInv, HeldOnce, AtMostOne
<1>4. CASE k \in {"target", "waiting", "events"}
  BY <1>1, <1>2, <1>3, <1>4 DEF HolderAt
<1>5. CASE k \in {"queue", "pipe"}
  <2>1. PICK i \in Nat : i > 0 /\ p = <<a, i>>
    BY <1>1, <1>5 DEF HolderAt
  <2>2. PICK j \in Nat : j > 0 /\ q = <<a, j>>
    BY <1>2, <1>3, <1>5 DEF HolderAt
  <2>3. a \in Threads
    BY <1>1, <1>5 DEF Holds
  <2>4. f \notin waiting /\ f \notin events
    <3>1. /\ f \in waiting => Holds("waiting", None, f)
          /\ f \in events => Holds("events", None, f)
      BY DEF Holds
    <3>2. {"waiting", "events"} \subseteq Kinds /\ None \in Holders
      BY DEF Kinds, Holders
    <3> QED BY <1>1, <1>5, <3>1, <3>2 DEF WhereInv, HeldOnce, AtMostOne
  <2>5. i \in DOMAIN Queued(a) /\ Queued(a)[i] = f
    BY <2>1, <2>4, PlacesOf
  <2>6. j \in DOMAIN Queued(a) /\ Queued(a)[j] = f
    BY <2>2, <2>4, PlacesOf
  <2>7. i = j
    BY <2>3, <2>5, <2>6, QueuedOnce DEF IsInjective
  <2> QED BY <2>1, <2>2, <2>7
<1> QED BY <1>4, <1>5 DEF Kinds

(* Every fiber that wants to run - it is new, or it waits, or it is about  *)
(* to - is in exactly one queue, pipe, wait list or event, and no other    *)
(* fiber is in any (scheduler.cr: enqueue, send_fiber, reschedule,         *)
(* run_loop; the event loop): none is lost or doubled between two threads. *)
THEOREM EveryFiberAccountedFor == Spec => []AccountedFor
<1>1. Init => TypeInv /\ WhereInv /\ SomewhereInv
  BY TypeInit, WhereInit, SomewhereInit
<1>2. TypeInv /\ WhereInv /\ SomewhereInv /\ [Next]_vars
        => (TypeInv /\ WhereInv /\ SomewhereInv)'
  BY TypeStep, WhereStep, SomewhereStep
<1>3. TypeInv /\ WhereInv /\ SomewhereInv => AccountedFor
  <2>1. SUFFICES ASSUME TypeInv, WhereInv, SomewhereInv, NEW f \in All
                 PROVE  Cardinality(Places(f)) = IF Resting(f) THEN 1 ELSE 0
    BY DEF AccountedFor, Resting
  <2>2. Held(f) <=> Resting(f)
    BY <2>1 DEF WhereInv, HeldRest, SomewhereInv, Somewhere
  <2>3. CASE Resting(f)
    <3>1. PICK p : p \in Places(f)
      BY <2>1, <2>2, <2>3, SomePlace
    <3>2. Places(f) = {p}
      BY <2>1, <3>1, OnePlace
    <3> QED BY <2>3, <3>2, FS_Singleton
  <2>4. CASE ~Resting(f)
    <3>1. Places(f) = {}
      BY <2>1, <2>2, <2>4, PlaceHeld DEF Held
    <3> QED BY <2>4, <3>1, FS_EmptySet
  <2> QED BY <2>3, <2>4
<1> QED BY <1>1, <1>2, <1>3, PTL DEF Spec
=============================================================================
