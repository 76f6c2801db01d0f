------------------------------ MODULE Scheduler ------------------------------
(***************************************************************************)
(* The fiber scheduler of src/src/crystal/scheduler.cr in the multi-thread *)
(* build (preview_mt): one scheduler per thread, with a queue of runnable  *)
(* fibers, an event loop, and a pipe (fiber_channel.cr) through which      *)
(* other threads hand it fibers while its worker loop sleeps.  A fiber     *)
(* runs on the thread that first resumed it and gives it up only by itself.*)
(* A thread inside its event loop does not look at its queue.              *)
(*                                                                         *)
(* Threads act in parallel.  Each section under a scheduler's spin lock is *)
(* one step.  The fiber that runs a thread's run_loop has the name of the  *)
(* thread.  The pipe is never full (it holds more fibers than there are),  *)
(* and a stack has the name of the fiber it was allocated for.             *)
(***************************************************************************)
EXTENDS Naturals, Sequences, FiniteSets

CONSTANTS
  Threads,     \* the worker threads, and their run_loop fibers
  Fibers,      \* the other fibers
  Main,        \* the main fiber, of thread First
  First,
  None,        \* nil
  MaxSteps     \* bound: what each fiber does before it ends

ASSUME SchedulerAssumption ==
  /\ First \in Threads /\ Main \in Fibers
  /\ Threads \cap Fibers = {} /\ None \notin Threads \cup Fibers
  /\ IsFiniteSet(Threads) /\ IsFiniteSet(Fibers)
  /\ MaxSteps \in Nat

VARIABLES
  runnables,   \* @runnables of each scheduler
  sleeping,    \* @sleeping
  pipe,        \* the fibers in its fiber_channel
  current,     \* @current
  freeStacks,  \* @free_stacks
  thread,      \* thread[f]: @current_thread of the fiber
  pc,          \* the step of each fiber
  saved,       \* saved[f]: @context.resumable
  target,      \* the fiber that f is about to enqueue or to resume
  waiting,     \* fibers that wait for another one to enqueue them
  events,      \* fibers that wait for an event: a timer, or the pipe
  polling,     \* is the thread inside run_once of its event loop?
  stack,       \* stack[f]: @stack
  pool,        \* Fiber.stack_pool
  fatal,       \* has fatal_resume_error ended the process?
  steps        \* steps[f]: what f did so far

queues == <<runnables, sleeping, pipe, polling>>
context == <<current, thread, saved, fatal>>
stacks == <<stack, pool, freeStacks>>
vars == <<queues, context, stacks, pc, target, waiting, events, steps>>

All == Fibers \cup Threads

(* After init_workers: the main fiber runs on the first thread, where the  *)
(* worker loop is queued; the other threads enter theirs.                  *)
Init ==
  /\ runnables = [t \in Threads |-> IF t = First THEN <<t>> ELSE <<>>]
  /\ sleeping = [t \in Threads |-> FALSE]
  /\ pipe = [t \in Threads |-> <<>>]
  /\ polling = [t \in Threads |-> FALSE]
  /\ current = [t \in Threads |-> IF t = First THEN Main ELSE t]
  /\ freeStacks = [t \in Threads |-> {}]
  /\ thread = [f \in All |-> IF f = Main THEN First
                             ELSE IF f \in Threads \ {First} THEN f ELSE None]
  /\ pc = [f \in All |-> CASE f = Main -> "run"
                           [] f = First -> "start"
                           [] f \in Threads \ {First} -> "loop"
                           [] OTHER -> "unborn"]
  /\ saved = [f \in All |-> f = First]
  /\ target = [f \in All |-> None]
  /\ waiting = {} /\ events = {}
  /\ stack = [f \in Fibers |-> IF f = Main THEN Main ELSE None]
  /\ pool = {}
  /\ fatal = FALSE
  /\ steps = [f \in Fibers |-> 0]

At(t, step) == ~fatal /\ ~polling[t] /\ pc[current[t]] = step
Goto(f, step) == pc' = [pc EXCEPT ![f] = step]

-----------------------------------------------------------------------------
(* What the code of a fiber asks of the scheduler *)

Acts(t) ==
  LET f == current[t]
  IN  /\ At(t, "run") /\ steps[f] < MaxSteps
      /\ steps' = [steps EXCEPT ![f] = @ + 1]

(* The stacks that a new fiber may get: one from the pool, or a new one.   *)
Checkout(g) == IF pool = {} THEN {g} ELSE pool

(* spawn: with same_thread the fiber already belongs to this thread.  Then *)
(* it is enqueued.                                                         *)
Spawn(t, g) ==
  /\ Acts(t) /\ pc[g] = "unborn"
  /\ \E s \in Checkout(g) :
       /\ stack' = [stack EXCEPT ![g] = s]
       /\ pool' = pool \ {s}
  /\ \E home \in {None, t} : thread' = [thread EXCEPT ![g] = home]
  /\ saved' = [saved EXCEPT ![g] = TRUE]
  /\ target' = [target EXCEPT ![current[t]] = g]
  /\ pc' = [pc EXCEPT ![current[t]] = "enqueue", ![g] = "start"]
  /\ UNCHANGED <<queues, current, fatal, freeStacks, waiting, events>>

(* A fiber that another one waits for (a channel, a mutex) wakes it, once. *)
Claim(t, g) ==
  /\ Acts(t) /\ g \in waiting
  /\ waiting' = waiting \ {g}
  /\ target' = [target EXCEPT ![current[t]] = g]
  /\ Goto(current[t], "enqueue")
  /\ UNCHANGED <<queues, context, stacks, events>>

(* The thread a fiber belongs to, or any one for a new fiber (the round    *)
(* robin of find_target_thread).                                           *)
Home(t, g) == IF thread[g] = None THEN Threads ELSE {thread[g]}

(* Faulty variant of Enqueue: the pipe is never used. *)
EnqueueUnpiped(t) ==
  /\ At(t, "enqueue")
  /\ LET g == target[current[t]]
     IN  \E th \in Home(t, g) :
           runnables' = [runnables EXCEPT ![th] = Append(@, g)]
  /\ target' = [target EXCEPT ![current[t]] = None]
  /\ Goto(current[t], "run")
  /\ UNCHANGED <<sleeping, pipe, polling, context, stacks, waiting, events,
                 steps>>

(* Scheduler.enqueue: this thread's own queue; else send_fiber, through    *)
(* the pipe when the other scheduler sleeps.                               *)
Enqueue(t) ==
  /\ At(t, "enqueue")
  /\ LET g == target[current[t]]
     IN  \E th \in Home(t, g) :
           IF th # t /\ sleeping[th]
             THEN /\ pipe' = [pipe EXCEPT ![th] = Append(@, g)]
                  /\ UNCHANGED runnables
             ELSE /\ runnables' = [runnables EXCEPT ![th] = Append(@, g)]
                  /\ UNCHANGED pipe
  /\ target' = [target EXCEPT ![current[t]] = None]
  /\ Goto(current[t], "run")
  /\ UNCHANGED <<sleeping, polling, context, stacks, waiting, events, steps>>

(* The fiber makes itself known to whoever will wake it, and reschedules:  *)
(* it may be enqueued before it has given up the thread.  The main fiber   *)
(* may always do that, since it does not end.                              *)
Await(t) ==
  /\ Acts(t) \/ (At(t, "run") /\ current[t] = Main /\ UNCHANGED steps)
  /\ waiting' = waiting \cup {current[t]}
  /\ Goto(current[t], "suspending")
  /\ UNCHANGED <<queues, context, stacks, target, events>>

(* sleep and yield: a timer, then reschedule. *)
Sleep(t) ==
  /\ Acts(t)
  /\ events' = events \cup {current[t]}
  /\ Goto(current[t], "suspending")
  /\ UNCHANGED <<queues, context, stacks, target, waiting>>

(* Faulty variant of Finish: the stack goes to the pool at once. *)
FinishPooled(t) ==
  /\ At(t, "run") /\ current[t] # Main
  /\ pool' = pool \cup {stack[current[t]]}
  /\ Goto(current[t], "ended")
  /\ UNCHANGED <<queues, context, stack, freeStacks, target, waiting, events,
                 steps>>

(* The end of Fiber#run: the stack is left to the thread, which still runs *)
(* on it.                                                                  *)
Finish(t) ==
  /\ At(t, "run") /\ current[t] # Main
  /\ freeStacks' = [freeStacks EXCEPT ![t] = @ \cup {stack[current[t]]}]
  /\ Goto(current[t], "ended")
  /\ UNCHANGED <<queues, context, stack, pool, target, waiting, events, steps>>

-----------------------------------------------------------------------------
(* Where a fiber goes on when it gets the thread: the worker loop in its   *)
(* loop or after the wait in receive, any other fiber in its own code.     *)
Continues(h) ==
  IF h \in Threads THEN IF pc[h] = "reading" THEN "receive" ELSE "loop"
  ELSE IF pc[h] = "ended" THEN "ended"
  ELSE "run"

(* release_free_stacks, after the loop of reschedule. *)
ReleaseStacks(t, h) ==
  IF pc[h] \in {"suspending", "reading"}
    THEN /\ pool' = pool \cup freeStacks[t]
         /\ freeStacks' = [freeStacks EXCEPT ![t] = {}]
    ELSE UNCHANGED <<pool, freeStacks>>

(* resume: h must have saved its context and not be dead, or the process   *)
(* ends; then the contexts are swapped.                                    *)
Resume(t, h) ==
  IF saved[h] /\ pc[h] # "ended"
    THEN /\ current' = [current EXCEPT ![t] = h]
         /\ saved' = [saved EXCEPT ![current[t]] = TRUE, ![h] = FALSE]
         /\ thread' = [thread EXCEPT ![h] = t]
         /\ Goto(h, Continues(h))
         /\ ReleaseStacks(t, h)
         /\ UNCHANGED fatal
    ELSE /\ fatal' = TRUE
         /\ UNCHANGED <<current, saved, thread, pc, pool, freeStacks>>

InReschedule(t) == \E step \in {"suspending", "ended", "reading"} : At(t, step)

(* Faulty variant of SameFiber: the fiber found is always resumed. *)
SameFiberResumed(t, h) == FALSE
SameFiber(t, h) == h = current[t]

(* reschedule, with a fiber to run: another one, or the very fiber that    *)
(* gives up the thread, woken in the meantime.                             *)
Reschedule(t) ==
  /\ InReschedule(t) /\ runnables[t] # <<>>
  /\ LET h == Head(runnables[t])
     IN  IF SameFiber(t, h)
           THEN /\ Goto(h, Continues(h))
                /\ ReleaseStacks(t, h)
                /\ UNCHANGED context
           ELSE Resume(t, h)
  /\ runnables' = [runnables EXCEPT ![t] = Tail(@)]
  /\ UNCHANGED <<sleeping, pipe, polling, stack, target, waiting, events,
                 steps>>

(* reschedule, with nothing to run: the thread enters its event loop, where *)
(* it does not look at its queue.                                          *)
Poll(t) ==
  /\ InReschedule(t) /\ runnables[t] = <<>>
  /\ polling' = [polling EXCEPT ![t] = TRUE]
  /\ UNCHANGED <<runnables, sleeping, pipe, context, stacks, pc, target,
                 waiting, events, steps>>

(* What happened to the events of the thread: timers, and a readable pipe. *)
Due(t) == {f \in events : thread[f] = t /\ (f = t => pipe[t] # <<>>)}

(* run_once reports some events, and their fibers are enqueued. *)
RunEventLoop(t) ==
  /\ ~fatal /\ polling[t]
  /\ \E some \in SUBSET Due(t) \ {{}} :
       \E order \in [1..Cardinality(some) -> some] :
         /\ \A f \in some : \E i \in DOMAIN order : order[i] = f
         /\ runnables' = [runnables EXCEPT ![t] = @ \o order]
         /\ events' = events \ some
  /\ polling' = [polling EXCEPT ![t] = FALSE]
  /\ UNCHANGED <<sleeping, pipe, context, stacks, pc, target, waiting, steps>>

(* Faulty variant of Loop: @sleeping is not set. *)
LoopAwake(t) ==
  /\ At(t, "loop")
  /\ IF runnables[t] # <<>>
       THEN /\ runnables' = [runnables EXCEPT ![t] = Append(Tail(@), t)]
            /\ Resume(t, Head(runnables[t]))
       ELSE /\ Goto(t, "receive")
            /\ UNCHANGED <<runnables, context, pool, freeStacks>>
  /\ UNCHANGED <<sleeping, pipe, polling, stack, target, waiting, events,
                 steps>>

(* run_loop: resume the next fiber, with the loop itself queued behind;    *)
(* with none left, go to sleep.                                            *)
Loop(t) ==
  /\ At(t, "loop")
  /\ IF runnables[t] # <<>>
       THEN /\ runnables' = [runnables EXCEPT ![t] = Append(Tail(@), t)]
            /\ Resume(t, Head(runnables[t]))
            /\ UNCHANGED sleeping
       ELSE /\ sleeping' = [sleeping EXCEPT ![t] = TRUE]
            /\ Goto(t, "receive")
            /\ UNCHANGED <<runnables, context, pool, freeStacks>>
  /\ UNCHANGED <<pipe, polling, stack, target, waiting, events, steps>>

(* fiber_channel.receive: a fiber from the pipe, or wait until the pipe is *)
(* readable, which may take other fibers of the thread to run.             *)
Receive(t) ==
  /\ At(t, "receive")
  /\ IF pipe[t] # <<>>
       THEN /\ target' = [target EXCEPT ![t] = Head(pipe[t])]
            /\ pipe' = [pipe EXCEPT ![t] = Tail(@)]
            /\ Goto(t, "wake")
            /\ UNCHANGED events
       ELSE /\ events' = events \cup {t}
            /\ Goto(t, "reading")
            /\ UNCHANGED <<target, pipe>>
  /\ UNCHANGED <<runnables, sleeping, polling, context, stacks, waiting,
                 steps>>

(* Faulty variant of Wake: the worker loop does not queue itself. *)
WakeUnqueued(t) ==
  /\ At(t, "wake")
  /\ sleeping' = [sleeping EXCEPT ![t] = FALSE]
  /\ Resume(t, target[t])
  /\ target' = [target EXCEPT ![t] = None]
  /\ UNCHANGED <<runnables, pipe, polling, stack, waiting, events, steps>>

(* Awake again: the worker loop queues itself and resumes the fiber.       *)
Wake(t) ==
  /\ At(t, "wake")
  /\ sleeping' = [sleeping EXCEPT ![t] = FALSE]
  /\ runnables' = [runnables EXCEPT ![t] = Append(@, t)]
  /\ Resume(t, target[t])
  /\ target' = [target EXCEPT ![t] = None]
  /\ UNCHANGED <<pipe, polling, stack, waiting, events, steps>>

-----------------------------------------------------------------------------
Step(t) ==
  \/ \E g \in Fibers : Spawn(t, g) \/ Claim(t, g)
  \/ Enqueue(t) \/ Await(t) \/ Sleep(t) \/ Finish(t)
  \/ Reschedule(t) \/ Poll(t) \/ RunEventLoop(t)
  \/ Loop(t) \/ Receive(t) \/ Wake(t)

Next == \E t \in Threads : Step(t)

Spec == Init /\ [][Next]_vars

(* The operating system runs every thread, timers elapse, and no fiber     *)
(* keeps its thread forever.                                               *)
FairSpec == Spec /\ \A t \in Threads : WF_vars(Step(t))

-----------------------------------------------------------------------------
(* "FATAL: can't resume a running fiber" and "FATAL: tried to resume a     *)
(* dead fiber" never end the process, although a fiber may be enqueued by  *)
(* another thread before it has saved its context.                         *)
NeverFatal == ~fatal

Queued(t) == runnables[t] \o pipe[t]

(* Where somebody will find f to run it: a queue, a fiber that has just    *)
(* taken f from one, the wait list of a channel or mutex, or an event.     *)
Slots(f) == UNION {{t} \X {i \in DOMAIN Queued(t) : Queued(t)[i] = f} : t \in Threads}
Hands(f) == {g \in All : target[g] = f} \X {0}
Places(f) == Slots(f) \cup Hands(f) \cup {"waiting"} \X (waiting \cap {f})
               \cup {"events"} \X (events \cap {f})

IsCurrent(f) == \E t \in Threads : current[t] = f

(* Every fiber that wants to run again is in exactly one place from where  *)
(* it will be run, and no other fiber is in any: none is lost between two  *)
(* threads, none is queued twice, none that ended or runs is queued.       *)
AccountedFor ==
  ~fatal => \A f \in All :
    Cardinality(Places(f)) =
      IF \/ pc[f] \in {"unborn", "ended"}
         \/ IsCurrent(f) /\ pc[f] \notin {"suspending", "reading"}
        THEN 0 ELSE 1

(* A thread that is in its event loop, where it does not see its queue, is *)
(* marked sleeping and listens to its pipe: whatever another thread sends  *)
(* it wakes it up.                                                         *)
SleepersListen ==
  \A t \in Threads :
    polling[t] => sleeping[t] /\ pc[t] = "reading" /\ t \in events

(* A stack belongs to one fiber until that fiber has ended and its thread  *)
(* runs another one: until then no new fiber gets it from the pool.        *)
NoSharedStack ==
  LET uses == {f \in Fibers : /\ pc[f] # "unborn"
                              /\ pc[f] = "ended" => IsCurrent(f)}
  IN  \A f \in uses : /\ stack[f] \notin pool
                      /\ \A g \in uses : stack[f] = stack[g] => f = g

(* A fiber that is enqueued runs, whichever thread enqueues it and whether *)
(* or not its own thread sleeps.                                           *)
EnqueuedRuns ==
  \A f \in Fibers :
    (\E t \in Threads : \E i \in DOMAIN Queued(t) : Queued(t)[i] = f)
      ~> (IsCurrent(f) /\ pc[f] = "run")
=============================================================================
