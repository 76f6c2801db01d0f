------------------------------- MODULE Channel -------------------------------
(***************************************************************************)
(* Channel(T) of src/src/channel.cr: send, receive, receive?, close, and   *)
(* select with and without else, by fibers on parallel threads.            *)
(*                                                                         *)
(* A call locks the channels it names, in the order of their object ids,   *)
(* and tries its arms in turn.  When none can proceed it pushes one node   *)
(* per arm on the list of waiting senders or receivers, unlocks and        *)
(* suspends.  Whoever takes a node off a list delivers to it and enqueues  *)
(* its fiber; the nodes of one select share a context, and only the one    *)
(* whose compare-and-set wins may do that.  The others stay behind as dead *)
(* nodes until a dequeue skips them or the select takes them back.         *)
(*                                                                         *)
(* The value sent is the identity of the call that sends it.  The variant  *)
(* receive? differs from receive in what it makes of the outcome "closed"  *)
(* (nil, where receive raises), which is the caller's business.            *)
(***************************************************************************)
EXTENDS Naturals, FiniteSets, SequencesExt

CONSTANTS
  Fibers,
  None,
  Channels,     \* the channels, each named by its object_id
  Capacity,     \* Capacity[c]: @capacity of channel c
  Calls,        \* the calls the fibers may make
  MaxCalls      \* bound: calls made by each fiber

Arm == [op : {"send", "receive", "close"}, channel : Channels]
         \cup [op : {"timeout"}, channel : {None}]

(* plain: send, receive, receive?; poll: a select with an else branch. *)
Call == [form : {"plain", "select", "poll", "close"}, arms : Seq(Arm)]

ASSUME ChannelAssumption ==
  /\ Channels \subseteq Nat
  /\ None \notin Fibers /\ None \notin Channels /\ None \notin Calls
  /\ Capacity \in [Channels -> Nat]
  /\ MaxCalls \in Nat
  /\ Calls \subseteq Call
  /\ \A c \in Calls :
       /\ Len(c.arms) > 0
       /\ c.form = "close" <=> \E i \in DOMAIN c.arms : c.arms[i].op = "close"
       /\ c.form \in {"plain", "close"} => Len(c.arms) = 1
       /\ c.form = "plain" => c.arms[1].op # "timeout"

VARIABLES
  closed,       \* @closed of each channel
  queue,        \* @queue of each channel, empty when its capacity is 0
  senders,      \* @senders: the nodes of waiting senders
  receivers,    \* @receivers
  lock,         \* @lock: the fiber that holds the channel's spin lock
  pc, call, arm,\* each fiber's step, its call, the arm it works on
  calls,        \* how many calls it has begun
  state,        \* state[f][i]: the DeliveryState of the node of arm i
  data,         \* the value a receive of the fiber got
  select,       \* the SelectState shared by the contexts of its select
  activated,    \* the arm whose context won the compare-and-set, 0 if none
  timer,        \* the arm of timeout_select_action, 0 if nil
  wakes,        \* how often the fiber was enqueued and not yet resumed
  detached,     \* the lists a close took off the channel, still to visit
  outcome       \* what the current call is about to return

shared == <<closed, queue, senders, receivers>>
waiting == <<state, data, select, activated, wakes>>
vars == <<shared, lock, pc, call, arm, calls, waiting, timer, detached,
          outcome>>

Id(f) == [fiber |-> f, call |-> calls[f]]
NoOutcome == [arm |-> 0, state |-> "none"]

Init ==
  /\ closed = [c \in Channels |-> FALSE]
  /\ queue = [c \in Channels |-> <<>>]
  /\ senders = [c \in Channels |-> <<>>]
  /\ receivers = [c \in Channels |-> <<>>]
  /\ lock = [c \in Channels |-> None]
  /\ pc = [f \in Fibers |-> "idle"]
  /\ call = [f \in Fibers |-> None]
  /\ arm = [f \in Fibers |-> 0]
  /\ calls = [f \in Fibers |-> 0]
  /\ state = [f \in Fibers |-> <<>>]
  /\ data = [f \in Fibers |-> None]
  /\ select = [f \in Fibers |-> "none"]
  /\ activated = [f \in Fibers |-> 0]
  /\ timer = [f \in Fibers |-> 0]
  /\ wakes = [f \in Fibers |-> 0]
  /\ detached = [f \in Fibers |-> <<>>]
  /\ outcome = [f \in Fibers |-> NoOutcome]

Arms(f) == call[f].arms
Op(f) == Arms(f)[arm[f]].op
Chan(f) == Arms(f)[arm[f]].channel
ChannelsOf(f) == {Arms(f)[i].channel : i \in DOMAIN Arms(f)} \ {None}

Goto(f, step) == pc' = [pc EXCEPT ![f] = step]

-----------------------------------------------------------------------------
(* Nodes: Sender and Receiver, on the stack of a plain call or in the      *)
(* action object of a select arm, then with a context.                     *)
Node(f, i) == [fiber |-> f, call |-> calls[f], arm |-> i,
               context |-> call[f].form = "select"]

(* One for each arm of f that does op on c, in the order of the arms. *)
NodesOn(f, op, c) ==
  LET mine == {i \in DOMAIN Arms(f) :
                 Arms(f)[i] = [op |-> op, channel |-> c]}
      Nth(k) == CHOOSE i \in mine : Cardinality({j \in mine : j < i}) = k - 1
  IN  [k \in 1..Cardinality(mine) |-> Node(f, Nth(k))]

(* Faulty variant of Live: the state of the context is not compared. *)
LiveUncompared(n) == n.context => n.call = calls[n.fiber]

(* Would try_trigger succeed on the node?  A node without a context needs  *)
(* none; the context of an earlier select of the fiber was triggered.      *)
Live(n) ==
  n.context => n.call = calls[n.fiber] /\ select[n.fiber] = "active"

SomeLive(list) == \E i \in DOMAIN list : Live(list[i])

FirstLive(list) ==
  CHOOSE i \in DOMAIN list : Live(list[i]) /\ \A j \in 1..i - 1 : ~Live(list[j])

(* How many nodes a dequeue takes off: the dead ones in front, and the     *)
(* first live one.                                                         *)
Taken(list) == IF SomeLive(list) THEN FirstLive(list) ELSE Len(list)

Rest(list) == SubSeq(list, Taken(list) + 1, Len(list))

(* Nodes of an earlier call of the fiber are other objects. *)
Mark(nodes, s) ==
  [f \in Fibers |->
     [i \in DOMAIN state[f] |->
        IF \E n \in nodes : n.fiber = f /\ n.call = calls[f] /\ n.arm = i
          THEN s ELSE state[f][i]]]

Trigger(n) ==
  IF n.context
    THEN /\ select' = [select EXCEPT ![n.fiber] = "done"]
         /\ activated' = [activated EXCEPT ![n.fiber] = n.arm]
    ELSE UNCHANGED <<select, activated>>

(* dequeue_sender and dequeue_receiver, with what the callers do to the    *)
(* node they get: state = Delivered and fiber.enqueue.                     *)
Dequeue(list) ==
  /\ state' = Mark({list[i] : i \in 1..Taken(list)}, "delivered")
  /\ IF SomeLive(list)
       THEN LET n == list[FirstLive(list)]
            IN  /\ Trigger(n)
                /\ wakes' = [wakes EXCEPT ![n.fiber] = @ + 1]
       ELSE UNCHANGED <<select, activated, wakes>>

Sent(n) == [fiber |-> n.fiber, call |-> n.call]

-----------------------------------------------------------------------------
Begin(f, c) ==
  /\ pc[f] = "idle" /\ calls[f] < MaxCalls
  /\ calls' = [calls EXCEPT ![f] = @ + 1]
  /\ call' = [call EXCEPT ![f] = c]
  /\ arm' = [arm EXCEPT ![f] = 1]
  /\ state' = [state EXCEPT ![f] = [i \in DOMAIN c.arms |-> "none"]]
  /\ Goto(f, "run")
  /\ UNCHANGED <<shared, lock, data, select, activated, wakes, timer,
                 detached, outcome>>

Locked(f) == \A c \in ChannelsOf(f) : lock[c] = f

(* Faulty variant of Lock: the locks are not sorted. *)
LockUnsorted(f) ==
  /\ pc[f] = "run"
  /\ \E c \in ChannelsOf(f) :
       /\ lock[c] = None
       /\ lock' = [lock EXCEPT ![c] = f]
  /\ UNCHANGED <<shared, pc, call, arm, calls, waiting, timer, detached,
                 outcome>>

(* Sorted by object id, each channel once. *)
Lock(f) ==
  /\ pc[f] = "run"
  /\ \E c \in ChannelsOf(f) :
       /\ lock[c] = None
       /\ \A d \in ChannelsOf(f) : d < c <=> lock[d] = f
       /\ lock' = [lock EXCEPT ![c] = f]
  /\ UNCHANGED <<shared, pc, call, arm, calls, waiting, timer, detached,
                 outcome>>

Running(f) == pc[f] = "run" /\ Locked(f)
Executing(f, op) == Running(f) /\ arm[f] <= Len(Arms(f)) /\ Op(f) = op

(* The arm has an outcome: unlock and return it. *)
Finish(f, s) ==
  /\ outcome' = [outcome EXCEPT ![f] = [arm |-> arm[f], state |-> s]]
  /\ Goto(f, "return")
  /\ UNCHANGED arm

NextArm(f) ==
  /\ arm' = [arm EXCEPT ![f] = @ + 1]
  /\ UNCHANGED <<outcome, pc>>

(* send_internal *)
ExecuteSend(f) ==
  /\ Executing(f, "send")
  /\ LET c == Chan(f)
         list == receivers[c]
     IN
     \/ /\ closed[c]
        /\ Finish(f, "closed")
        /\ UNCHANGED <<queue, receivers, waiting>>
     \/ /\ ~closed[c]
        /\ receivers' = [receivers EXCEPT ![c] = Rest(list)]
        /\ Dequeue(list)
        /\ \/ /\ SomeLive(list)
              /\ data' = [data EXCEPT ![list[FirstLive(list)].fiber] = Id(f)]
              /\ Finish(f, "delivered")
              /\ UNCHANGED queue
           \/ /\ ~SomeLive(list) /\ Len(queue[c]) < Capacity[c]
              /\ queue' = [queue EXCEPT ![c] = Append(@, Id(f))]
              /\ Finish(f, "delivered")
              /\ UNCHANGED data
           \/ /\ ~SomeLive(list) /\ Len(queue[c]) >= Capacity[c]
              /\ NextArm(f)
              /\ UNCHANGED <<data, queue>>
  /\ UNCHANGED <<closed, senders, lock, call, calls, timer, detached>>

(* The oldest buffered value makes place for that of a waiting sender. *)
RefillInFront(q, value) == <<value>> \o Tail(q)   \* faulty variant of Refill
Refill(q, value) == Append(Tail(q), value)

(* receive_internal: the oldest queued value, refilling the queue from a   *)
(* waiting sender; or straight from a sender; or closed.                   *)
ExecuteReceive(f) ==
  /\ Executing(f, "receive")
  /\ LET c == Chan(f)
         list == senders[c]
         found == SomeLive(list)
         value == Sent(list[FirstLive(list)])
     IN
     /\ senders' = [senders EXCEPT ![c] = Rest(list)]
     /\ Dequeue(list)
     /\ \/ /\ queue[c] # <<>>
           /\ data' = [data EXCEPT ![f] = Head(queue[c])]
           /\ queue' = [queue EXCEPT ![c] = IF found THEN Refill(@, value) ELSE Tail(@)]
           /\ Finish(f, "delivered")
        \/ /\ queue[c] = <<>> /\ found
           /\ data' = [data EXCEPT ![f] = value]
           /\ Finish(f, "delivered")
           /\ UNCHANGED queue
        \/ /\ queue[c] = <<>> /\ ~found
           /\ IF closed[c] THEN Finish(f, "closed") ELSE NextArm(f)
           /\ UNCHANGED <<data, queue>>
  /\ UNCHANGED <<closed, receivers, lock, call, calls, timer, detached>>

ExecuteTimeout(f) ==
  /\ Executing(f, "timeout")
  /\ NextArm(f)
  /\ UNCHANGED <<shared, lock, call, calls, waiting, timer, detached>>

Unlocked(f) == [c \in Channels |-> IF lock[c] = f THEN None ELSE lock[c]]

(* No arm could proceed and the select has an else branch. *)
NotReady(f) ==
  /\ Running(f) /\ arm[f] > Len(Arms(f)) /\ call[f].form = "poll"
  /\ Finish(f, "not ready")
  /\ UNCHANGED <<shared, lock, call, calls, waiting, timer, detached>>

(* A node for every arm, a fresh context, the timer of the last timeout    *)
(* arm; then unlock and reschedule.  All of it happens under the locks.    *)
Wait(f) ==
  /\ Running(f) /\ arm[f] > Len(Arms(f)) /\ call[f].form # "poll"
  /\ senders' = [c \in Channels |-> senders[c] \o NodesOn(f, "send", c)]
  /\ receivers' = [c \in Channels |-> receivers[c] \o NodesOn(f, "receive", c)]
  /\ IF call[f].form = "select"
       THEN LET timeouts == {i \in DOMAIN Arms(f) : Arms(f)[i].op = "timeout"}
            IN  /\ select' = [select EXCEPT ![f] = "active"]
                /\ timer' = [timer EXCEPT ![f] =
                     IF timeouts = {} THEN 0
                     ELSE CHOOSE i \in timeouts : \A j \in timeouts : j <= i]
       ELSE UNCHANGED <<select, timer>>
  /\ lock' = Unlocked(f)
  /\ Goto(f, "parked")
  /\ UNCHANGED <<closed, queue, call, arm, calls, state, data, activated,
                 wakes, detached, outcome>>

-----------------------------------------------------------------------------
(* The scheduler resumes an enqueued fiber: a plain call looks at the      *)
(* state of its node, a select first takes its nodes back.                 *)
Resume(f) ==
  /\ pc[f] = "parked" /\ wakes[f] > 0
  /\ wakes' = [wakes EXCEPT ![f] = @ - 1]
  /\ IF call[f].form = "plain"
       THEN /\ outcome' = [outcome EXCEPT ![f] =
                             [arm |-> 1, state |-> state[f][1]]]
            /\ Goto(f, "return")
            /\ UNCHANGED arm
       ELSE /\ arm' = [arm EXCEPT ![f] = 1]
            /\ Goto(f, "unwait")
            /\ UNCHANGED outcome
  /\ UNCHANGED <<shared, lock, call, calls, state, data, select, activated,
                 timer, detached>>

Without(list, n) ==
  IF \E i \in DOMAIN list : list[i] = n
    THEN RemoveAt(list, CHOOSE i \in DOMAIN list : list[i] = n)
    ELSE list

(* Only a node that is still on the list is deleted from it. *)
TakesBackNothing(f) == FALSE    \* faulty variant of TakesBack
TakesBack(f) == ~closed[Chan(f)] /\ state[f][arm[f]] = "none"

(* unwait_impl of a send or receive arm, under the channel's lock.         *)
Unwait(f) ==
  /\ pc[f] = "unwait" /\ arm[f] <= Len(Arms(f)) /\ Op(f) # "timeout"
  /\ lock[Chan(f)] = None
  /\ IF TakesBack(f)
       THEN /\ senders' = [senders EXCEPT ![Chan(f)] = Without(@, Node(f, arm[f]))]
            /\ receivers' = [receivers EXCEPT ![Chan(f)] =
                               Without(@, Node(f, arm[f]))]
       ELSE UNCHANGED <<senders, receivers>>
  /\ NextArm(f)
  /\ UNCHANGED <<closed, queue, lock, call, calls, waiting, timer, detached>>

(* unwait_impl of a timeout arm: cancel_timeout. *)
UnwaitTimeout(f) ==
  /\ pc[f] = "unwait" /\ arm[f] <= Len(Arms(f)) /\ Op(f) = "timeout"
  /\ timer' = [timer EXCEPT ![f] = 0]
  /\ NextArm(f)
  /\ UNCHANGED <<shared, lock, call, calls, waiting, detached>>

(* wait_result of the activated arm. *)
Result(f) ==
  /\ pc[f] = "unwait" /\ arm[f] > Len(Arms(f))
  /\ outcome' = [outcome EXCEPT ![f] =
       [arm |-> activated[f],
        state |-> IF activated[f] = 0 THEN "none"
                  ELSE IF Arms(f)[activated[f]].op = "timeout" THEN "expired"
                  ELSE state[f][activated[f]]]]
  /\ Goto(f, "return")
  /\ UNCHANGED <<shared, lock, call, arm, calls, waiting, timer, detached>>

(* Unlock what is still locked, and return. *)
Return(f) ==
  /\ pc[f] = "return"
  /\ lock' = Unlocked(f)
  /\ call' = [call EXCEPT ![f] = None]
  /\ arm' = [arm EXCEPT ![f] = 0]
  /\ state' = [state EXCEPT ![f] = <<>>]
  /\ data' = [data EXCEPT ![f] = None]
  /\ outcome' = [outcome EXCEPT ![f] = NoOutcome]
  /\ select' = [select EXCEPT ![f] = "none"]
  /\ activated' = [activated EXCEPT ![f] = 0]
  /\ Goto(f, "idle")
  /\ UNCHANGED <<shared, calls, wakes, timer, detached>>

-----------------------------------------------------------------------------
(* Faulty variant of ExecuteClose: waiting senders stay on the channel. *)
ExecuteCloseReceivers(f) ==
  /\ Executing(f, "close") /\ ~closed[Chan(f)]
  /\ closed' = [closed EXCEPT ![Chan(f)] = TRUE]
  /\ detached' = [detached EXCEPT ![f] = receivers[Chan(f)]]
  /\ receivers' = [receivers EXCEPT ![Chan(f)] = <<>>]
  /\ lock' = Unlocked(f)
  /\ Goto(f, "closing")
  /\ UNCHANGED <<queue, senders, call, arm, calls, waiting, timer, outcome>>

(* close: under the lock, mark the channel and detach both lists. *)
ExecuteClose(f) ==
  /\ Executing(f, "close")
  /\ IF closed[Chan(f)]
       THEN /\ Finish(f, "already closed")
            /\ UNCHANGED <<closed, senders, receivers, lock, detached>>
       ELSE LET c == Chan(f) IN
            /\ closed' = [closed EXCEPT ![c] = TRUE]
            /\ detached' = [detached EXCEPT ![f] = senders[c] \o receivers[c]]
            /\ senders' = [senders EXCEPT ![c] = <<>>]
            /\ receivers' = [receivers EXCEPT ![c] = <<>>]
            /\ lock' = Unlocked(f)
            /\ Goto(f, "closing")
            /\ UNCHANGED <<arm, outcome>>
  /\ UNCHANGED <<queue, call, calls, waiting, timer>>

(* Faulty variant of CloseMark: the node is woken without a state. *)
CloseMarkNothing(f) ==
  /\ pc[f] = "closing" /\ detached[f] # <<>>
  /\ Goto(f, "close wake")
  /\ UNCHANGED <<shared, lock, call, arm, calls, waiting, timer, detached,
                 outcome>>

(* The detached nodes, one at a time and without a lock: first the state,  *)
(* then the context, then the fiber.                                       *)
CloseMark(f) ==
  /\ pc[f] = "closing" /\ detached[f] # <<>>
  /\ state' = Mark({Head(detached[f])}, "closed")
  /\ Goto(f, "close wake")
  /\ UNCHANGED <<shared, lock, call, arm, calls, data, select, activated,
                 wakes, timer, detached, outcome>>

CloseWake(f) ==
  /\ pc[f] = "close wake"
  /\ LET n == Head(detached[f])
     IN  IF Live(n) THEN /\ Trigger(n)
                         /\ wakes' = [wakes EXCEPT ![n.fiber] = @ + 1]
                    ELSE UNCHANGED <<select, activated, wakes>>
  /\ detached' = [detached EXCEPT ![f] = Tail(@)]
  /\ Goto(f, "closing")
  /\ UNCHANGED <<shared, lock, call, arm, calls, state, data, timer, outcome>>

CloseDone(f) ==
  /\ pc[f] = "closing" /\ detached[f] = <<>>
  /\ Finish(f, "delivered")
  /\ UNCHANGED <<shared, lock, call, calls, waiting, timer, detached>>

(* Faulty variant of Expire: the context is triggered, the fiber forgotten. *)
ExpireSilently(f) ==
  /\ pc[f] = "parked" /\ timer[f] # 0 /\ select[f] = "active"
  /\ timer' = [timer EXCEPT ![f] = 0]
  /\ select' = [select EXCEPT ![f] = "done"]
  /\ activated' = [activated EXCEPT ![f] = timer[f]]
  /\ UNCHANGED <<shared, lock, pc, call, arm, calls, state, data, wakes,
                 detached, outcome>>

(* The timeout event of a suspended fiber, on the event loop of its        *)
(* thread: time_expired.                                                   *)
Expire(f) ==
  /\ pc[f] = "parked" /\ timer[f] # 0
  /\ timer' = [timer EXCEPT ![f] = 0]
  /\ IF select[f] = "active"
       THEN /\ select' = [select EXCEPT ![f] = "done"]
            /\ activated' = [activated EXCEPT ![f] = timer[f]]
            /\ wakes' = [wakes EXCEPT ![f] = @ + 1]
       ELSE UNCHANGED <<select, activated, wakes>>
  /\ UNCHANGED <<shared, lock, pc, call, arm, calls, state, data, detached,
                 outcome>>

-----------------------------------------------------------------------------
Step(f) ==
  \/ Lock(f) \/ ExecuteSend(f) \/ ExecuteReceive(f) \/ ExecuteTimeout(f)
  \/ NotReady(f) \/ Wait(f) \/ Resume(f) \/ Unwait(f) \/ UnwaitTimeout(f)
  \/ Result(f) \/ Return(f) \/ ExecuteClose(f) \/ CloseMark(f)
  \/ CloseWake(f) \/ CloseDone(f)

Next == \E f \in Fibers : (\E c \in Calls : Begin(f, c)) \/ Step(f) \/ Expire(f)

Spec == Init /\ [][Next]_vars

(* A running fiber runs on, an enqueued one is resumed, an event fires.    *)
Fairness == \A f \in Fibers : WF_vars(Step(f)) /\ WF_vars(Expire(f))

FairSpec == Spec /\ Fairness

-----------------------------------------------------------------------------
(* However a sender, a receiver, a close and a timeout race for the arms   *)
(* of a select, its fiber is enqueued once, and only while it is           *)
(* suspended: the scheduler would otherwise resume a running fiber.        *)
WokenOnce ==
  \A f \in Fibers : wakes[f] = 0 \/ (wakes[f] = 1 /\ pc[f] = "parked")

(* None of the "BUG: Fiber was awaken without channel delivery state set"  *)
(* and "BUG: ... no action was activated" of send, receive_impl,           *)
(* select_impl and wait_result_impl is ever raised.                        *)
WokenForAReason ==
  \A f \in Fibers :
    /\ pc[f] = "return" => outcome[f].state # "none"
    /\ pc[f] = "parked" /\ wakes[f] > 0 =>
         IF call[f].form = "plain" THEN state[f][1] # "none"
         ELSE /\ activated[f] # 0
              /\ Arms(f)[activated[f]].op # "timeout" =>
                   state[f][activated[f]] # "none"

Values(s) == {s[i] : i \in DOMAIN s}

(* The effect the call of f has already had, though it has not returned:   *)
(* the arm and its state.  A waiting plain call is settled when the state  *)
(* of its node is set, a select when one of its contexts is triggered.     *)
Settled(f) ==
  CASE pc[f] = "return" -> outcome[f]
    [] pc[f] \in {"closing", "close wake"} -> [arm |-> 1, state |-> "delivered"]
    [] pc[f] = "parked" /\ call[f].form = "plain" /\ state[f][1] # "none" ->
         [arm |-> 1, state |-> state[f][1]]
    [] pc[f] \in {"parked", "unwait"} /\ activated[f] > 0 ->
         [arm |-> activated[f],
          state |-> IF Arms(f)[activated[f]].op = "timeout" THEN "expired"
                    ELSE state[f][activated[f]]]
    [] OTHER -> NoOutcome

(* Nobody waits for what is there: a fiber that waits to receive finds no  *)
(* value and no other waiting sender, one that waits to send finds the     *)
(* queue full, and none waits on a closed channel (a fiber whose select    *)
(* lists both sides may face itself).                                      *)
NoMissedRendezvous ==
  \A c \in Channels :
    /\ \A r \in Values(receivers[c]) : Live(r) => queue[c] = <<>>
    /\ \A s \in Values(senders[c]) : Live(s) => Len(queue[c]) = Capacity[c]
    /\ \A s \in Values(senders[c]), r \in Values(receivers[c]) :
         Live(s) /\ Live(r) => s.fiber = r.fiber
    /\ closed[c] => senders[c] = <<>> /\ receivers[c] = <<>>

(* A node on a list, or on the list a close walks without a lock, is still *)
(* the node of a call that waits: the stack frame of a plain send or       *)
(* receive outlives its node, and a select leaves no node behind on an     *)
(* open channel.  And unwait deletes only nodes that are on the list.      *)
NoDanglingNode ==
  LET OfWaiter(n) == /\ n.call = calls[n.fiber]
                     /\ pc[n.fiber] \in {"parked", "unwait"}
  IN
  /\ \A c \in Channels : \A n \in Values(senders[c]) \cup Values(receivers[c]) :
       /\ OfWaiter(n)
       /\ n.context \/ (pc[n.fiber] = "parked" /\ wakes[n.fiber] = 0)
  /\ \A f \in Fibers : \A n \in Values(detached[f]) :
       n.context \/ (OfWaiter(n) /\ pc[n.fiber] = "parked" /\ wakes[n.fiber] = 0)
  /\ \A f \in Fibers :
       pc[f] = "unwait" /\ arm[f] <= Len(Arms(f)) /\ Op(f) # "timeout" =>
         closed[Chan(f)] \/ state[f][arm[f]] # "none" \/ lock[Chan(f)] # None
           \/ Node(f, arm[f]) \in Values(senders[Chan(f)])
                                  \cup Values(receivers[Chan(f)])

(* close and an elapsed timeout release every waiter: a fiber suspended on *)
(* a channel that is closed, or with a timeout pending, is resumed.        *)
Released ==
  \A f \in Fibers :
    (pc[f] = "parked" /\ (timer[f] # 0 \/ \E c \in ChannelsOf(f) : closed[c]))
      ~> pc[f] # "parked"

(* Calls over several channels do not deadlock on the spin locks: a call   *)
(* that runs returns or suspends.                                          *)
NoLockDeadlock ==
  \A f \in Fibers :
    pc[f] \notin {"idle", "parked"} ~> pc[f] \in {"idle", "parked"}

-----------------------------------------------------------------------------
(* The channel implements ChannelSpec: every call takes effect at once, at *)
(* the step that settles it, however many steps, nodes and wake-ups the    *)
(* call itself takes.                                                      *)
Promise ==
  INSTANCE ChannelSpec WITH
    request <- call,
    reply <- [f \in Fibers |-> [arm |-> Settled(f).arm,
                               state |-> Settled(f).state,
                               data |-> data[f]]]

ImplementsChannelSpec == Promise!Spec
=============================================================================
