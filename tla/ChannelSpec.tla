----------------------------- MODULE ChannelSpec -----------------------------
(***************************************************************************)
(* What the channels of src/src/channel.cr promise their callers: every    *)
(* call takes effect at one instant between its start and its return,      *)
(* alone or together with the one call it meets.  A channel is a bounded   *)
(* queue that may be closed; nothing is said of locks, lists of waiting    *)
(* fibers, contexts or wake-ups.                                           *)
(***************************************************************************)
EXTENDS Naturals, Sequences

CONSTANTS Fibers, None, Channels, Capacity, Calls, MaxCalls

VARIABLES
  closed,   \* closed[c]
  queue,    \* queue[c]: the values the channel buffers
  request,  \* request[f]: the call f has begun and not returned from
  calls,    \* how many calls f has begun
  reply     \* reply[f]: the effect of the call, NoReply before it

vars == <<closed, queue, request, calls, reply>>

NoReply == [arm |-> 0, state |-> "none", data |-> None]

Init ==
  /\ closed = [c \in Channels |-> FALSE]
  /\ queue = [c \in Channels |-> <<>>]
  /\ request = [f \in Fibers |-> None]
  /\ calls = [f \in Fibers |-> 0]
  /\ reply = [f \in Fibers |-> NoReply]

Value(f) == [fiber |-> f, call |-> calls[f]]

(* The arms of the call of f, while it has not taken effect. *)
Pending(f) ==
  IF request[f] = None \/ reply[f] # NoReply THEN {} ELSE DOMAIN request[f].arms

(* Arm i of the call of f may still take effect, and does op on c. *)
Offers(f, i, op, c) ==
  i \in Pending(f) /\ request[f].arms[i] = [op |-> op, channel |-> c]

(* A send or receive that nobody can serve at once waits, unless the       *)
(* select it is an arm of has an else branch.                              *)
Waits(f, i, op, c) == Offers(f, i, op, c) /\ request[f].form # "poll"

Reply(i, s, v) == [arm |-> i, state |-> s, data |-> v]

Answer(f, r) == reply' = [reply EXCEPT ![f] = r]

-----------------------------------------------------------------------------
Invoke(f, c) ==
  /\ request[f] = None /\ calls[f] < MaxCalls
  /\ request' = [request EXCEPT ![f] = c]
  /\ calls' = [calls EXCEPT ![f] = @ + 1]
  /\ UNCHANGED <<closed, queue, reply>>

(* A value enters the queue. *)
Put(f, i, c) ==
  /\ Offers(f, i, "send", c)
  /\ ~closed[c] /\ Len(queue[c]) < Capacity[c]
  /\ queue' = [queue EXCEPT ![c] = Append(@, Value(f))]
  /\ Answer(f, Reply(i, "delivered", None))
  /\ UNCHANGED <<closed, request, calls>>

(* The oldest value leaves the queue. *)
Take(f, i, c) ==
  /\ Offers(f, i, "receive", c)
  /\ queue[c] # <<>>
  /\ queue' = [queue EXCEPT ![c] = Tail(@)]
  /\ Answer(f, Reply(i, "delivered", Head(queue[c])))
  /\ UNCHANGED <<closed, request, calls>>

(* The oldest value leaves a full queue, and that of a waiting sender      *)
(* takes the place this makes.                                             *)
TakeAndRefill(f, i, g, j, c) ==
  /\ f # g
  /\ Offers(f, i, "receive", c) /\ Waits(g, j, "send", c)
  /\ ~closed[c] /\ queue[c] # <<>> /\ Len(queue[c]) = Capacity[c]
  /\ queue' = [queue EXCEPT ![c] = Append(Tail(@), Value(g))]
  /\ reply' = [reply EXCEPT ![f] = Reply(i, "delivered", Head(queue[c])),
                            ![g] = Reply(j, "delivered", None)]
  /\ UNCHANGED <<closed, request, calls>>

(* A sender and a receiver meet over an empty queue; one of them waited. *)
Meet(f, i, g, j, c) ==
  /\ f # g
  /\ Offers(f, i, "send", c) /\ Offers(g, j, "receive", c)
  /\ Waits(f, i, "send", c) \/ Waits(g, j, "receive", c)
  /\ ~closed[c] /\ queue[c] = <<>>
  /\ reply' = [reply EXCEPT ![f] = Reply(i, "delivered", None),
                            ![g] = Reply(j, "delivered", Value(f))]
  /\ UNCHANGED <<closed, queue, request, calls>>

(* A send on a closed channel fails, and a receive once it is drained. *)
FailClosed(f, i, c) ==
  /\ \/ Offers(f, i, "send", c)
     \/ Offers(f, i, "receive", c) /\ queue[c] = <<>>
  /\ closed[c]
  /\ Answer(f, Reply(i, "closed", None))
  /\ UNCHANGED <<closed, queue, request, calls>>

Expire(f, i) ==
  /\ Waits(f, i, "timeout", None)
  /\ Answer(f, Reply(i, "expired", None))
  /\ UNCHANGED <<closed, queue, request, calls>>

(* The else branch: not one arm could take effect alone. *)
NotReady(f) ==
  /\ Pending(f) # {} /\ request[f].form = "poll"
  /\ \A i \in Pending(f), c \in Channels :
       /\ Offers(f, i, "send", c) => ~closed[c] /\ Len(queue[c]) = Capacity[c]
       /\ Offers(f, i, "receive", c) => ~closed[c] /\ queue[c] = <<>>
  /\ Answer(f, Reply(Len(request[f].arms) + 1, "not ready", None))
  /\ UNCHANGED <<closed, queue, request, calls>>

(* The channel is closed; whoever waits on it is told afterwards. *)
Close(f, c) ==
  /\ Offers(f, 1, "close", c)
  /\ closed' = [closed EXCEPT ![c] = TRUE]
  /\ Answer(f, Reply(1, IF closed[c] THEN "already closed" ELSE "delivered",
                     None))
  /\ UNCHANGED <<queue, request, calls>>

Return(f) ==
  /\ reply[f] # NoReply
  /\ reply' = [reply EXCEPT ![f] = NoReply]
  /\ request' = [request EXCEPT ![f] = None]
  /\ UNCHANGED <<closed, queue, calls>>

-----------------------------------------------------------------------------
Next ==
  \E f \in Fibers :
    \/ \E c \in Calls : Invoke(f, c)
    \/ \E i \in Pending(f), c \in Channels :
         \/ Put(f, i, c) \/ Take(f, i, c) \/ FailClosed(f, i, c)
         \/ \E g \in Fibers : \E j \in Pending(g) :
              TakeAndRefill(f, i, g, j, c) \/ Meet(f, i, g, j, c)
    \/ \E i \in Pending(f) : Expire(f, i)
    \/ NotReady(f)
    \/ \E c \in Channels : Close(f, c)
    \/ Return(f)

Spec == Init /\ [][Next]_vars
=============================================================================
