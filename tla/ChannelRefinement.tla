--------------------------- MODULE ChannelRefinement ---------------------------
(* That Channel implements ChannelSpec, step by step: each step of a fiber *)
(* is the one instant at which a call takes effect, or changes nothing the *)
(* callers can tell.                                                       *)
EXTENDS ChannelProofs

ReplyOf(f) == [arm |-> Settled(f).arm, state |-> Settled(f).state, data |-> data[f]]

(* The call of f has begun and has not taken effect. *)
Open(f) ==
  \/ pc[f] = "run"
  \/ /\ pc[f] = "parked"
     /\ IF call[f].form = "plain" THEN state[f][1] = "none" ELSE activated[f] = 0

-----------------------------------------------------------------------------
(* The states *)

LEMMA SettledOpen ==
  ASSUME ChannelInv, NEW f \in Fibers, Open(f)
  PROVE  /\ Settled(f) = NoOutcome /\ data[f] = None
         /\ call[f] # None /\ call[f] \in Calls
<1>1. LocalAt(f) /\ CallAt(f) /\ call[f] # None /\ call[f] \in Calls
  BY RunFacts DEF Open
<1>2. CASE pc[f] = "run"
  BY <1>1, <1>2 DEF Settled, CallAt
<1>3. CASE pc[f] = "parked" /\ call[f].form = "plain"
  BY <1>1, <1>3 DEF Open, Settled, LocalAt, PlainAt, Waits
<1>4. CASE pc[f] = "parked" /\ call[f].form # "plain"
  <2>1. activated[f] = 0 /\ SelectAt(f) /\ call[f] # None
    BY <1>1, <1>4 DEF Open, LocalAt
  <2>2. 0 \notin DOMAIN Arms(f)
    BY <2>1, RunFacts, <1>4
  <2>3. data[f] = None
    BY <1>4, <2>1, <2>2 DEF SelectAt, Waits
  <2> QED BY <1>1, <1>4, <2>1, <2>3 DEF Settled
<1> QED BY <1>2, <1>3, <1>4 DEF Open

LEMMA SettledIdle ==
  ASSUME ChannelInv, NEW f \in Fibers, pc[f] = "idle"
  PROVE  Settled(f) = NoOutcome /\ data[f] = None /\ call[f] = None
<1>1. CallAt(f)
  BY DEF ChannelInv, LocalInv, LocalAt
<1> QED BY <1>1 DEF Settled, CallAt

(* A call that waits and is settled. *)
LEMMA SettledWaiting ==
  ASSUME NEW f, activated[f] \in Nat,
         \/ /\ pc[f] = "parked" /\ call[f].form = "plain" /\ activated[f] = 0
            /\ state[f][1] # "none"
         \/ /\ pc[f] \in {"parked", "unwait"} /\ call[f].form # "plain"
            /\ activated[f] > 0
  PROVE  Settled(f) =
           IF call[f].form = "plain" THEN [arm |-> 1, state |-> state[f][1]]
           ELSE [arm |-> activated[f],
                 state |-> IF Arms(f)[activated[f]].op = "timeout" THEN "expired"
                           ELSE state[f][activated[f]]]
<1>1. CASE call[f].form = "plain"
  <2>1. pc[f] = "parked" /\ ~(activated[f] > 0) /\ state[f][1] # "none"
    BY <1>1
  <2> QED BY <1>1, <2>1 DEF Settled
<1>2. CASE call[f].form # "plain"
  BY <1>2 DEF Settled
<1> QED BY <1>1, <1>2

LEMMA PendingOpen ==
  ASSUME ChannelInv, NEW f \in Fibers, Open(f)
  PROVE  Promise!Pending(f) = DOMAIN Arms(f)
<1>1. ReplyOf(f) = Promise!NoReply /\ call[f] # None
  BY SettledOpen DEF ReplyOf, NoOutcome, Promise!NoReply
<1> QED BY <1>1 DEF Promise!Pending, ReplyOf, Arms

LEMMA OffersOpen ==
  ASSUME ChannelInv, NEW f \in Fibers, Open(f), NEW i \in DOMAIN Arms(f),
         NEW op, NEW c, Arms(f)[i] = [op |-> op, channel |-> c]
  PROVE  /\ i \in Promise!Pending(f) /\ Promise!Offers(f, i, op, c)
         /\ pc[f] = "parked" => Promise!Waits(f, i, op, c)
<1>1. i \in Promise!Pending(f) /\ Promise!Offers(f, i, op, c)
  BY PendingOpen DEF Promise!Offers, Arms
<1>2. pc[f] = "parked" => call[f].form # "poll"
  BY WaitFacts DEF Waits
<1> QED BY <1>1, <1>2 DEF Promise!Waits

-----------------------------------------------------------------------------
(* The steps *)

LEMMA Answered ==
  ASSUME NEW f \in Fibers, NEW r,
         ReplyOf(f)' = r, \A g \in Fibers : g # f => ReplyOf(g)' = ReplyOf(g)
  PROVE  Promise!Answer(f, r)
BY DEF Promise!Answer, ReplyOf

(* Nothing the callers can tell. *)
LEMMA Unnoticed ==
  ASSUME UNCHANGED <<closed, queue, call, calls>>,
         \A g \in Fibers : ReplyOf(g)' = ReplyOf(g)
  PROVE  UNCHANGED Promise!vars
BY DEF Promise!vars, ReplyOf

KeepsReply(g) ==
  /\ pc'[g] = pc[g] /\ call'[g] = call[g] /\ outcome'[g] = outcome[g]
  /\ activated'[g] = activated[g] /\ data'[g] = data[g]
  /\ Waits(g) /\ call[g].form = "plain" => state'[g] = state[g]
  /\ Waits(g) => \A i \in DOMAIN state[g] :
                   state[g][i] # "none" => state'[g][i] = state[g][i]

LEMMA ReplyKept ==
  ASSUME ChannelInv, NEW g \in Fibers, KeepsReply(g)
  PROVE  ReplyOf(g)' = ReplyOf(g)
<1>1. Arms(g)' = Arms(g)
  BY DEF KeepsReply, Arms
<1>2. Settled(g)' = Settled(g)
  <2>1. CASE ~Waits(g)
    BY <1>1, <2>1 DEF KeepsReply, Settled, Waits, NoOutcome
  <2>2. CASE Waits(g) /\ call[g].form = "plain"
    BY <1>1, <2>2 DEF KeepsReply, Settled, Waits, NoOutcome
  <2>3. CASE Waits(g) /\ call[g].form # "plain"
    <3>1. /\ SelectAt(g) /\ activated[g] \in Nat
          /\ DOMAIN state[g] = DOMAIN Arms(g) /\ DOMAIN Arms(g) = 1..Len(Arms(g))
      BY <2>3, WaitFacts, RunFacts DEF Waits
    <3>2. CASE activated[g] = 0
      BY <1>1, <2>3, <3>2 DEF KeepsReply, Settled, Waits, NoOutcome
    <3>3. CASE activated[g] > 0
      <4>1. /\ activated[g] \in DOMAIN state[g]
            /\ Arms(g)[activated[g]].op # "timeout" => state[g][activated[g]] # "none"
        BY <2>3, <3>1, <3>3 DEF SelectAt
      <4>2. /\ activated'[g] = activated[g] /\ activated'[g] > 0
            /\ pc'[g] \in {"parked", "unwait"} /\ call'[g].form # "plain"
            /\ Arms(g)[activated[g]].op # "timeout" =>
                 state'[g][activated[g]] = state[g][activated[g]]
        BY <2>3, <3>3, <4>1 DEF KeepsReply, Waits
      <4>3. Settled(g) = [arm |-> activated[g],
              state |-> IF Arms(g)[activated[g]].op = "timeout" THEN "expired"
                        ELSE state[g][activated[g]]]
        BY <2>3, <3>1, <3>3, SettledWaiting DEF Waits
      <4>4. Settled(g)' = [arm |-> activated'[g],
              state |-> IF Arms(g)'[activated'[g]].op = "timeout" THEN "expired"
                        ELSE state'[g][activated'[g]]]
        BY <4>2 DEF Settled
      <4> QED BY <1>1, <4>2, <4>3, <4>4
    <3> QED BY <3>1, <3>2, <3>3
  <2> QED BY <2>1, <2>2, <2>3
<1> QED BY <1>2 DEF KeepsReply, ReplyOf

LEMMA SameReply ==
  ASSUME ChannelInv, NEW g \in Fibers, Same(g)
  PROVE  ReplyOf(g)' = ReplyOf(g)
BY ReplyKept DEF Same, KeepsReply

LEMMA OwnReply ==
  ASSUME ChannelInv, NEW f \in Fibers, Others(f), ReplyOf(f)' = ReplyOf(f),
         UNCHANGED <<closed, queue, call, calls>>
  PROVE  UNCHANGED Promise!vars
<1>1. \A g \in Fibers : ReplyOf(g)' = ReplyOf(g)
  BY SameReply DEF Others
<1> QED BY <1>1, Unnoticed

-----------------------------------------------------------------------------
(* Steps nobody notices *)

(* Before its effect the call goes on, and after it. *)
LEMMA LockRefines ==
  ASSUME ChannelInv, NEW f \in Fibers, Lock(f)
  PROVE  UNCHANGED Promise!vars
<1>1. Same(f) /\ Others(f) /\ UNCHANGED <<closed, queue, call, calls>>
  BY DEF Lock, Same, Others, shared, waiting
<1> QED BY <1>1, SameReply, OwnReply

LEMMA ExecuteTimeoutRefines ==
  ASSUME ChannelInv, NEW f \in Fibers, ExecuteTimeout(f)
  PROVE  UNCHANGED Promise!vars
<1>1. /\ UNCHANGED <<closed, queue, call, calls>>
      /\ Others(f) /\ KeepsReply(f)
  <2>1. TypeInv
    BY DEF ChannelInv
  <2> QED BY <2>1 DEF ExecuteTimeout, NextArm, Others, Same, KeepsReply, shared,
                      waiting, TypeInv, CallTypes
<1> QED BY <1>1, ReplyKept, OwnReply

LEMMA WaitRefines ==
  ASSUME ChannelInv, NEW f \in Fibers, Wait(f)
  PROVE  UNCHANGED Promise!vars
<1>1. /\ Others(f) /\ pc[f] = "run" /\ pc'[f] = "parked"
      /\ UNCHANGED <<closed, queue, call, calls, state, data, activated>>
  BY ToWait, WaitOwn DEF Wait
<1>2. Open(f) /\ CallAt(f) /\ activated[f] = 0 /\ DOMAIN state[f] = DOMAIN Arms(f)
      /\ DOMAIN Arms(f) = 1..Len(Arms(f)) /\ Len(Arms(f)) \in Nat /\ Len(Arms(f)) > 0
  BY <1>1, RunFacts DEF Open, CallAt
<1>3. state[f][1] = "none"
  <2>1. 1 \in DOMAIN state[f]
    BY <1>2
  <2> QED BY <1>1, <1>2, <2>1 DEF CallAt
<1>4. Settled(f) = NoOutcome
  BY <1>2, SettledOpen
<1>5. Settled(f)' = NoOutcome
  BY <1>1, <1>2, <1>3 DEF Settled, NoOutcome
<1> QED BY <1>1, <1>4, <1>5, OwnReply DEF ReplyOf

(* A fiber that is resumed is settled, and stays so. *)
LEMMA ResumeRefines ==
  ASSUME ChannelInv, NEW f \in Fibers, Resume(f)
  PROVE  UNCHANGED Promise!vars
<1>1. /\ pc[f] = "parked" /\ wakes[f] > 0 /\ wakes[f] \in Nat /\ TypeInv
      /\ PlainAt(f) /\ SelectAt(f) /\ activated[f] \in Nat /\ Waits(f)
      /\ call[f].form \in {"plain", "select"} /\ DOMAIN Arms(f) = 1..Len(Arms(f))
  BY WaitFacts, RunFacts DEF Resume, Waits
<1>2. /\ Others(f)
      /\ UNCHANGED <<closed, queue, call, calls, state, data, activated>>
  BY <1>1 DEF Resume, Others, Same, Goto, shared, TypeInv, CallTypes, WaitingTypes
<1>3. Settled(f)' = Settled(f)
  <2>1. CASE call[f].form = "plain"
    <3>1. wakes[f] = 1 /\ activated[f] = 0 /\ state[f][1] # "none"
      BY <1>1, <2>1 DEF PlainAt
    <3>2. Settled(f) = [arm |-> 1, state |-> state[f][1]]
      BY <1>1, <2>1, <3>1, SettledWaiting
    <3>3. pc'[f] = "return" /\ outcome'[f] = [arm |-> 1, state |-> state[f][1]]
      BY <1>1, <2>1 DEF Resume, Goto, TypeInv, CallTypes
    <3> QED BY <3>2, <3>3 DEF Settled
  <2>2. CASE call[f].form = "select"
    <3>1. activated[f] > 0
      BY <1>1, <2>2 DEF SelectAt
    <3>2. pc'[f] = "unwait"
      BY <1>1, <2>2 DEF Resume, Goto, TypeInv, CallTypes
    <3>3. Arms(f)' = Arms(f)
      BY <1>2 DEF Arms
    <3> QED BY <1>1, <1>2, <2>2, <3>1, <3>2, <3>3 DEF Settled
  <2> QED BY <1>1, <2>1, <2>2
<1> QED BY <1>2, <1>3, OwnReply DEF ReplyOf

LEMMA UnwaitRefines ==
  ASSUME ChannelInv, NEW f \in Fibers, Unwait(f) \/ UnwaitTimeout(f)
  PROVE  UNCHANGED Promise!vars
<1>1. TypeInv
  BY DEF ChannelInv
<1>2. UNCHANGED <<closed, queue, call, calls>> /\ Others(f) /\ KeepsReply(f)
  <2>1. CASE Unwait(f)
    BY <1>1, <2>1 DEF Unwait, NextArm, Others, Same, KeepsReply, waiting, TypeInv, CallTypes
  <2>2. CASE UnwaitTimeout(f)
    BY <1>1, <2>2 DEF UnwaitTimeout, NextArm, Others, Same, KeepsReply, shared,
                      waiting, TypeInv, CallTypes
  <2> QED BY <2>1, <2>2
<1> QED BY <1>2, ReplyKept, OwnReply

LEMMA ResultRefines ==
  ASSUME ChannelInv, NEW f \in Fibers, Result(f)
  PROVE  UNCHANGED Promise!vars
<1>1. /\ pc[f] = "unwait" /\ call[f].form = "select" /\ activated[f] \in DOMAIN Arms(f)
      /\ DOMAIN Arms(f) = 1..Len(Arms(f)) /\ TypeInv /\ activated[f] \in Nat
  BY UnwaitFacts DEF Result, TypeInv, WaitingTypes
<1>2. activated[f] > 0
  BY <1>1
<1>3. /\ UNCHANGED <<closed, queue, call, calls, data>> /\ Others(f)
      /\ pc'[f] = "return"
      /\ outcome'[f] = [arm |-> activated[f],
           state |-> IF Arms(f)[activated[f]].op = "timeout" THEN "expired"
                     ELSE state[f][activated[f]]]
  BY <1>1, <1>2 DEF Result, Others, Same, Goto, shared, waiting, TypeInv, CallTypes
<1>4. Settled(f)' = Settled(f)
  <2>1. Settled(f)' = outcome'[f]
    BY <1>3 DEF Settled
  <2> QED BY <1>1, <1>2, <1>3, <2>1, SettledWaiting
<1> QED BY <1>3, <1>4, OwnReply DEF ReplyOf

LEMMA CloseDoneRefines ==
  ASSUME ChannelInv, NEW f \in Fibers, CloseDone(f)
  PROVE  UNCHANGED Promise!vars
<1>1. TypeInv /\ arm[f] = 1 /\ pc[f] = "closing"
  BY DEF CloseDone, ChannelInv, LocalInv, LocalAt, CloseAt, Closes
<1>2. /\ UNCHANGED <<closed, queue, call, calls, data>> /\ Others(f)
      /\ pc'[f] = "return" /\ outcome'[f] = [arm |-> 1, state |-> "delivered"]
  BY <1>1 DEF CloseDone, Finish, Others, Same, Goto, shared, waiting, TypeInv, CallTypes
<1>3. Settled(f)' = Settled(f)
  BY <1>1, <1>2 DEF Settled
<1> QED BY <1>2, <1>3, OwnReply DEF ReplyOf

-----------------------------------------------------------------------------
(* Steps that settle a call *)

LEMMA Finished ==
  ASSUME TypeInv, NEW f \in Fibers, NEW s, Finish(f, s)
  PROVE  /\ Settled(f)' = [arm |-> arm[f], state |-> s] /\ pc'[f] = "return"
         /\ \A g \in Fibers : g # f =>
              pc'[g] = pc[g] /\ arm'[g] = arm[g] /\ outcome'[g] = outcome[g]
<1>1. /\ pc'[f] = "return" /\ outcome'[f] = [arm |-> arm[f], state |-> s]
      /\ \A g \in Fibers : g # f =>
           pc'[g] = pc[g] /\ arm'[g] = arm[g] /\ outcome'[g] = outcome[g]
  BY DEF Finish, Goto, TypeInv, CallTypes
<1> QED BY <1>1 DEF Settled

LEMMA ReplyIs ==
  ASSUME NEW f, NEW i, NEW s, NEW v,
         Settled(f)' = [arm |-> i, state |-> s], data'[f] = v
  PROVE  ReplyOf(f)' = [arm |-> i, state |-> s, data |-> v]
BY DEF ReplyOf

(* A call on a closed channel fails, whether it runs or waits. *)
LEMMA Failed ==
  ASSUME ChannelInv, NEW f \in Fibers, Open(f), NEW i \in DOMAIN Arms(f),
         NEW op, NEW c \in Channels, Arms(f)[i] = [op |-> op, channel |-> c],
         closed[c], op = "send" \/ (op = "receive" /\ queue[c] = <<>>),
         ReplyOf(f)' = [arm |-> i, state |-> "closed", data |-> None],
         \A g \in Fibers : g # f => ReplyOf(g)' = ReplyOf(g),
         UNCHANGED <<closed, queue, call, calls>>
  PROVE  Promise!Next
<1>1. i \in Promise!Pending(f) /\ Promise!Offers(f, i, op, c)
  BY OffersOpen
<1>2. Promise!Answer(f, Promise!Reply(i, "closed", None))
  BY Answered DEF Promise!Reply
<1>3. Promise!FailClosed(f, i, c)
  BY <1>1, <1>2 DEF Promise!FailClosed
<1> QED BY <1>1, <1>3 DEF Promise!Next

(* The node that is found live is that of an open call that waits. *)
LEMMA FoundWaits ==
  ASSUME ChannelInv, NEW op, NEW c \in Channels, NEW list, ListOf(op, c, list),
         NEW n, In(list, n), Live(n)
  PROVE  /\ n \in Nodes /\ n.fiber \in Fibers /\ n.call = calls[n.fiber]
         /\ Open(n.fiber) /\ pc[n.fiber] = "parked"
         /\ n.arm \in DOMAIN Arms(n.fiber) /\ ~closed[c]
         /\ Arms(n.fiber)[n.arm] = [op |-> op, channel |-> c]
<1>1. n \in Nodes /\ n.fiber \in Fibers /\ Waiter(n, op, c) /\ ~closed[c]
  BY OnList
<1> PICK g : g = n.fiber
  OBVIOUS
<1>2. /\ n.call = calls[g] /\ Waits(g) /\ n.arm \in DOMAIN Arms(g)
      /\ Arms(g)[n.arm] = [op |-> op, channel |-> c]
      /\ n.context = (call[g].form = "select") /\ state[g][n.arm] = "none"
  BY <1>1 DEF Waiter, OfArm
<1>3. /\ PlainAt(g) /\ SelectAt(g) /\ call[g].form \in {"plain", "select"}
      /\ Len(Arms(g)) = 1 \/ call[g].form = "select"
      /\ DOMAIN Arms(g) = 1..Len(Arms(g)) /\ activated[g] \in Nat
      /\ CallAt(g)
  <2>1. call[g] # None /\ TypeInv
    BY <1>1, <1>2, RunFacts DEF Waits
  <2> QED BY <1>1, <1>2, <2>1, WaitFacts, ArmFacts, RunFacts DEF Waits
<1>4. CASE call[g].form = "plain"
  <2>1. n.arm = 1
    BY <1>2, <1>3, <1>4
  <2> QED BY <1>1, <1>2, <1>3, <1>4, <2>1 DEF PlainAt, Open
<1>5. CASE call[g].form = "select"
  <2>1. n.context
    BY <1>2, <1>5
  <2>2. select[g] = "active"
    BY <2>1 DEF Live
  <2> QED BY <1>1, <1>2, <1>3, <1>5, <2>2 DEF SelectAt, Open
<1> QED BY <1>3, <1>4, <1>5

LEMMA FoundFirst ==
  ASSUME NEW list \in Seq(Nodes), Distinct(list), NEW n, Gone(list, n), Live(n)
  PROVE  SomeLive(list) /\ n = list[FirstLive(list)]
<1>1. PICK i \in 1..Taken(list) : list[i] = n
  BY RestFacts DEF Gone
<1>2. Taken(list) \in 0..Len(list)
  BY TakenFacts
<1>3. i \in DOMAIN list /\ Live(list[i])
  BY <1>1, <1>2
<1>4. SomeLive(list)
  BY <1>3 DEF SomeLive
<1>5. FirstLive(list) = Taken(list) /\ \A j \in 1..FirstLive(list) - 1 : ~Live(list[j])
  BY <1>4, TakenFacts
<1>6. ~(i \in 1..FirstLive(list) - 1)
  BY <1>3, <1>5
<1>7. i = FirstLive(list)
  BY <1>1, <1>2, <1>5, <1>6
<1> QED BY <1>1, <1>4, <1>7

(* Who is not found keeps his reply, though dead nodes be taken from him. *)
LEMMA NotFound ==
  ASSUME ChannelInv, NEW op, NEW c \in Channels, NEW list, ListOf(op, c, list),
         Dequeue(list), NEW g \in Fibers,
         ~(SomeLive(list) /\ g = list[FirstLive(list)].fiber),
         pc'[g] = pc[g], call'[g] = call[g], outcome'[g] = outcome[g],
         data'[g] = data[g]
  PROVE  ReplyOf(g)' = ReplyOf(g)
<1>1. activated'[g] = activated[g]
  <2>1. \/ SomeLive(list) /\ g = list[FirstLive(list)].fiber
        \/ activated'[g] = activated[g]
    <3>1. \A h \in Fibers :
            \/ /\ SomeLive(list) /\ h = list[FirstLive(list)].fiber
               /\ list[FirstLive(list)].arm \in DOMAIN Arms(h)
               /\ Woken(h, list[FirstLive(list)].arm)
            \/ /\ ~(SomeLive(list) /\ h = list[FirstLive(list)].fiber)
               /\ select'[h] = select[h] /\ activated'[h] = activated[h]
               /\ wakes'[h] = wakes[h]
      BY DequeueWakes
    <3> QED BY <3>1
  <2> QED BY <2>1
<1>2. \A i \in DOMAIN state[g] :
        state'[g][i] = IF Gone(list, Node(g, i)) THEN "delivered" ELSE state[g][i]
  BY DequeueFacts
<1>3. list \in Seq(Nodes) /\ Distinct(list)
  BY OnList
<1>4. ASSUME NEW i \in DOMAIN state[g], Gone(list, Node(g, i))
      PROVE  state[g][i] = "none" /\ call[g].form = "select"
  <2>1. PICK n : n = Node(g, i)
    OBVIOUS
  <2>2. n.fiber = g /\ n.arm = i /\ n.context = (call[g].form = "select")
    BY <2>1, NodeFields
  <2>3. Waiter(n, op, c)
    BY <1>4, <2>1, OnList DEF Gone
  <2>4. state[g][i] = "none"
    BY <2>2, <2>3 DEF Waiter
  <2>5. ~Live(n)
    BY <1>3, <1>4, <2>1, <2>2, FoundFirst
  <2>6. n.context
    BY <2>5 DEF Live
  <2> QED BY <2>2, <2>4, <2>6
<1>5. Waits(g) => \A i \in DOMAIN state[g] :
                    state[g][i] # "none" => state'[g][i] = state[g][i]
  BY <1>2, <1>4
<1>6. Waits(g) /\ call[g].form = "plain" => state'[g] = state[g]
  <2> SUFFICES ASSUME Waits(g), call[g].form = "plain" PROVE state'[g] = state[g]
    OBVIOUS
  <2>1. \A i \in DOMAIN state[g] : state'[g][i] = state[g][i]
    BY <1>2, <1>4
  <2>2. /\ DOMAIN state'[g] = DOMAIN state[g] /\ state'[g] \in Seq(DeliveryStates)
        /\ state[g] \in Seq(DeliveryStates)
    BY DequeueFacts DEF ChannelInv, TypeInv, WaitingTypes
  <2> QED BY <2>1, <2>2
<1> QED BY <1>1, <1>5, <1>6, ReplyKept DEF KeepsReply

(* Who is found is delivered to. *)
LEMMA Found ==
  ASSUME ChannelInv, NEW op, NEW c \in Channels, NEW list, ListOf(op, c, list),
         Dequeue(list), SomeLive(list), NEW n, n = list[FirstLive(list)],
         NEW g, g = n.fiber,
         pc'[g] = pc[g], call'[g] = call[g]
  PROVE  /\ n \in Nodes /\ g \in Fibers /\ n.call = calls[g]
         /\ Open(g) /\ pc[g] = "parked" /\ data[g] = None /\ ~closed[c]
         /\ n.arm \in DOMAIN Arms(g) /\ Arms(g)[n.arm] = [op |-> op, channel |-> c]
         /\ Settled(g)' = [arm |-> n.arm, state |-> "delivered"]
<1>1. n \in Nodes /\ Gone(list, n) /\ In(list, n) /\ Live(n)
  BY DequeueFacts DEF Gone
<1>2. /\ g \in Fibers /\ n.call = calls[g]
      /\ Open(g) /\ pc[g] = "parked" /\ ~closed[c]
      /\ n.arm \in DOMAIN Arms(g)
      /\ Arms(g)[n.arm] = [op |-> op, channel |-> c]
  BY <1>1, FoundWaits
<1>3. data[g] = None /\ call[g] # None
  BY <1>2, SettledOpen
<1>4. /\ n = Node(g, n.arm) /\ op \in {"send", "receive"}
      /\ DOMAIN state[g] = DOMAIN Arms(g) /\ DOMAIN Arms(g) = 1..Len(Arms(g))
      /\ call[g].form \in {"plain", "select"} /\ PlainAt(g) /\ activated[g] \in Nat
      /\ call[g].form = "plain" => Len(Arms(g)) = 1
  <2>1. n = Node(g, n.arm) /\ op \in {"send", "receive"}
    BY <1>1, OnList
  <2> QED BY <1>2, <1>3, <2>1, WaitFacts, RunFacts, ArmFacts DEF Waits
<1>5. state'[g][n.arm] = "delivered"
  <2>1. \A i \in DOMAIN state[g] :
          state'[g][i] = IF Gone(list, Node(g, i)) THEN "delivered" ELSE state[g][i]
    BY <1>2, DequeueFacts
  <2>2. n.arm \in DOMAIN state[g] /\ Gone(list, Node(g, n.arm))
    BY <1>1, <1>2, <1>4
  <2> QED BY <2>1, <2>2
<1>6. Woken(g, n.arm)
  BY <1>2, DequeueWakes
<1>7. Arms(g)' = Arms(g)
  BY DEF Arms
<1>8. CASE call[g].form = "plain"
  <2>1. n.arm = 1
    BY <1>2, <1>4, <1>8
  <2>2. activated[g] = 0 /\ activated'[g] = 0
    BY <1>2, <1>4, <1>6, <1>8 DEF PlainAt, Woken, Waits
  <2>3. Settled(g)' = [arm |-> 1, state |-> state'[g][1]]
    BY <1>2, <1>5, <1>8, <2>1, <2>2 DEF Settled
  <2> QED BY <1>1, <1>2, <1>3, <1>5, <2>1, <2>3
<1>9. CASE call[g].form = "select"
  <2>1. activated'[g] = n.arm /\ n.arm > 0 /\ Arms(g)[n.arm].op # "timeout"
    BY <1>2, <1>4, <1>6, <1>9 DEF Woken
  <2>2. Settled(g)' = [arm |-> n.arm, state |-> state'[g][n.arm]]
    BY <1>2, <1>7, <1>9, <2>1 DEF Settled
  <2> QED BY <1>1, <1>2, <1>3, <1>5, <2>2
<1> QED BY <1>4, <1>8, <1>9

LEMMA BeginRefines ==
  ASSUME ChannelInv, NEW f \in Fibers, NEW c \in Calls, Begin(f, c)
  PROVE  Promise!Next
<1>1. TypeInv /\ Settled(f) = NoOutcome /\ data[f] = None /\ call[f] = None
  BY SettledIdle DEF ChannelInv, Begin
<1>2. /\ calls[f] < MaxCalls /\ pc'[f] = "run" /\ Others(f)
      /\ call' = [call EXCEPT ![f] = c] /\ calls' = [calls EXCEPT ![f] = calls[f] + 1]
      /\ UNCHANGED <<closed, queue, data>>
  BY <1>1 DEF Begin, Goto, Others, Same, shared, TypeInv, CallTypes, WaitingTypes
<1>3. Settled(f)' = NoOutcome
  BY <1>2 DEF Settled, NoOutcome
<1>4. \A g \in Fibers : ReplyOf(g)' = ReplyOf(g)
  BY <1>1, <1>2, <1>3, SameReply DEF Others, ReplyOf
<1>5. Promise!Invoke(f, c)
  BY <1>1, <1>2, <1>4 DEF Promise!Invoke, ReplyOf
<1> QED BY <1>5 DEF Promise!Next

LEMMA ReturnRefines ==
  ASSUME ChannelInv, NEW f \in Fibers, Return(f)
  PROVE  Promise!Next
<1>1. TypeInv /\ CallAt(f) /\ pc[f] = "return"
  BY RunFacts DEF Return
<1>2. /\ pc'[f] = "idle" /\ data'[f] = None /\ Others(f)
      /\ call' = [call EXCEPT ![f] = None] /\ UNCHANGED <<closed, queue, calls>>
  BY <1>1 DEF Return, Goto, Others, Same, shared, TypeInv, CallTypes, WaitingTypes
<1>3. ReplyOf(f)' = Promise!NoReply
  BY <1>2 DEF ReplyOf, Settled, NoOutcome, Promise!NoReply
<1>4. ReplyOf(f) # Promise!NoReply
  BY <1>1 DEF ReplyOf, Settled, CallAt, Promise!NoReply
<1>5. \A g \in Fibers : g # f => ReplyOf(g)' = ReplyOf(g)
  BY <1>2, SameReply DEF Others
<1>6. Promise!Return(f)
  BY <1>2, <1>3, <1>4, <1>5 DEF Promise!Return, ReplyOf
<1> QED BY <1>6 DEF Promise!Next

(* Each of the arms has been tried in vain, under the locks that the call  *)
(* still holds: at this instant not one of them could take effect.         *)
LEMMA NotReadyRefines ==
  ASSUME ChannelInv, NEW f \in Fibers, NotReady(f)
  PROVE  Promise!Next
<1>1. /\ TypeInv /\ MeetInv /\ pc[f] = "run" /\ Open(f) /\ TriedOf(f)
      /\ arm[f] > Len(Arms(f)) /\ arm[f] \in Nat /\ call[f].form = "poll"
      /\ Len(Arms(f)) \in Nat /\ Len(Arms(f)) > 0 /\ DOMAIN Arms(f) = 1..Len(Arms(f))
  BY RunFacts DEF NotReady, Running, Open
<1>0. /\ Finish(f, "not ready")
      /\ UNCHANGED <<closed, queue, call, calls, state, data, select, activated,
                     wakes, timer, detached>>
  BY DEF NotReady, shared, waiting
<1>2. arm[f] = Len(Arms(f)) + 1 /\ data[f] = None
  <2>1. arm[f] <= Len(Arms(f)) + 1
    BY <1>1 DEF TriedOf
  <2>2. data[f] = None
    BY <1>1, SettledOpen
  <2> QED BY <1>1, <2>1, <2>2
<1>3. Others(f)
  BY <1>0, <1>1, Finished DEF Others, Same
<1>4. Promise!Answer(f, Promise!Reply(Len(call[f].arms) + 1, "not ready", None))
  <2>1. Settled(f)' = [arm |-> arm[f], state |-> "not ready"]
    BY <1>0, <1>1, Finished
  <2>2. ReplyOf(f)' = [arm |-> Len(call[f].arms) + 1, state |-> "not ready",
                       data |-> None]
    <3>1. data'[f] = None /\ arm[f] = Len(call[f].arms) + 1
      BY <1>0, <1>2 DEF Arms
    <3> PICK k : k = Len(call[f].arms) + 1
      OBVIOUS
    <3>2. Settled(f)' = [arm |-> k, state |-> "not ready"]
      BY <2>1, <3>1
    <3>3. ReplyOf(f)' = [arm |-> k, state |-> "not ready", data |-> None]
      BY <3>1, <3>2, ReplyIs
    <3> QED BY <3>3
  <2>3. \A g \in Fibers : g # f => ReplyOf(g)' = ReplyOf(g)
    BY <1>3, SameReply DEF Others
  <2>4. PICK r : r = Promise!Reply(Len(call[f].arms) + 1, "not ready", None)
    OBVIOUS
  <2>5. ReplyOf(f)' = r
    BY <2>2, <2>4 DEF Promise!Reply
  <2>6. Promise!Answer(f, r)
    BY <2>3, <2>5, Answered
  <2> QED BY <2>4, <2>6 DEF Promise!Answer
<1>5. Promise!Pending(f) = DOMAIN Arms(f) /\ 1 \in DOMAIN Arms(f)
  <2>1. Promise!Pending(f) = DOMAIN Arms(f)
    BY <1>1, PendingOpen
  <2>2. 1 \in DOMAIN Arms(f)
    BY <1>1
  <2> QED BY <2>1, <2>2
<1>6. ASSUME NEW i \in Promise!Pending(f), NEW c \in Channels
      PROVE  /\ Promise!Offers(f, i, "send", c) =>
                  ~closed[c] /\ Len(queue[c]) = Capacity[c]
             /\ Promise!Offers(f, i, "receive", c) => ~closed[c] /\ queue[c] = <<>>
  <2>1. TriedAt(f, i)
    <3>1. i \in DOMAIN Arms(f) /\ i < arm[f]
      BY <1>1, <1>2, <1>5
    <3> QED BY <1>1, <3>1 DEF TriedOf
  <2>2. /\ Len(queue[c]) <= Capacity[c] /\ Len(queue[c]) \in Nat
        /\ Capacity[c] \in Nat
    BY <1>1, ListTypesFacts DEF MeetInv
  <2>3. Promise!Offers(f, i, "send", c) => ~closed[c] /\ Len(queue[c]) = Capacity[c]
    <3>1. Promise!Offers(f, i, "send", c) =>
            Arms(f)[i].op = "send" /\ Arms(f)[i].channel = c
      BY DEF Promise!Offers, Arms
    <3> QED BY <2>1, <2>2, <3>1 DEF TriedAt
  <2>4. Promise!Offers(f, i, "receive", c) => ~closed[c] /\ queue[c] = <<>>
    <3>1. Promise!Offers(f, i, "receive", c) =>
            Arms(f)[i].op = "receive" /\ Arms(f)[i].channel = c
      BY DEF Promise!Offers, Arms
    <3> QED BY <2>1, <3>1 DEF TriedAt
  <2> QED BY <2>3, <2>4
<1>7. Promise!NotReady(f)
  BY <1>0, <1>1, <1>4, <1>5, <1>6 DEF Promise!NotReady
<1> QED BY <1>7 DEF Promise!Next

(* Two calls take effect at once. *)
LEMMA AnsweredBoth ==
  ASSUME NEW f \in Fibers, NEW g \in Fibers, f # g, NEW r, NEW s,
         ReplyOf(f)' = r, ReplyOf(g)' = s,
         \A h \in Fibers : h # f /\ h # g => ReplyOf(h)' = ReplyOf(h)
  PROVE  [h \in Fibers |-> ReplyOf(h)'] =
           [[h \in Fibers |-> ReplyOf(h)] EXCEPT ![f] = r, ![g] = s]
OBVIOUS

LEMMA Met ==
  ASSUME ChannelInv, NEW c \in Channels, ~closed[c], queue[c] = <<>>,
         NEW f \in Fibers, Open(f), NEW i \in DOMAIN Arms(f),
         Arms(f)[i] = [op |-> "send", channel |-> c],
         NEW g \in Fibers, Open(g), NEW j \in DOMAIN Arms(g),
         Arms(g)[j] = [op |-> "receive", channel |-> c],
         f # g, pc[f] = "parked" \/ pc[g] = "parked",
         ReplyOf(f)' = [arm |-> i, state |-> "delivered", data |-> None],
         ReplyOf(g)' = [arm |-> j, state |-> "delivered", data |-> Id(f)],
         \A h \in Fibers : h # f /\ h # g => ReplyOf(h)' = ReplyOf(h),
         UNCHANGED <<closed, queue, call, calls>>
  PROVE  Promise!Next
<1>1. /\ i \in Promise!Pending(f) /\ Promise!Offers(f, i, "send", c)
      /\ pc[f] = "parked" => Promise!Waits(f, i, "send", c)
  BY OffersOpen
<1>2. /\ j \in Promise!Pending(g) /\ Promise!Offers(g, j, "receive", c)
      /\ pc[g] = "parked" => Promise!Waits(g, j, "receive", c)
  BY OffersOpen
<1> PICK r : r = Promise!Reply(i, "delivered", None)
  OBVIOUS
<1> PICK s : s = Promise!Reply(j, "delivered", Promise!Value(f))
  OBVIOUS
<1>3. ReplyOf(f)' = r /\ ReplyOf(g)' = s
  BY DEF Promise!Reply, Promise!Value, Id
<1>4. [h \in Fibers |-> ReplyOf(h)'] =
        [[h \in Fibers |-> ReplyOf(h)] EXCEPT ![f] = r, ![g] = s]
  BY <1>3, AnsweredBoth
<1>5. Promise!Meet(f, i, g, j, c)
  BY <1>1, <1>2, <1>4 DEF Promise!Meet, ReplyOf
<1> QED BY <1>1, <1>2, <1>5 DEF Promise!Next

(* What send_internal and receive_internal do to the calls: to the one     *)
(* that runs, to the one it finds waiting, and to no other.                *)
LEMMA TakerReplies ==
  ASSUME ChannelInv, NEW f \in Fibers, NEW op, NEW c \in Channels, NEW list,
         ListOf(op, c, list), Dequeue(list), pc[f] = "run",
         \A g \in Fibers : g # f =>
           /\ pc'[g] = pc[g] /\ outcome'[g] = outcome[g]
           /\ data'[g] = data[g] \/ (SomeLive(list) /\ g = list[FirstLive(list)].fiber),
         UNCHANGED call
  PROVE  \A g \in Fibers :
           g # f /\ ~(SomeLive(list) /\ g = list[FirstLive(list)].fiber) =>
             ReplyOf(g)' = ReplyOf(g)
<1> SUFFICES ASSUME NEW g \in Fibers, g # f,
                    ~(SomeLive(list) /\ g = list[FirstLive(list)].fiber)
             PROVE  ReplyOf(g)' = ReplyOf(g)
  OBVIOUS
<1>1. /\ pc'[g] = pc[g] /\ call'[g] = call[g] /\ outcome'[g] = outcome[g]
      /\ data'[g] = data[g]
  OBVIOUS
<1> QED BY <1>1, NotFound

(* An arm tried in vain. *)
LEMMA TakerGoesOn ==
  ASSUME ChannelInv, NEW f \in Fibers, NEW op, NEW c \in Channels, NEW list,
         ListOf(op, c, list), Dequeue(list), pc[f] = "run", ~SomeLive(list),
         NextArm(f), UNCHANGED <<closed, queue, call, calls, data>>
  PROVE  UNCHANGED Promise!vars
<1>1. UNCHANGED <<pc, outcome>>
  BY DEF NextArm
<1>2. \A g \in Fibers : g # f => ReplyOf(g)' = ReplyOf(g)
  BY <1>1, TakerReplies
<1>3. ReplyOf(f)' = ReplyOf(f)
  BY <1>1, NotFound
<1> QED BY <1>2, <1>3, Unnoticed

LEMMA ExecuteSendRefines ==
  ASSUME ChannelInv, NEW f \in Fibers, ExecuteSend(f)
  PROVE  Promise!Next \/ UNCHANGED Promise!vars
<1> PICK c : c = Chan(f)
  OBVIOUS
<1> PICK i : i = arm[f]
  OBVIOUS
<1>0. /\ TypeInv /\ MeetInv /\ pc[f] = "run" /\ Open(f)
      /\ i \in DOMAIN Arms(f) /\ c \in Channels
      /\ Arms(f)[i] = [op |-> "send", channel |-> c]
      /\ UNCHANGED <<closed, call, calls>>
  BY ExecutingFacts DEF ExecuteSend, Open
<1>1. data[f] = None
  BY <1>0, SettledOpen
<1>2. i \in Promise!Pending(f) /\ Promise!Offers(f, i, "send", c)
  BY <1>0, OffersOpen
<1>3. CASE closed[c]
  <2>1. Finish(f, "closed") /\ UNCHANGED <<queue, state, data, select, activated, wakes,
                                           timer, detached>>
    BY <1>3 DEF ExecuteSend, waiting
  <2>2. Settled(f)' = [arm |-> i, state |-> "closed"] /\ Others(f)
    BY <1>0, <2>1, Finished DEF Others, Same
  <2>3. ReplyOf(f)' = [arm |-> i, state |-> "closed", data |-> None]
    BY <1>1, <2>1, <2>2 DEF ReplyOf
  <2>4. \A g \in Fibers : g # f => ReplyOf(g)' = ReplyOf(g)
    BY <2>2, SameReply DEF Others
  <2>5. UNCHANGED <<closed, queue, call, calls>>
    BY <1>0, <2>1
  <2> PICK op : op = "send"
    OBVIOUS
  <2>6. Arms(f)[i] = [op |-> op, channel |-> c] /\ op = "send"
    BY <1>0
  <2>7. i \in DOMAIN Arms(f) /\ c \in Channels /\ Open(f)
    BY <1>0
  <2>8. closed[c] /\ (op = "send" \/ (op = "receive" /\ queue[c] = <<>>))
    BY <1>3, <2>6
  <2> QED BY <2>3, <2>4, <2>5, <2>6, <2>7, <2>8, Failed
<1>4. CASE ~closed[c]
  <2> PICK list : list = receivers[c]
    OBVIOUS
  <2>1. ListOf("receive", c, list)
    BY DEF ListOf
  <2>2. /\ Dequeue(list)
        /\ \/ /\ SomeLive(list)
              /\ data' = [data EXCEPT ![list[FirstLive(list)].fiber] = Id(f)]
              /\ Finish(f, "delivered") /\ UNCHANGED queue
           \/ /\ ~SomeLive(list) /\ Len(queue[c]) < Capacity[c]
              /\ queue' = [queue EXCEPT ![c] = Append(queue[c], Id(f))]
              /\ Finish(f, "delivered") /\ UNCHANGED data
           \/ /\ ~SomeLive(list) /\ Len(queue[c]) >= Capacity[c]
              /\ NextArm(f) /\ UNCHANGED <<data, queue>>
    BY <1>4 DEF ExecuteSend
  <2>3. Finish(f, "delivered") =>
          /\ Settled(f)' = [arm |-> i, state |-> "delivered"]
          /\ \A g \in Fibers : g # f => pc'[g] = pc[g] /\ outcome'[g] = outcome[g]
    BY <1>0, Finished
  <2>4. CASE SomeLive(list)
    <3>1. /\ data' = [data EXCEPT ![list[FirstLive(list)].fiber] = Id(f)]
          /\ Finish(f, "delivered") /\ UNCHANGED queue
      BY <2>2, <2>4
    <3> PICK n : n = list[FirstLive(list)]
      OBVIOUS
    <3> PICK g : g = n.fiber
      OBVIOUS
    <3>2. g \in Fibers /\ g # f
      BY <1>0, <2>1, <2>2, <2>4, TakerStays
    <3>3. pc'[g] = pc[g] /\ call'[g] = call[g]
      BY <1>0, <2>3, <3>1, <3>2
    <3>4. /\ Open(g) /\ pc[g] = "parked" /\ data[g] = None
          /\ n.arm \in DOMAIN Arms(g)
          /\ Arms(g)[n.arm] = [op |-> "receive", channel |-> c]
          /\ Settled(g)' = [arm |-> n.arm, state |-> "delivered"]
      BY <2>1, <1>0, <2>2, <2>4, <3>3, Found
    <3>5. /\ n.arm \in Promise!Pending(g) /\ Promise!Offers(g, n.arm, "receive", c)
          /\ Promise!Waits(g, n.arm, "receive", c)
      BY <3>2, <3>4, OffersOpen
    <3>6. data'[f] = None /\ data'[g] = Id(f) /\ \A h \in Fibers : h # g => data'[h] = data[h]
      BY <1>0, <1>1, <3>1, <3>2 DEF TypeInv, WaitingTypes
    <3>7. /\ ReplyOf(f)' = [arm |-> i, state |-> "delivered", data |-> None]
          /\ ReplyOf(g)' = [arm |-> n.arm, state |-> "delivered", data |-> Id(f)]
      BY <2>3, <3>1, <3>4, <3>6 DEF ReplyOf
    <3>8. \A h \in Fibers : h # f /\ h # g => ReplyOf(h)' = ReplyOf(h)
      <4>1. \A h \in Fibers : h # f =>
              /\ pc'[h] = pc[h] /\ outcome'[h] = outcome[h]
              /\ data'[h] = data[h] \/ (SomeLive(list) /\ h = list[FirstLive(list)].fiber)
        BY <2>3, <2>4, <3>1, <3>6
      <4>2. \A h \in Fibers :
              h # f /\ ~(SomeLive(list) /\ h = list[FirstLive(list)].fiber) =>
                ReplyOf(h)' = ReplyOf(h)
        BY <1>0, <2>1, <2>2, <4>1, TakerReplies
      <4> QED BY <4>2
    <3>9. queue[c] = <<>>
      BY <1>0, <2>4 DEF MeetInv
    <3>10. pc[f] = "parked" \/ pc[g] = "parked"
      BY <3>4
    <3>11. UNCHANGED <<closed, queue, call, calls>>
      BY <1>0, <3>1
    <3> QED BY <1>0, <1>4, <3>2, <3>4, <3>7, <3>8, <3>9, <3>10, <3>11, Met
  <2>5. CASE ~SomeLive(list) /\ Len(queue[c]) < Capacity[c]
    <3>1. /\ queue' = [queue EXCEPT ![c] = Append(queue[c], Id(f))]
          /\ Finish(f, "delivered") /\ UNCHANGED data
      <4>1. queue[c] \in Seq(Ids) /\ Len(queue[c]) \in Nat /\ Capacity[c] \in Nat
        BY <1>0, ListTypesFacts
      <4> QED BY <2>2, <2>5, <4>1
    <3>2. ReplyOf(f)' = [arm |-> i, state |-> "delivered", data |-> None]
      BY <1>1, <2>3, <3>1 DEF ReplyOf
    <3>3. \A g \in Fibers : g # f => ReplyOf(g)' = ReplyOf(g)
      <4>1. \A h \in Fibers : h # f =>
              /\ pc'[h] = pc[h] /\ outcome'[h] = outcome[h]
              /\ data'[h] = data[h] \/ (SomeLive(list) /\ h = list[FirstLive(list)].fiber)
        BY <2>3, <3>1
      <4>2. \A h \in Fibers :
              h # f /\ ~(SomeLive(list) /\ h = list[FirstLive(list)].fiber) =>
                ReplyOf(h)' = ReplyOf(h)
        BY <1>0, <2>1, <2>2, <4>1, TakerReplies
      <4> QED BY <2>5, <4>2
    <3>4. Promise!Answer(f, Promise!Reply(i, "delivered", None))
      BY <3>2, <3>3, Answered DEF Promise!Reply
    <3>5. Promise!Put(f, i, c)
      BY <1>0, <1>2, <1>4, <2>5, <3>1, <3>4 DEF Promise!Put, Promise!Value, Id
    <3> QED BY <1>0, <1>2, <3>5 DEF Promise!Next
  <2>6. CASE ~SomeLive(list) /\ ~(Len(queue[c]) < Capacity[c])
    <3>1. NextArm(f) /\ UNCHANGED <<data, queue>>
      BY <2>2, <2>6
    <3> QED BY <1>0, <2>1, <2>2, <2>6, <3>1, TakerGoesOn
  <2> QED BY <2>4, <2>5, <2>6
<1> QED BY <1>3, <1>4

LEMMA ExecuteReceiveRefines ==
  ASSUME ChannelInv, NEW f \in Fibers, ExecuteReceive(f)
  PROVE  Promise!Next \/ UNCHANGED Promise!vars
<1> PICK c : c = Chan(f)
  OBVIOUS
<1> PICK i : i = arm[f]
  OBVIOUS
<1> PICK list : list = senders[c]
  OBVIOUS
<1>0. /\ TypeInv /\ MeetInv /\ pc[f] = "run" /\ Open(f)
      /\ i \in DOMAIN Arms(f) /\ c \in Channels
      /\ Arms(f)[i] = [op |-> "receive", channel |-> c]
  BY ExecutingFacts DEF ExecuteReceive, Open
<1>1. data[f] = None
  BY <1>0, SettledOpen
<1>2. i \in Promise!Pending(f) /\ Promise!Offers(f, i, "receive", c)
  BY <1>0, OffersOpen
<1>3. UNCHANGED <<closed, call, calls>>
  BY DEF ExecuteReceive
<1>4. /\ ListOf("send", c, list) /\ Dequeue(list)
      /\ \/ /\ queue[c] # <<>>
            /\ data' = [data EXCEPT ![f] = Head(queue[c])]
            /\ queue' = [queue EXCEPT ![c] =
                 IF SomeLive(list) THEN Refill(queue[c], Sent(list[FirstLive(list)]))
                                   ELSE Tail(queue[c])]
            /\ Finish(f, "delivered")
         \/ /\ queue[c] = <<>> /\ SomeLive(list)
            /\ data' = [data EXCEPT ![f] = Sent(list[FirstLive(list)])]
            /\ Finish(f, "delivered") /\ UNCHANGED queue
         \/ /\ queue[c] = <<>> /\ ~SomeLive(list)
            /\ IF closed[c] THEN Finish(f, "closed") ELSE NextArm(f)
            /\ UNCHANGED <<data, queue>>
  BY DEF ExecuteReceive, ListOf
<1>5. \A g \in Fibers : g # f =>
        pc'[g] = pc[g] /\ outcome'[g] = outcome[g] /\ data'[g] = data[g]
  <2>1. \A g \in Fibers : g # f => pc'[g] = pc[g] /\ outcome'[g] = outcome[g]
    BY <1>0, <1>4, Finished DEF NextArm
  <2>2. \A g \in Fibers : g # f => data'[g] = data[g]
    BY <1>0, <1>4 DEF TypeInv, WaitingTypes
  <2> QED BY <2>1, <2>2
<1>6. \A g \in Fibers :
        g # f /\ ~(SomeLive(list) /\ g = list[FirstLive(list)].fiber) =>
          ReplyOf(g)' = ReplyOf(g)
  <2>1. ListOf("send", c, list) /\ Dequeue(list) /\ pc[f] = "run" /\ UNCHANGED call
    BY <1>0, <1>3, <1>4
  <2> QED BY <1>0, <1>5, <2>1, TakerReplies
<1>7. Finish(f, "delivered") => Settled(f)' = [arm |-> i, state |-> "delivered"]
  BY <1>0, Finished
<1>8. CASE SomeLive(list)
  <2> PICK n : n = list[FirstLive(list)]
    OBVIOUS
  <2> PICK g : g = n.fiber
    OBVIOUS
  <2>1. g \in Fibers /\ g # f
    BY <1>0, <1>4, <1>8, TakerStays
  <2>2. pc'[g] = pc[g] /\ call'[g] = call[g] /\ data'[g] = data[g]
    BY <1>3, <1>5, <2>1
  <2>3. /\ Open(g) /\ pc[g] = "parked" /\ data[g] = None /\ n.call = calls[g]
        /\ n.arm \in DOMAIN Arms(g) /\ ~closed[c]
        /\ Arms(g)[n.arm] = [op |-> "send", channel |-> c]
        /\ Settled(g)' = [arm |-> n.arm, state |-> "delivered"]
    BY <1>0, <1>4, <1>8, <2>2, Found
  <2>4. ReplyOf(g)' = [arm |-> n.arm, state |-> "delivered", data |-> None]
    <3>1. data'[g] = None
      BY <2>2, <2>3
    <3> QED BY <2>3, <3>1, ReplyIs
  <2>5. \A h \in Fibers : h # f /\ h # g => ReplyOf(h)' = ReplyOf(h)
    BY <1>6
  <2>6. Sent(list[FirstLive(list)]) = Id(g)
    BY <2>3 DEF Sent, Id
  <2>7. Finish(f, "delivered")
    BY <1>4, <1>8
  <2>8. CASE queue[c] = <<>>
    <3>1. data' = [data EXCEPT ![f] = Id(g)] /\ UNCHANGED queue
      BY <1>4, <1>8, <2>6, <2>8
    <3>2. data'[f] = Id(g)
      BY <1>0, <3>1 DEF TypeInv, WaitingTypes
    <3> PICK v : v = Id(g)
      OBVIOUS
    <3>3. data'[f] = v
      BY <3>2
    <3>4. ReplyOf(f)' = [arm |-> i, state |-> "delivered", data |-> v]
      BY <1>7, <2>7, <3>3, ReplyIs
    <3>5. ReplyOf(f)' = [arm |-> i, state |-> "delivered", data |-> Id(g)]
      BY <3>4
    <3>6. UNCHANGED <<closed, queue, call, calls>> /\ (pc[f] = "parked" \/ pc[g] = "parked")
      BY <1>3, <2>3, <3>1
    <3> QED BY <1>0, <2>1, <2>3, <2>4, <2>5, <2>8, <3>5, <3>6, Met
  <2>9. CASE queue[c] # <<>>
    <3>1. /\ data' = [data EXCEPT ![f] = Head(queue[c])]
          /\ queue' = [queue EXCEPT ![c] = Append(Tail(queue[c]), Id(g))]
      BY <1>4, <1>8, <2>6, <2>9 DEF Refill
    <3>2. data'[f] = Head(queue[c])
      BY <1>0, <3>1 DEF TypeInv, WaitingTypes
    <3> PICK v : v = Head(queue[c])
      OBVIOUS
    <3>3. data'[f] = v
      BY <3>2
    <3>4. ReplyOf(f)' = [arm |-> i, state |-> "delivered", data |-> v]
      BY <1>7, <2>7, <3>3, ReplyIs
    <3>5. Len(queue[c]) = Capacity[c]
      BY <1>0, <1>8 DEF MeetInv
    <3> PICK j : j = n.arm
      OBVIOUS
    <3>6. j \in Promise!Pending(g) /\ Promise!Waits(g, j, "send", c)
      BY <2>1, <2>3, OffersOpen
    <3> PICK r : r = Promise!Reply(i, "delivered", v)
      OBVIOUS
    <3> PICK s : s = Promise!Reply(j, "delivered", None)
      OBVIOUS
    <3>7. ReplyOf(f)' = r /\ ReplyOf(g)' = s
      BY <2>4, <3>4 DEF Promise!Reply
    <3>8. [h \in Fibers |-> ReplyOf(h)'] =
            [[h \in Fibers |-> ReplyOf(h)] EXCEPT ![f] = r, ![g] = s]
      BY <2>1, <2>5, <3>7, AnsweredBoth
    <3>9. Promise!TakeAndRefill(f, i, g, j, c)
      BY <1>2, <1>3, <2>1, <2>3, <2>9, <3>1, <3>5, <3>6, <3>8
         DEF Promise!TakeAndRefill, Promise!Value, Id, ReplyOf
    <3> QED BY <1>0, <1>2, <2>1, <3>6, <3>9 DEF Promise!Next
  <2> QED BY <2>8, <2>9
<1>9. CASE ~SomeLive(list) /\ queue[c] # <<>>
  <2>1. /\ data' = [data EXCEPT ![f] = Head(queue[c])]
        /\ queue' = [queue EXCEPT ![c] = Tail(queue[c])] /\ Finish(f, "delivered")
    BY <1>4, <1>9
  <2> PICK v : v = Head(queue[c])
    OBVIOUS
  <2>2. data'[f] = v
    BY <1>0, <2>1 DEF TypeInv, WaitingTypes
  <2>3. ReplyOf(f)' = [arm |-> i, state |-> "delivered", data |-> v]
    BY <1>7, <2>1, <2>2, ReplyIs
  <2>4. \A g \in Fibers : g # f => ReplyOf(g)' = ReplyOf(g)
    BY <1>6, <1>9
  <2> PICK r : r = Promise!Reply(i, "delivered", v)
    OBVIOUS
  <2>5. ReplyOf(f)' = r
    BY <2>3 DEF Promise!Reply
  <2>6. Promise!Answer(f, r)
    BY <2>4, <2>5, Answered
  <2>7. Promise!Take(f, i, c)
    BY <1>2, <1>3, <1>9, <2>1, <2>6 DEF Promise!Take, Promise!Answer
  <2> QED BY <1>0, <1>2, <2>7 DEF Promise!Next
<1>10. CASE ~SomeLive(list) /\ queue[c] = <<>> /\ closed[c]
  <2>1. Finish(f, "closed") /\ UNCHANGED <<data, queue>>
    BY <1>4, <1>10
  <2>2. Settled(f)' = [arm |-> i, state |-> "closed"] /\ data'[f] = None
    BY <1>0, <1>1, <2>1, Finished
  <2>3. ReplyOf(f)' = [arm |-> i, state |-> "closed", data |-> None]
    BY <2>2, ReplyIs
  <2>4. \A g \in Fibers : g # f => ReplyOf(g)' = ReplyOf(g)
    BY <1>6, <1>10
  <2>5. UNCHANGED <<closed, queue, call, calls>>
    BY <1>3, <2>1
  <2> PICK op : op = "receive"
    OBVIOUS
  <2>6. Arms(f)[i] = [op |-> op, channel |-> c] /\ op = "receive"
    BY <1>0
  <2>7. i \in DOMAIN Arms(f) /\ c \in Channels /\ Open(f)
    BY <1>0
  <2>8. closed[c] /\ (op = "send" \/ (op = "receive" /\ queue[c] = <<>>))
    BY <1>10, <2>6
  <2> QED BY <2>3, <2>4, <2>5, <2>6, <2>7, <2>8, Failed
<1>11. CASE ~SomeLive(list) /\ queue[c] = <<>> /\ ~closed[c]
  <2>1. NextArm(f) /\ UNCHANGED <<closed, queue, call, calls, data>>
    BY <1>3, <1>4, <1>11
  <2> QED BY <1>0, <1>4, <1>11, <2>1, TakerGoesOn
<1> QED BY <1>8, <1>9, <1>10, <1>11

LEMMA ExpireRefines ==
  ASSUME ChannelInv, NEW f \in Fibers, Expire(f)
  PROVE  Promise!Next \/ UNCHANGED Promise!vars
<1> PICK i : i = timer[f]
  OBVIOUS
<1>0. /\ TypeInv /\ Waits(f) /\ pc[f] = "parked" /\ i # 0
      /\ SelectAt(f) /\ PlainAt(f) /\ call[f] # None
      /\ call[f].form \in {"plain", "select"}
  BY WaitFacts, RunFacts DEF Expire, Waits
<1>1. /\ call[f].form = "select" /\ i \in DOMAIN Arms(f)
      /\ Arms(f)[i].op = "timeout" /\ i \in Nat
  BY <1>0 DEF SelectAt, PlainAt, TimerAt, TypeInv, CallTypes
<1>2. /\ UNCHANGED <<closed, queue, pc, call, calls, state, data, outcome>>
  BY DEF Expire, shared
<1>3. Others(f)
  BY <1>0 DEF Expire, Others, Same, shared, TypeInv, CallTypes, WaitingTypes
<1>4. CASE select[f] # "active"
  <2>1. KeepsReply(f)
    BY <1>2, <1>4 DEF Expire, KeepsReply
  <2> QED BY <1>2, <1>3, <2>1, ReplyKept, OwnReply
<1>5. CASE select[f] = "active"
  <2>1. activated'[f] = i
    BY <1>0, <1>5 DEF Expire, TypeInv, WaitingTypes
  <2>2. activated[f] = 0 /\ data[f] = None
    BY <1>0, <1>1, <1>5 DEF SelectAt
  <2>3. Open(f)
    BY <1>0, <1>1, <2>2 DEF Open
  <2>4. Arms(f)' = Arms(f)
    BY <1>2 DEF Arms
  <2>5. Settled(f)' = [arm |-> i, state |-> "expired"] /\ data'[f] = None
    <3>1. i > 0 /\ pc'[f] = "parked" /\ call'[f].form = "select"
      BY <1>0, <1>1, <1>2
    <3>2. Settled(f)' = [arm |-> i, state |-> "expired"]
      BY <1>1, <2>1, <2>4, <3>1 DEF Settled
    <3> QED BY <1>2, <2>2, <3>2
  <2>6. ReplyOf(f)' = [arm |-> i, state |-> "expired", data |-> None]
    BY <2>5, ReplyIs
  <2>7. \A g \in Fibers : g # f => ReplyOf(g)' = ReplyOf(g)
    BY <1>3, SameReply DEF Others
  <2>8. Arms(f)[i] = [op |-> "timeout", channel |-> None]
    BY <1>0, <1>1, AnArm
  <2>9. i \in Promise!Pending(f) /\ Promise!Waits(f, i, "timeout", None)
    BY <1>0, <1>1, <2>3, <2>8, OffersOpen
  <2>10. Promise!Answer(f, Promise!Reply(i, "expired", None))
    BY <2>6, <2>7, Answered DEF Promise!Reply
  <2>11. Promise!Expire(f, i)
    BY <1>2, <2>9, <2>10 DEF Promise!Expire
  <2> QED BY <2>9, <2>11 DEF Promise!Next
<1> QED BY <1>4, <1>5

LEMMA ExecuteCloseRefines ==
  ASSUME ChannelInv, NEW f \in Fibers, ExecuteClose(f)
  PROVE  Promise!Next
<1> PICK c : c = Chan(f)
  OBVIOUS
<1>0. /\ TypeInv /\ pc[f] = "run" /\ c \in Channels
      /\ arm[f] \in DOMAIN Arms(f) /\ Arms(f)[arm[f]] = [op |-> "close", channel |-> c]
      /\ call[f] # None /\ Open(f)
  BY ExecutingFacts DEF ExecuteClose, Open
<1>1. arm[f] = 1 /\ data[f] = None /\ call[f].form = "close"
  <2>1. call[f].form = "close" /\ Len(Arms(f)) = 1 /\ DOMAIN Arms(f) = 1..Len(Arms(f))
    BY <1>0, ArmFacts
  <2>2. data[f] = None
    BY <1>0, SettledOpen
  <2> QED BY <1>0, <2>1, <2>2
<1>2. UNCHANGED <<queue, call, calls, state, data, select, activated, wakes, timer>>
  BY DEF ExecuteClose, waiting
<1> PICK s : s = IF closed[c] THEN "already closed" ELSE "delivered"
  OBVIOUS
<1>3. /\ closed' = [closed EXCEPT ![c] = TRUE]
      /\ Settled(f)' = [arm |-> 1, state |-> s] /\ Others(f)
  <2>1. CASE closed[c]
    <3>1. Finish(f, "already closed") /\ UNCHANGED <<closed, detached>>
      BY <2>1 DEF ExecuteClose
    <3>2. closed' = [closed EXCEPT ![c] = TRUE]
      BY <1>0, <2>1, <3>1 DEF TypeInv, ListTypes
    <3>3. Settled(f)' = [arm |-> 1, state |-> s]
      BY <1>0, <1>1, <2>1, <3>1, Finished
    <3>4. Others(f)
      BY <1>0, <1>2, <3>1, Finished DEF Others, Same
    <3> QED BY <3>2, <3>3, <3>4
  <2>2. CASE ~closed[c]
    <3>1. /\ closed' = [closed EXCEPT ![c] = TRUE]
          /\ detached' = [detached EXCEPT ![f] = senders[c] \o receivers[c]]
          /\ pc' = [pc EXCEPT ![f] = "closing"] /\ UNCHANGED <<arm, outcome>>
      BY <2>2 DEF ExecuteClose, Goto
    <3>2. pc'[f] = "closing" /\ Others(f)
      BY <1>0, <1>2, <3>1 DEF Others, Same, TypeInv, CallTypes
    <3>3. Settled(f)' = [arm |-> 1, state |-> s]
      BY <2>2, <3>2 DEF Settled
    <3> QED BY <3>1, <3>2, <3>3
  <2> QED BY <2>1, <2>2
<1>4. Promise!Offers(f, 1, "close", c)
  BY <1>0, <1>1, OffersOpen
<1>5. ReplyOf(f)' = [arm |-> 1, state |-> s, data |-> None]
  <2>1. data'[f] = None
    BY <1>1, <1>2
  <2> QED BY <1>3, <2>1, ReplyIs
<1> PICK r : r = Promise!Reply(1, s, None)
  OBVIOUS
<1>6. Promise!Answer(f, r)
  <2>1. ReplyOf(f)' = r
    BY <1>5 DEF Promise!Reply
  <2>2. \A g \in Fibers : g # f => ReplyOf(g)' = ReplyOf(g)
    BY <1>3, SameReply DEF Others
  <2> QED BY <2>1, <2>2, Answered
<1>7. Promise!Close(f, c)
  BY <1>2, <1>3, <1>4, <1>6 DEF Promise!Close, Promise!Answer
<1> QED BY <1>0, <1>7 DEF Promise!Next

(* close tells a plain call with the state of its node. *)
LEMMA CloseMarkRefines ==
  ASSUME ChannelInv, NEW f \in Fibers, CloseMark(f)
  PROVE  Promise!Next \/ UNCHANGED Promise!vars
<1>0. /\ TypeInv /\ pc[f] = "closing" /\ detached[f] # <<>> /\ detached[f] \in Seq(Nodes)
      /\ Distinct(detached[f]) /\ call[f] # None
  BY RunFacts DEF CloseMark, ChannelInv, DetachedInv, TypeInv, CallTypes
<1>1. PICK n \in Nodes : n = Head(detached[f]) /\ n = detached[f][1] /\ 1 \in DOMAIN detached[f]
  BY <1>0, TailFacts
<1> PICK g : g = n.fiber
  OBVIOUS
<1> PICK c : c = Chan(f)
  OBVIOUS
<1>2. /\ state' = Mark({n}, "closed") /\ pc' = [pc EXCEPT ![f] = "close wake"]
      /\ UNCHANGED <<closed, queue, call, arm, calls, data, select, activated,
                     wakes, outcome>>
  BY <1>1 DEF CloseMark, Goto, shared
<1>3. /\ state' \in [Fibers -> Seq(DeliveryStates)]
      /\ \A h \in Fibers :
           /\ DOMAIN state'[h] = DOMAIN state[h]
           /\ \A i \in DOMAIN state[h] :
                state'[h][i] = IF n.fiber = h /\ n.call = calls[h] /\ n.arm = i
                                 THEN "closed" ELSE state[h][i]
           /\ (n.fiber = h /\ n.call = calls[h]) \/ state'[h] = state[h]
  <2>1. "closed" \in DeliveryStates
    BY DEF DeliveryStates
  <2>2. PICK T : T = {n}
    OBVIOUS
  <2>3. state' = Mark(T, "closed")
    BY <1>2, <2>2
  <2>4. /\ state' \in [Fibers -> Seq(DeliveryStates)]
        /\ \A h \in Fibers :
             /\ DOMAIN state'[h] = DOMAIN state[h]
             /\ \A i \in DOMAIN state[h] :
                  state'[h][i] =
                    IF \E m \in T : m.fiber = h /\ m.call = calls[h] /\ m.arm = i
                      THEN "closed" ELSE state[h][i]
             /\ (\A m \in T : m.fiber = h => m.call # calls[h]) => state'[h] = state[h]
    BY <1>0, <2>1, <2>3, MarkFacts
  <2> QED BY <2>2, <2>4
<1>4. /\ closed[c] /\ c \in Channels /\ DetachedAt(f, 1) /\ g \in Fibers
      /\ n.call = calls[g] => g # f
  BY <1>1, VisitFacts
<1>5. ReplyOf(f)' = ReplyOf(f)
  <2>1. Settled(f)' = Settled(f)
    <3>1. pc'[f] = "close wake"
      BY <1>0, <1>2 DEF TypeInv, CallTypes
    <3> QED BY <1>0, <3>1 DEF Settled
  <2> QED BY <1>2, <2>1 DEF ReplyOf
<1>6. /\ ~n.context => n.call = calls[g] /\ pc[g] = "parked" /\ wakes[g] = 0
      /\ n.call = calls[g] => pc[g] \in {"idle", "return", "parked", "unwait"}
      /\ n.call = calls[g] /\ Waits(g) =>
           /\ state[g][n.arm] = "none"
           /\ \/ OfArm(n, "send", c)
              \/ OfArm(n, "receive", c) /\ (Live(n) => queue[c] = <<>>)
  BY <1>0, <1>1, <1>4 DEF DetachedAt
<1>7. ASSUME NEW h \in Fibers, h # f, ~(h = g /\ ~n.context) PROVE ReplyOf(h)' = ReplyOf(h)
  <2>1. /\ pc'[h] = pc[h] /\ call'[h] = call[h] /\ outcome'[h] = outcome[h]
        /\ activated'[h] = activated[h] /\ data'[h] = data[h]
    BY <1>0, <1>2, <1>7 DEF TypeInv, CallTypes
  <2>2. CASE ~(n.fiber = h /\ n.call = calls[h])
    <3>1. state'[h] = state[h]
      BY <1>3, <2>2
    <3> QED BY <2>1, <3>1, ReplyKept DEF KeepsReply
  <2>3. CASE n.fiber = h /\ n.call = calls[h]
    <3>1. h = g /\ n.context
      BY <1>7, <2>3
    <3>2. Waits(h) => call[h].form = "select" /\ state[h][n.arm] = "none"
      <4>1. Waits(h) => (n.context <=> call[h].form = "select")
        BY <1>1, <2>3, VisitWaits
      <4> QED BY <1>6, <2>3, <3>1, <4>1
    <3>3. Waits(h) => \A i \in DOMAIN state[h] :
                        state[h][i] # "none" => state'[h][i] = state[h][i]
      BY <1>3, <3>2
    <3>4. ~(Waits(h) /\ call[h].form = "plain")
      BY <3>2
    <3> QED BY <2>1, <3>3, <3>4, ReplyKept DEF KeepsReply
  <2> QED BY <2>2, <2>3
<1>8. CASE n.context
  <2>1. \A h \in Fibers : ReplyOf(h)' = ReplyOf(h)
    BY <1>5, <1>7, <1>8
  <2> QED BY <1>2, <2>1, Unnoticed
<1>9. CASE ~n.context
  <2>1. /\ n.call = calls[g] /\ pc[g] = "parked" /\ g # f /\ Waits(g)
        /\ state[g][n.arm] = "none" /\ Live(n)
    BY <1>4, <1>6, <1>9 DEF Waits, Live
  <2>2. /\ n.arm \in DOMAIN Arms(g) /\ n.arm \in DOMAIN state[g]
        /\ n.context <=> call[g].form = "select"
    BY <1>1, <2>1, VisitWaits
  <2>3. call[g].form = "plain" /\ PlainAt(g) /\ n.arm = 1
    <3>1. call[g].form \in {"plain", "select"} /\ PlainAt(g) /\ call[g] # None
      BY <1>4, <2>1, WaitFacts, RunFacts DEF Waits
    <3>2. call[g].form = "plain"
      BY <1>9, <2>2, <3>1
    <3>3. Len(Arms(g)) = 1 /\ DOMAIN Arms(g) = 1..Len(Arms(g))
      BY <1>0, <1>4, <3>1, <3>2, ArmFacts
    <3> QED BY <2>2, <3>1, <3>2, <3>3
  <2>4. Open(g) /\ data[g] = None /\ activated[g] = 0
    BY <2>1, <2>3 DEF Open, PlainAt
  <2>5. Settled(g)' = [arm |-> 1, state |-> "closed"] /\ data'[g] = None
    <3>1. state'[g][1] = "closed"
      BY <1>3, <1>4, <2>1, <2>2, <2>3
    <3>2. /\ pc'[g] = "parked" /\ call'[g].form = "plain" /\ activated'[g] = 0
          /\ data'[g] = None
      BY <1>0, <1>2, <1>4, <2>1, <2>3, <2>4 DEF TypeInv, CallTypes
    <3> QED BY <3>1, <3>2 DEF Settled
  <2>6. ReplyOf(g)' = [arm |-> 1, state |-> "closed", data |-> None]
    BY <2>5, ReplyIs
  <2>7. \A h \in Fibers : h # g => ReplyOf(h)' = ReplyOf(h)
    BY <1>5, <1>7
  <2>8. UNCHANGED <<closed, queue, call, calls>>
    BY <1>2
  <2>9. PICK op : /\ Arms(g)[1] = [op |-> op, channel |-> c]
                  /\ op = "send" \/ (op = "receive" /\ queue[c] = <<>>)
    <3>1. \/ OfArm(n, "send", c)
          \/ OfArm(n, "receive", c) /\ queue[c] = <<>>
      BY <1>6, <2>1
    <3> QED BY <2>3, <3>1 DEF OfArm
  <2>10. g \in Fibers /\ 1 \in DOMAIN Arms(g) /\ c \in Channels /\ closed[c]
    BY <1>4, <2>2, <2>3
  <2>11. Promise!Next
    BY <2>4, <2>6, <2>7, <2>8, <2>9, <2>10, Failed
  <2> QED BY <2>11
<1> QED BY <1>8, <1>9

(* close tells a select by triggering the context of its node. *)
LEMMA CloseWakeRefines ==
  ASSUME ChannelInv, NEW f \in Fibers, CloseWake(f)
  PROVE  Promise!Next \/ UNCHANGED Promise!vars
<1>0. /\ TypeInv /\ pc[f] = "close wake" /\ CloseAt(f)
      /\ detached[f] \in Seq(Nodes) /\ Distinct(detached[f])
  BY RunFacts DEF CloseWake, ChannelInv, DetachedInv, TypeInv, CallTypes, LocalAt
<1>1. PICK n \in Nodes : n = Head(detached[f]) /\ n = detached[f][1] /\ 1 \in DOMAIN detached[f]
  BY <1>0, TailFacts DEF CloseAt, Closes
<1> PICK g : g = n.fiber
  OBVIOUS
<1> PICK c : c = Chan(f)
  OBVIOUS
<1>2. /\ IF Live(n) THEN Trigger(n) /\ wakes' = [wakes EXCEPT ![g] = wakes[g] + 1]
                    ELSE UNCHANGED <<select, activated, wakes>>
      /\ pc' = [pc EXCEPT ![f] = "closing"]
      /\ UNCHANGED <<closed, queue, call, arm, calls, state, data, outcome>>
  BY <1>1 DEF CloseWake, Goto, shared
<1>3. /\ closed[c] /\ c \in Channels /\ DetachedAt(f, 1) /\ g \in Fibers
      /\ n.call = calls[g] => g # f
  BY <1>1, VisitFacts
<1>4. ASSUME NEW h \in Fibers, activated'[h] = activated[h] PROVE ReplyOf(h)' = ReplyOf(h)
  <2>1. CASE h = f
    <3>1. pc'[h] = "closing"
      BY <1>0, <1>2, <2>1 DEF TypeInv, CallTypes
    <3>2. Settled(h)' = Settled(h)
      BY <1>0, <2>1, <3>1 DEF Settled
    <3> QED BY <1>2, <3>2 DEF ReplyOf
  <2>2. CASE h # f
    <3>1. KeepsReply(h)
      BY <1>0, <1>2, <1>4, <2>2 DEF KeepsReply, TypeInv, CallTypes
    <3> QED BY <3>1, ReplyKept
  <2> QED BY <2>1, <2>2
<1>5. UNCHANGED <<closed, queue, call, calls>>
  BY <1>2
<1>6. CASE ~(Live(n) /\ n.context)
  <2>1. activated' = activated
    BY <1>2, <1>6 DEF Trigger
  <2>2. \A h \in Fibers : ReplyOf(h)' = ReplyOf(h)
    BY <1>4, <2>1
  <2> QED BY <1>5, <2>2, Unnoticed
<1>7. CASE Live(n) /\ n.context
  <2>1. n.call = calls[g] /\ select[g] = "active"
    BY <1>7 DEF Live
  <2>2. pc[g] = "parked" /\ Waits(g) /\ g # f
    BY <1>3, <2>1 DEF ChannelInv, LocalInv, LocalAt, CallAt, Waits
  <2>3. /\ state[g][n.arm] = "closed"
        /\ \/ OfArm(n, "send", c)
           \/ OfArm(n, "receive", c) /\ queue[c] = <<>>
    BY <1>0, <1>1, <1>3, <1>7, <2>1, <2>2 DEF DetachedAt
  <2>4. /\ n.arm \in DOMAIN Arms(g) /\ Arms(g)[n.arm].op \in {"send", "receive"}
        /\ call[g].form = "select" /\ activated[g] = 0 /\ data[g] = None
        /\ n.arm > 0
    <3>1. /\ n.arm \in DOMAIN Arms(g) /\ Arms(g)[n.arm].op \in {"send", "receive"}
          /\ n.context <=> call[g].form = "select"
      BY <1>1, <2>1, <2>2, VisitWaits
    <3>2. SelectAt(g) /\ DOMAIN Arms(g) = 1..Len(Arms(g))
      BY <1>3, <2>2, WaitFacts, RunFacts
    <3>3. call[g].form = "select"
      BY <1>7, <3>1
    <3> QED BY <2>1, <2>2, <3>1, <3>2, <3>3 DEF SelectAt
  <2>5. Open(g)
    BY <2>2, <2>4 DEF Open
  <2>6. activated' = [activated EXCEPT ![g] = n.arm]
    BY <1>2, <1>7 DEF Trigger
  <2>7. activated'[g] = n.arm /\ \A h \in Fibers : h # g => activated'[h] = activated[h]
    BY <1>0, <1>3, <2>6 DEF TypeInv, WaitingTypes
  <2>8. \A h \in Fibers : h # g => ReplyOf(h)' = ReplyOf(h)
    BY <1>4, <2>7
  <2>9. ReplyOf(g)' = [arm |-> n.arm, state |-> "closed", data |-> None]
    <3>1. /\ pc'[g] = "parked" /\ call'[g] = call[g] /\ state'[g] = state[g]
          /\ data'[g] = None
      BY <1>0, <1>2, <1>3, <2>2, <2>4 DEF TypeInv, CallTypes
    <3>2. Arms(g)' = Arms(g)
      BY <1>2 DEF Arms
    <3>3. Settled(g)' = [arm |-> n.arm, state |-> "closed"]
      BY <2>3, <2>4, <2>7, <3>1, <3>2 DEF Settled
    <3> QED BY <3>1, <3>3, ReplyIs
  <2> PICK i : i = n.arm
    OBVIOUS
  <2>10. PICK op : /\ Arms(g)[i] = [op |-> op, channel |-> c]
                   /\ op = "send" \/ (op = "receive" /\ queue[c] = <<>>)
    BY <2>3 DEF OfArm
  <2>11. i \in DOMAIN Arms(g) /\ c \in Channels /\ closed[c] /\ g \in Fibers
    BY <1>3, <2>4
  <2>12. ReplyOf(g)' = [arm |-> i, state |-> "closed", data |-> None]
    BY <2>9
  <2>13. Promise!Next
    BY <1>5, <2>5, <2>8, <2>10, <2>11, <2>12, Failed
  <2> QED BY <2>13
<1> QED BY <1>6, <1>7

-----------------------------------------------------------------------------
(* The refinement *)

LEMMA InitRefines == Init => Promise!Init
<1> SUFFICES ASSUME Init PROVE Promise!Init
  OBVIOUS
<1>1. \A f \in Fibers : ReplyOf(f) = Promise!NoReply
  BY DEF Init, ReplyOf, Settled, NoOutcome, Promise!NoReply
<1> QED BY <1>1 DEF Init, Promise!Init, ReplyOf

LEMMA StepRefines ==
  ChannelInv /\ [Next]_vars => [Promise!Next]_(Promise!vars)
<1> SUFFICES ASSUME ChannelInv, [Next]_vars
             PROVE  Promise!Next \/ UNCHANGED Promise!vars
  OBVIOUS
<1>1. CASE UNCHANGED vars
  <2>1. UNCHANGED <<closed, queue, call, calls>> /\ \A g \in Fibers : Same(g)
    BY <1>1 DEF vars, shared, waiting, Same
  <2> QED BY <2>1, SameReply, Unnoticed
<1>2. ASSUME NEW f \in Fibers, NEW c \in Calls, Begin(f, c) PROVE Promise!Next
  BY <1>2, BeginRefines
<1>3. ASSUME NEW f \in Fibers, Expire(f) PROVE Promise!Next \/ UNCHANGED Promise!vars
  BY <1>3, ExpireRefines
<1>4. ASSUME NEW f \in Fibers, Step(f) PROVE Promise!Next \/ UNCHANGED Promise!vars
  <2>1. CASE Lock(f) \/ ExecuteTimeout(f) \/ Wait(f) \/ Resume(f) \/ Unwait(f)
             \/ UnwaitTimeout(f) \/ Result(f) \/ CloseDone(f)
    BY <2>1, LockRefines, ExecuteTimeoutRefines, WaitRefines, ResumeRefines,
       UnwaitRefines, ResultRefines, CloseDoneRefines
  <2>2. CASE ExecuteSend(f)
    BY <2>2, ExecuteSendRefines
  <2>3. CASE ExecuteReceive(f)
    BY <2>3, ExecuteReceiveRefines
  <2>4. CASE NotReady(f)
    BY <2>4, NotReadyRefines
  <2>5. CASE Return(f)
    BY <2>5, ReturnRefines
  <2>6. CASE ExecuteClose(f)
    BY <2>6, ExecuteCloseRefines
  <2>7. CASE CloseMark(f)
    BY <2>7, CloseMarkRefines
  <2>8. CASE CloseWake(f)
    BY <2>8, CloseWakeRefines
  <2> QED BY <1>4, <2>1, <2>2, <2>3, <2>4, <2>5, <2>6, <2>7, <2>8 DEF Step
<1> QED BY <1>1, <1>2, <1>3, <1>4 DEF Next

(* The channel keeps its promise: each call takes effect at one instant    *)
(* between its start and its return, alone or together with the one it     *)
(* meets, in a bounded queue that may be closed.                           *)
THEOREM ChannelImplements == Spec => ImplementsChannelSpec
<1>1. Spec => []ChannelInv
  BY ChannelInvariant
<1>2. Init => Promise!Init
  BY InitRefines
<1>3. ChannelInv /\ [Next]_vars => [Promise!Next]_(Promise!vars)
  BY StepRefines
<1> QED BY <1>1, <1>2, <1>3, PTL DEF Spec, Promise!Spec, ImplementsChannelSpec
=============================================================================
