---------------------------- MODULE ChannelProofs ----------------------------
(* What TLAPS proves of Channel, for any number of fibers and channels,    *)
(* every capacity and all calls: fibers are woken once and for a reason,   *)
(* no node outlives its call, and nobody waits for what is there.          *)
EXTENDS Channel, Integers, FiniteSetTheorems, FunctionTheorems, SequenceTheorems,
        WellFoundedInduction, TLAPS

Ids == [fiber : Fibers, call : Nat]
Nodes == [fiber : Fibers, call : Nat, arm : Nat, context : BOOLEAN]
DeliveryStates == {"none", "delivered", "closed"}
Outcomes == [arm : Nat, state : DeliveryStates \cup
                                 {"already closed", "not ready", "expired"}]
Steps == {"idle", "run", "return", "parked", "unwait", "closing", "close wake"}

ListTypes ==
  /\ closed \in [Channels -> BOOLEAN]
  /\ queue \in [Channels -> Seq(Ids)]
  /\ senders \in [Channels -> Seq(Nodes)]
  /\ receivers \in [Channels -> Seq(Nodes)]
  /\ lock \in [Channels -> Fibers \cup {None}]

CallTypes ==
  /\ pc \in [Fibers -> Steps]
  /\ call \in [Fibers -> Calls \cup {None}]
  /\ arm \in [Fibers -> Nat]
  /\ calls \in [Fibers -> Nat]
  /\ timer \in [Fibers -> Nat]
  /\ detached \in [Fibers -> Seq(Nodes)]
  /\ outcome \in [Fibers -> Outcomes]

WaitingTypes ==
  /\ state \in [Fibers -> Seq(DeliveryStates)]
  /\ data \in [Fibers -> Ids \cup {None}]
  /\ select \in [Fibers -> {"none", "active", "done"}]
  /\ activated \in [Fibers -> Nat]
  /\ wakes \in [Fibers -> Nat]

TypeInv == ListTypes /\ CallTypes /\ WaitingTypes

-----------------------------------------------------------------------------
(* What the step of a fiber says of its call. *)
Waits(f) == pc[f] \in {"parked", "unwait"}
Closes(f) == pc[f] \in {"closing", "close wake"}

CallAt(f) ==
  /\ pc[f] = "idle" <=> call[f] = None
  /\ pc[f] # "idle" => arm[f] > 0 /\ DOMAIN state[f] = DOMAIN Arms(f)
  /\ pc[f] = "idle" => state[f] = <<>>
  /\ pc[f] \in {"idle", "run"} =>
       /\ data[f] = None /\ select[f] = "none" /\ activated[f] = 0
       /\ \A i \in DOMAIN state[f] : state[f][i] = "none"
  /\ pc[f] # "parked" => wakes[f] = 0
  /\ ~Waits(f) => timer[f] = 0
  /\ ~Closes(f) => detached[f] = <<>>
  /\ select[f] = "active" => pc[f] = "parked"
  /\ pc[f] = "return" => outcome[f].state # "none"

CloseAt(f) ==
  Closes(f) =>
    /\ call[f].form = "close" /\ arm[f] = 1
    /\ data[f] = None /\ closed[Chan(f)]
    /\ pc[f] = "close wake" => detached[f] # <<>>

(* A fiber that waits: its fiber is enqueued only when its node was        *)
(* delivered to, or one of its contexts was triggered.                     *)
PlainAt(f) ==
  Waits(f) /\ call[f].form = "plain" =>
    /\ pc[f] = "parked" /\ Arms(f)[1].op \in {"send", "receive"}
    /\ select[f] = "none" /\ activated[f] = 0 /\ timer[f] = 0
    /\ wakes[f] \in {0, 1}
    /\ wakes[f] = 1 => state[f][1] # "none"
    /\ state[f][1] = "none" => data[f] = None

TimerAt(f) ==
  timer[f] # 0 => /\ timer[f] \in DOMAIN Arms(f)
                  /\ Arms(f)[timer[f]].op = "timeout"
                  /\ pc[f] = "unwait" => arm[f] <= timer[f]

SelectAt(f) ==
  Waits(f) /\ call[f].form # "plain" =>
    /\ call[f].form = "select"
    /\ TimerAt(f)
    /\ \/ /\ select[f] = "active" /\ activated[f] = 0 /\ wakes[f] = 0
          /\ data[f] = None /\ pc[f] = "parked"
       \/ /\ select[f] = "done" /\ activated[f] \in DOMAIN Arms(f)
          /\ pc[f] = "parked" => wakes[f] = 1
          /\ Arms(f)[activated[f]].op # "timeout" =>
               state[f][activated[f]] # "none"

LocalAt(f) == CallAt(f) /\ CloseAt(f) /\ PlainAt(f) /\ SelectAt(f)

LocalInv == \A f \in Fibers : LocalAt(f)

-----------------------------------------------------------------------------
(* Nodes *)
In(q, x) == \E i \in DOMAIN q : q[i] = x

(* The node is that of an arm of a call that waits. *)
OfArm(n, op, c) ==
  /\ n.arm \in DOMAIN Arms(n.fiber)
  /\ Arms(n.fiber)[n.arm] = [op |-> op, channel |-> c]
  /\ n.context = (call[n.fiber].form = "select")

(* A node on a list is undelivered, and still to be taken back.            *)
Waiter(n, op, c) ==
  /\ n.call = calls[n.fiber] /\ Waits(n.fiber) /\ OfArm(n, op, c)
  /\ state[n.fiber][n.arm] = "none"
  /\ ~n.context => wakes[n.fiber] = 0
  /\ pc[n.fiber] = "unwait" => arm[n.fiber] <= n.arm

Distinct(q) == \A i, j \in DOMAIN q : q[i] = q[j] => i = j

ListInv ==
  \A c \in Channels :
    /\ \A n \in Nodes : In(senders[c], n) => Waiter(n, "send", c)
    /\ \A n \in Nodes : In(receivers[c], n) => Waiter(n, "receive", c)
    /\ Distinct(senders[c]) /\ Distinct(receivers[c])
    /\ closed[c] => senders[c] = <<>> /\ receivers[c] = <<>>

(* And every arm that waits undelivered on an open channel has its node    *)
(* there.                                                                  *)
ListedAt(f) ==
  \A i \in DOMAIN Arms(f) :
    LET c == Arms(f)[i].channel
    IN  state[f][i] = "none" /\ (pc[f] = "unwait" => arm[f] <= i) =>
          /\ Arms(f)[i].op = "send" /\ ~closed[c] => In(senders[c], Node(f, i))
          /\ Arms(f)[i].op = "receive" /\ ~closed[c] =>
               In(receivers[c], Node(f, i))

ListedInv == \A f \in Fibers : Waits(f) => ListedAt(f)

(* The nodes a close still visits: those of a select may be of a call that *)
(* is over; any other one is undelivered until it is marked.               *)
DetachedAt(f, k) ==
  LET n == detached[f][k]
      g == n.fiber
  IN
  /\ n.call <= calls[g]
  /\ n.call = calls[g] => pc[g] \in {"idle", "return", "parked", "unwait"}
  /\ n.call = calls[g] /\ Waits(g) =>
       /\ \/ OfArm(n, "send", Chan(f))
          \/ OfArm(n, "receive", Chan(f)) /\ (Live(n) => queue[Chan(f)] = <<>>)
       /\ state[g][n.arm] = IF k = 1 /\ pc[f] = "close wake" THEN "closed"
                            ELSE "none"
  /\ ~n.context => n.call = calls[g] /\ pc[g] = "parked" /\ wakes[g] = 0

DetachedInv ==
  /\ \A f \in Fibers :
       /\ Distinct(detached[f])
       /\ \A k \in DOMAIN detached[f] : DetachedAt(f, k)
  /\ \A f, g \in Fibers : Closes(f) /\ Closes(g) /\ Chan(f) = Chan(g) => f = g

-----------------------------------------------------------------------------
(* A lock is held by a call that runs or is about to return.               *)
LockInv ==
  \A c \in Channels : lock[c] # None =>
    /\ pc[lock[c]] \in {"run", "return"}
    /\ c \in ChannelsOf(lock[c])

(* Arms tried in vain stay so, as long as the locks are held.              *)
TriedAt(f, i) ==
  LET c == Arms(f)[i].channel
  IN
  /\ Arms(f)[i].op # "close"
  /\ Arms(f)[i].op = "send" =>
       ~closed[c] /\ Len(queue[c]) >= Capacity[c] /\ ~SomeLive(receivers[c])
  /\ Arms(f)[i].op = "receive" =>
       ~closed[c] /\ queue[c] = <<>> /\ ~SomeLive(senders[c])

TriedOf(f) ==
  pc[f] = "run" =>
    /\ arm[f] > 1 => Locked(f)
    /\ arm[f] <= Len(Arms(f)) + 1
    /\ \A i \in DOMAIN Arms(f) : i < arm[f] => TriedAt(f, i)

TriedInv == \A f \in Fibers : TriedOf(f)

(* At every step, and not only while the channel is unlocked.              *)
MeetInv ==
  \A c \in Channels :
    /\ Len(queue[c]) <= Capacity[c]
    /\ SomeLive(receivers[c]) => queue[c] = <<>>
    /\ SomeLive(senders[c]) => Len(queue[c]) = Capacity[c]
    /\ \A s, r \in Nodes : /\ In(senders[c], s) /\ Live(s)
                           /\ In(receivers[c], r) /\ Live(r)
                           => s.fiber = r.fiber

ChannelInv ==
  /\ TypeInv /\ LocalInv /\ ListInv /\ ListedInv /\ DetachedInv /\ LockInv
  /\ TriedInv /\ MeetInv
-----------------------------------------------------------------------------
(* Lists of nodes: their members, and that none is on a list twice.        *)

LEMMA NoElements ==
  ASSUME NEW S, NEW q \in Seq(S), DOMAIN q = {}
  PROVE  q = <<>>
<1>1. DOMAIN q = 1..Len(q) /\ Len(q) \in Nat
  OBVIOUS
<1>2. Len(q) = 0
  <2>1. 1 \notin 1..Len(q)
    BY <1>1
  <2> QED BY <1>1, <2>1
<1> QED BY <1>2

LEMMA ArgMin ==
  ASSUME NEW S, S \subseteq Nat, S # {}
  PROVE  \E m \in S : \A k \in S : m <= k
<1>1. PICK m \in S : \A k \in S : ~(<<k, m>> \in OpToRel(<, Nat))
  BY NatLessThanWellFounded, WFMin
<1>2. \A k \in S : ~(k < m)
  BY <1>1 DEF OpToRel
<1> QED BY <1>2

(* dequeue takes off the nodes up to the first live one, or all of them. *)
LEMMA TakenFacts ==
  ASSUME NEW list \in Seq(Nodes)
  PROVE  /\ Taken(list) \in 0..Len(list)
         /\ SomeLive(list) =>
              /\ FirstLive(list) \in DOMAIN list /\ FirstLive(list) = Taken(list)
              /\ Live(list[FirstLive(list)])
              /\ \A j \in 1..FirstLive(list) - 1 : ~Live(list[j])
         /\ ~SomeLive(list) => Taken(list) = Len(list)
<1>1. DOMAIN list = 1..Len(list) /\ Len(list) \in Nat
  OBVIOUS
<1>2. CASE SomeLive(list)
  <2> DEFINE S == {i \in DOMAIN list : Live(list[i])}
  <2>1. S \subseteq Nat /\ S # {}
    BY <1>1, <1>2 DEF SomeLive
  <2>2. PICK m \in S : \A k \in S : m <= k
    BY <2>1, ArgMin
  <2>3. m \in DOMAIN list /\ Live(list[m])
        /\ \A j \in 1..m - 1 : ~Live(list[j])
    BY <1>1, <2>2
  <2>4. /\ FirstLive(list) \in DOMAIN list
        /\ Live(list[FirstLive(list)])
        /\ \A j \in 1..FirstLive(list) - 1 : ~Live(list[j])
    BY <2>3 DEF FirstLive
  <2> QED BY <1>1, <1>2, <2>4 DEF Taken
<1>3. CASE ~SomeLive(list)
  BY <1>1, <1>3 DEF Taken
<1> QED BY <1>2, <1>3

LEMMA RestFacts ==
  ASSUME NEW list \in Seq(Nodes), Distinct(list)
  PROVE  /\ Rest(list) \in Seq(Nodes) /\ Distinct(Rest(list))
         /\ \A n : In(Rest(list), n) => In(list, n)
         /\ \A n : In(list, n) => \/ In(Rest(list), n)
                                  \/ \E i \in 1..Taken(list) : list[i] = n
         /\ \A n : (\E i \in 1..Taken(list) : list[i] = n) => ~In(Rest(list), n)
         /\ ~SomeLive(list) => Rest(list) = <<>>
<1> DEFINE t == Taken(list)
<1>1. /\ DOMAIN list = 1..Len(list) /\ Len(list) \in Nat /\ t \in 0..Len(list)
  BY TakenFacts
<1>2. /\ Rest(list) \in Seq(Nodes)
      /\ Len(Rest(list)) = Len(list) - t
      /\ DOMAIN Rest(list) = 1..Len(list) - t
      /\ \A i \in 1..Len(list) - t : Rest(list)[i] = list[t + i]
  <2> HIDE DEF t
  <2>1. Rest(list) = SubSeq(list, t + 1, Len(list))
    BY DEF Rest, t
  <2> PICK m : m = t + 1
    OBVIOUS
  <2> PICK k : k = Len(list)
    OBVIOUS
  <2>2. /\ m \in Int /\ k \in Int /\ k - t \in Nat /\ k - m + 1 = k - t
        /\ \A i \in m..k : list[i] \in Nodes
    BY <1>1
  <2>3. /\ SubSeq(list, m, k) \in Seq(Nodes)
        /\ Len(SubSeq(list, m, k)) = IF m <= k THEN k - m + 1 ELSE 0
        /\ \A i \in 1..k - m + 1 : SubSeq(list, m, k)[i] = list[m + i - 1]
    BY <2>2, SubSeqProperties
  <2>4. /\ Rest(list) \in Seq(Nodes) /\ Len(Rest(list)) = k - t
        /\ \A i \in 1..k - t : Rest(list)[i] = list[m + i - 1]
    BY <1>1, <2>1, <2>2, <2>3
  <2>5. \A i \in 1..k - t : m + i - 1 = t + i
    BY <1>1, <2>2
  <2> QED BY <2>4, <2>5
<1> HIDE DEF t
<1>3. ASSUME NEW n, In(Rest(list), n)
      PROVE  \E i \in t + 1..Len(list) : list[i] = n
  <2>1. PICK i \in 1..Len(list) - t : list[t + i] = n
    BY <1>2, <1>3 DEF In
  <2>2. t + i \in t + 1..Len(list)
    BY <1>1
  <2> QED BY <2>1, <2>2
<1>4. ASSUME NEW n, NEW i \in t + 1..Len(list), list[i] = n
      PROVE  In(Rest(list), n)
  <2>1. i - t \in 1..Len(list) - t /\ t + (i - t) = i
    BY <1>1
  <2>2. Rest(list)[i - t] = list[i]
    BY <1>2, <2>1
  <2> QED BY <1>2, <1>4, <2>1, <2>2 DEF In
<1>5. Distinct(Rest(list))
  <2> SUFFICES ASSUME NEW i \in DOMAIN Rest(list), NEW j \in DOMAIN Rest(list),
                      Rest(list)[i] = Rest(list)[j]
               PROVE  i = j
    BY DEF Distinct
  <2>1. list[t + i] = list[t + j] /\ t + i \in DOMAIN list /\ t + j \in DOMAIN list
    BY <1>1, <1>2
  <2>2. t + i = t + j
    BY <2>1 DEF Distinct
  <2> QED BY <1>1, <1>2, <2>2
<1>6. \A n : In(Rest(list), n) => In(list, n)
  BY <1>1, <1>3 DEF In
<1>7. ASSUME NEW n, In(list, n), ~In(Rest(list), n)
      PROVE  \E i \in 1..t : list[i] = n
  <2>1. PICK i \in 1..Len(list) : list[i] = n
    BY <1>1, <1>7 DEF In
  <2>2. i \notin t + 1..Len(list)
    BY <1>4, <1>7, <2>1
  <2> QED BY <1>1, <2>1, <2>2
<1>8. ASSUME NEW n, NEW i \in 1..t, list[i] = n, In(Rest(list), n)
      PROVE  FALSE
  <2>1. PICK j \in t + 1..Len(list) : list[j] = n
    BY <1>3, <1>8
  <2>2. i \in DOMAIN list /\ j \in DOMAIN list /\ i # j
    BY <1>1
  <2> QED BY <1>8, <2>1, <2>2 DEF Distinct
<1>9. ~SomeLive(list) => Rest(list) = <<>>
  BY <1>1, <1>2, TakenFacts DEF t
<1> QED BY <1>2, <1>5, <1>6, <1>7, <1>8, <1>9 DEF t

LEMMA ConcatFacts ==
  ASSUME NEW q \in Seq(Nodes), NEW r \in Seq(Nodes)
  PROVE  /\ q \o r \in Seq(Nodes)
         /\ \A n : In(q \o r, n) <=> In(q, n) \/ In(r, n)
         /\ Distinct(q) /\ Distinct(r) /\ (\A n : ~(In(q, n) /\ In(r, n)))
              => Distinct(q \o r)
<1>1. /\ Len(q \o r) = Len(q) + Len(r) /\ Len(q) \in Nat /\ Len(r) \in Nat
      /\ DOMAIN (q \o r) = 1..(Len(q) + Len(r))
      /\ DOMAIN q = 1..Len(q) /\ DOMAIN r = 1..Len(r)
      /\ \A i \in 1..Len(q) : (q \o r)[i] = q[i]
      /\ \A i \in 1..Len(r) : (q \o r)[Len(q) + i] = r[i]
      /\ \A i \in 1..(Len(q) + Len(r)) : i > Len(q) =>
           i - Len(q) \in 1..Len(r) /\ (q \o r)[i] = r[i - Len(q)]
      /\ q \o r \in Seq(Nodes)
  OBVIOUS
<1>2. ASSUME NEW n PROVE In(q \o r, n) <=> In(q, n) \/ In(r, n)
  <2>1. ASSUME In(q \o r, n) PROVE In(q, n) \/ In(r, n)
    BY <1>1, <2>1 DEF In
  <2>2. ASSUME In(q, n) PROVE In(q \o r, n)
    BY <1>1, <2>2 DEF In
  <2>3. ASSUME In(r, n) PROVE In(q \o r, n)
    BY <1>1, <2>3 DEF In
  <2> QED BY <2>1, <2>2, <2>3
<1>3. ASSUME Distinct(q), Distinct(r), \A n : ~(In(q, n) /\ In(r, n)),
             NEW i \in DOMAIN (q \o r), NEW j \in DOMAIN (q \o r),
             (q \o r)[i] = (q \o r)[j]
      PROVE  i = j
  <2>1. CASE i <= Len(q) /\ j <= Len(q)
    BY <1>1, <1>3, <2>1 DEF Distinct
  <2>2. CASE i > Len(q) /\ j > Len(q)
    <3>1. i - Len(q) = j - Len(q)
      BY <1>1, <1>3, <2>2 DEF Distinct
    <3> QED BY <1>1, <3>1
  <2>3. CASE i <= Len(q) /\ j > Len(q)
    <3>1. In(q, q[i]) /\ In(r, r[j - Len(q)]) /\ q[i] = r[j - Len(q)]
      BY <1>1, <1>3, <2>3 DEF In
    <3> QED BY <1>3, <3>1
  <2>4. CASE i > Len(q) /\ j <= Len(q)
    <3>1. In(q, q[j]) /\ In(r, r[i - Len(q)]) /\ q[j] = r[i - Len(q)]
      BY <1>1, <1>3, <2>4 DEF In
    <3> QED BY <1>3, <3>1
  <2> QED BY <1>1, <2>1, <2>2, <2>3, <2>4
<1> QED BY <1>1, <1>2, <1>3 DEF Distinct

LEMMA TailFacts ==
  ASSUME NEW q \in Seq(Nodes), q # <<>>, Distinct(q)
  PROVE  /\ Head(q) \in Nodes /\ Tail(q) \in Seq(Nodes) /\ Distinct(Tail(q))
         /\ In(q, Head(q)) /\ Head(q) = q[1] /\ 1 \in DOMAIN q
         /\ \A k \in DOMAIN Tail(q) : /\ k + 1 \in DOMAIN q /\ k + 1 # 1
                                      /\ Tail(q)[k] = q[k + 1]
                                      /\ Tail(q)[k] # Head(q)
<1>1. /\ Len(q) \in Nat /\ Len(q) > 0 /\ DOMAIN q = 1..Len(q)
      /\ DOMAIN Tail(q) = 1..(Len(q) - 1)
      /\ \A k \in 1..(Len(q) - 1) : Tail(q)[k] = q[k + 1]
      /\ Head(q) = q[1] /\ Head(q) \in Nodes /\ Tail(q) \in Seq(Nodes)
  OBVIOUS
<1>2. In(q, Head(q))
  BY <1>1 DEF In
<1>3. \A k \in DOMAIN Tail(q) : k + 1 \in DOMAIN q /\ k + 1 # 1
  BY <1>1
<1>4. \A k \in DOMAIN Tail(q) : Tail(q)[k] # Head(q)
  BY <1>1, <1>3 DEF Distinct
<1>5. Distinct(Tail(q))
  <2> SUFFICES ASSUME NEW i \in DOMAIN Tail(q), NEW j \in DOMAIN Tail(q),
                      Tail(q)[i] = Tail(q)[j]
               PROVE  i = j
    BY DEF Distinct
  <2>1. i + 1 = j + 1
    BY <1>1, <1>3 DEF Distinct
  <2> QED BY <1>1, <2>1
<1>6. 1 \in DOMAIN q
  BY <1>1
<1> QED BY <1>1, <1>2, <1>3, <1>4, <1>5, <1>6

LEMMA WithoutFacts ==
  ASSUME NEW q \in Seq(Nodes), NEW n, Distinct(q)
  PROVE  /\ Without(q, n) \in Seq(Nodes) /\ Distinct(Without(q, n))
         /\ \A m : In(Without(q, n), m) <=> In(q, m) /\ m # n
<1>0. Len(q) \in Nat /\ DOMAIN q = 1..Len(q)
  OBVIOUS
<1>1. CASE ~In(q, n)
  <2>1. Without(q, n) = q
    BY <1>1 DEF Without, In
  <2> QED BY <1>1, <2>1
<1>2. CASE In(q, n)
  <2> DEFINE k == CHOOSE i \in DOMAIN q : q[i] = n
             left == SubSeq(q, 1, k - 1)
             right == SubSeq(q, k + 1, Len(q))
  <2>1. k \in DOMAIN q /\ q[k] = n /\ Without(q, n) = left \o right
    BY <1>2 DEF Without, In, RemoveAt
  <2> HIDE DEF k
  <2>2. /\ left \in Seq(Nodes) /\ Len(left) = k - 1 /\ DOMAIN left = 1..k - 1
        /\ \A i \in 1..k - 1 : left[i] = q[i]
    BY <1>0, <2>1
  <2>3. /\ right \in Seq(Nodes) /\ Len(right) = Len(q) - k
        /\ DOMAIN right = 1..Len(q) - k
        /\ \A i \in 1..Len(q) - k : right[i] = q[k + i]
    BY <1>0, <2>1
  <2> HIDE DEF left, right
  <2>4. ASSUME NEW m PROVE In(left, m) <=> \E i \in 1..k - 1 : q[i] = m
    BY <2>2 DEF In
  <2>5. ASSUME NEW m PROVE In(right, m) <=> \E i \in k + 1..Len(q) : q[i] = m
    <3>1. ASSUME In(right, m) PROVE \E i \in k + 1..Len(q) : q[i] = m
      <4>1. PICK i \in 1..Len(q) - k : q[k + i] = m
        BY <2>3, <3>1 DEF In
      <4>2. k + i \in k + 1..Len(q)
        BY <1>0, <2>1
      <4> QED BY <4>1, <4>2
    <3>2. ASSUME NEW i \in k + 1..Len(q), q[i] = m PROVE In(right, m)
      <4>1. i - k \in 1..Len(q) - k /\ k + (i - k) = i
        BY <1>0, <2>1
      <4>2. right[i - k] = q[i]
        BY <2>3, <4>1
      <4> QED BY <2>3, <3>2, <4>1, <4>2 DEF In
    <3> QED BY <3>1, <3>2
  <2>6. Distinct(left) /\ Distinct(right)
    <3>1. Distinct(left)
      BY <1>0, <2>1, <2>2 DEF Distinct
    <3>2. ASSUME NEW i \in DOMAIN right, NEW j \in DOMAIN right,
                 right[i] = right[j]
          PROVE  i = j
      <4>1. k + i \in DOMAIN q /\ k + j \in DOMAIN q /\ q[k + i] = q[k + j]
        BY <1>0, <2>1, <2>3, <3>2
      <4>2. k + i = k + j
        BY <4>1 DEF Distinct
      <4> QED BY <1>0, <2>1, <2>3, <4>2
    <3> QED BY <3>1, <3>2 DEF Distinct
  <2>7. ASSUME NEW m, In(left, m), In(right, m) PROVE FALSE
    <3>1. PICK i \in 1..k - 1 : q[i] = m
      BY <2>4, <2>7
    <3>2. PICK j \in k + 1..Len(q) : q[j] = m
      BY <2>5, <2>7
    <3>3. i \in DOMAIN q /\ j \in DOMAIN q /\ i # j
      BY <1>0, <2>1
    <3> QED BY <3>1, <3>2, <3>3 DEF Distinct
  <2>8. ASSUME NEW m PROVE In(left, m) \/ In(right, m) <=> In(q, m) /\ m # n
    <3>1. ASSUME NEW i \in DOMAIN q, q[i] = m, m # n
          PROVE  i \in 1..k - 1 \/ i \in k + 1..Len(q)
      BY <1>0, <2>1, <3>1
    <3>2. ASSUME NEW i \in DOMAIN q, i # k, q[i] = m PROVE m # n
      BY <2>1, <3>2 DEF Distinct
    <3>3. \A i \in 1..k - 1 : i \in DOMAIN q /\ i # k
      BY <1>0, <2>1
    <3>4. \A i \in k + 1..Len(q) : i \in DOMAIN q /\ i # k
      BY <1>0, <2>1
    <3>5. In(q, m) /\ m # n => In(left, m) \/ In(right, m)
      BY <2>4, <2>5, <3>1 DEF In
    <3>6. In(left, m) => In(q, m) /\ m # n
      BY <2>4, <3>2, <3>3 DEF In
    <3>7. In(right, m) => In(q, m) /\ m # n
      BY <2>5, <3>2, <3>4 DEF In
    <3> QED BY <3>5, <3>6, <3>7
  <2> QED BY <2>1, <2>2, <2>3, <2>6, <2>7, <2>8, ConcatFacts
<1> QED BY <1>1, <1>2

-----------------------------------------------------------------------------
(* Arms and nodes *)

LEMMA ArmFacts ==
  ASSUME TypeInv, NEW f \in Fibers, call[f] # None
  PROVE  /\ call[f] \in Calls /\ Arms(f) \in Seq(Arm)
         /\ Len(Arms(f)) \in Nat /\ Len(Arms(f)) > 0
         /\ DOMAIN Arms(f) = 1..Len(Arms(f))
         /\ call[f].form \in {"plain", "select", "poll", "close"}
         /\ call[f].form = "close" <=>
              \E i \in DOMAIN Arms(f) : Arms(f)[i].op = "close"
         /\ call[f].form \in {"plain", "close"} => Len(Arms(f)) = 1
         /\ call[f].form = "plain" => Arms(f)[1].op # "timeout"
<1>1. call[f] \in Calls
  BY DEF TypeInv, CallTypes
<1>2. call[f] \in Call
  BY <1>1, ChannelAssumption
<1>3. Arms(f) \in Seq(Arm) /\ call[f].form \in {"plain", "select", "poll", "close"}
  BY <1>2 DEF Call, Arms
<1> QED BY <1>1, <1>3, ChannelAssumption DEF Arms

LEMMA AnArm ==
  ASSUME TypeInv, NEW f \in Fibers, call[f] # None, NEW i \in DOMAIN Arms(f)
  PROVE  /\ Arms(f)[i].op \in {"send", "receive", "close", "timeout"}
         /\ Arms(f)[i] = [op |-> Arms(f)[i].op, channel |-> Arms(f)[i].channel]
         /\ IF Arms(f)[i].op = "timeout" THEN Arms(f)[i].channel = None
            ELSE /\ Arms(f)[i].channel \in Channels
                 /\ Arms(f)[i].channel \in ChannelsOf(f)
<1>1. Arms(f)[i] \in Arm
  BY ArmFacts
<1> QED BY <1>1, ChannelAssumption DEF Arm, ChannelsOf

LEMMA ChannelsOfFacts ==
  ASSUME TypeInv, NEW f \in Fibers, call[f] # None
  PROVE  ChannelsOf(f) \subseteq Channels
<1> SUFFICES ASSUME NEW i \in DOMAIN Arms(f), Arms(f)[i].channel # None
             PROVE  Arms(f)[i].channel \in Channels
  BY DEF ChannelsOf
<1> QED BY AnArm

LEMMA NodeFields ==
  ASSUME NEW f, NEW i
  PROVE  /\ Node(f, i).fiber = f /\ Node(f, i).call = calls[f]
         /\ Node(f, i).arm = i
         /\ Node(f, i).context = (call[f].form = "select")
BY DEF Node

LEMMA NodeType ==
  ASSUME TypeInv, NEW f \in Fibers, NEW i \in Nat
  PROVE  Node(f, i) \in Nodes
BY DEF TypeInv, CallTypes, Node, Nodes

(* A node on a list is that of its fiber's arm. *)
LEMMA WaiterIsNode ==
  ASSUME NEW n \in Nodes, n.call = calls[n.fiber],
         n.context = (call[n.fiber].form = "select")
  PROVE  n = Node(n.fiber, n.arm)
BY DEF Nodes, Node

(* The nodes pushed for f on c: one for each of its arms that does op. *)
LEMMA NodesOnFacts ==
  ASSUME TypeInv, NEW f \in Fibers, call[f] # None, NEW op, NEW c
  PROVE  /\ NodesOn(f, op, c) \in Seq(Nodes)
         /\ Distinct(NodesOn(f, op, c))
         /\ \A n : In(NodesOn(f, op, c), n) <=>
              \E i \in DOMAIN Arms(f) :
                Arms(f)[i] = [op |-> op, channel |-> c] /\ n = Node(f, i)
<1> DEFINE mine == {i \in DOMAIN Arms(f) : Arms(f)[i] = [op |-> op, channel |-> c]}
           Rank(i) == Cardinality({j \in mine : j < i})
           Nth(k) == CHOOSE i \in mine : Rank(i) = k - 1
           N == Cardinality(mine)
           rank == [i \in mine |-> Rank(i)]
<1>1. NodesOn(f, op, c) = [k \in 1..N |-> Node(f, Nth(k))]
  BY DEF NodesOn
<1>2. mine \subseteq Nat /\ IsFiniteSet(mine) /\ N \in Nat
  <2>1. Len(Arms(f)) \in Int /\ 1 \in Int /\ DOMAIN Arms(f) = 1..Len(Arms(f))
    BY ArmFacts
  <2>2. IsFiniteSet(1..Len(Arms(f)))
    BY <2>1, FS_Interval, Zenon
  <2>3. mine \in SUBSET (1..Len(Arms(f)))
    BY <2>1
  <2>4. IsFiniteSet(mine)
    BY <2>2, <2>3, FS_Subset, Zenon
  <2> QED BY <2>1, <2>3, <2>4, FS_CardinalityType
<1> HIDE DEF mine
<1>3. ASSUME NEW i \in mine
      PROVE  Rank(i) \in 0..N - 1
  <2>1. {j \in mine : j < i} \subseteq mine /\ {j \in mine : j < i} # mine
    BY <1>2
  <2> QED BY <1>2, <2>1, FS_Subset, FS_CardinalityType
<1>4. ASSUME NEW i \in mine, NEW j \in mine, i < j
      PROVE  Rank(i) # Rank(j)
  <2>0. i \in {k \in mine : k < j} /\ i \notin {k \in mine : k < i}
    BY <1>2, <1>4
  <2>1. {k \in mine : k < i} \subseteq {k \in mine : k < j}
        /\ {k \in mine : k < i} # {k \in mine : k < j}
    <3>1. \A k \in mine : k < i => k < j
      BY <1>2, <1>4
    <3> QED BY <2>0, <3>1
  <2>2. IsFiniteSet({k \in mine : k < j})
    BY <1>2, FS_Subset
  <2>3. Rank(i) < Rank(j) /\ Rank(i) \in Nat /\ Rank(j) \in Nat
    BY <2>1, <2>2, FS_Subset, FS_CardinalityType
  <2> QED BY <2>3
<1>5. rank \in Injection(mine, 0..N - 1)
  <2>1. rank \in [mine -> 0..N - 1]
    BY <1>3
  <2>2. ASSUME NEW i \in mine, NEW j \in mine, rank[i] = rank[j] PROVE i = j
    BY <1>2, <1>4, <2>2
  <2> QED BY <2>1, <2>2, Fun_IsInj
<1>6. rank \in Surjection(mine, 0..N - 1)
  <2> HIDE DEF N, rank
  <2>1. 0 \in Int /\ N - 1 \in Int /\ (IF 0 > N - 1 THEN 0 ELSE N - 1 - 0 + 1) = N
    BY <1>2
  <2>2. IsFiniteSet(0..N - 1) /\ Cardinality(0..N - 1) = N
    BY <2>1, FS_Interval, Zenon
  <2> QED BY <1>5, <2>2, FS_Injection DEF N
<1>7. \A t \in 0..N - 1 : \E i \in mine : rank[i] = t
  <2> HIDE DEF N, rank
  <2> QED BY <1>6 DEF Surjection
<1>8. \A k \in 1..N : Nth(k) \in mine /\ Rank(Nth(k)) = k - 1
  <2> SUFFICES ASSUME NEW k \in 1..N PROVE \E i \in mine : Rank(i) = k - 1
    OBVIOUS
  <2>1. k - 1 \in 0..N - 1
    BY <1>2
  <2>2. PICK i \in mine : rank[i] = k - 1
    BY <1>7, <2>1
  <2>3. rank[i] = Rank(i)
    OBVIOUS
  <2> QED BY <2>2, <2>3
<1> HIDE DEF Nth, Rank, N
<1>9. ASSUME NEW i \in mine
      PROVE  \E k \in 1..N : Nth(k) = i
  <2>1. \A r \in 0..N - 1 : r + 1 \in 1..N /\ r + 1 - 1 = r
    BY <1>2
  <2>2. \A r \in 0..N - 1 : \E k \in 1..N : k - 1 = r
    <3> TAKE r \in 0..N - 1
    <3>1. r + 1 \in 1..N
      BY <2>1
    <3> WITNESS r + 1 \in 1..N
    <3> QED BY <2>1
  <2>3. PICK k \in 1..N : k - 1 = Rank(i)
    BY <1>3, <2>2
  <2>4. Nth(k) \in mine /\ Rank(Nth(k)) = Rank(i)
    BY <1>8, <2>3
  <2>5. ~(Nth(k) < i) /\ ~(i < Nth(k))
    BY <1>4, <2>4
  <2>6. Nth(k) \in Nat /\ i \in Nat
    BY <1>2, <2>4
  <2>7. Nth(k) = i
    BY <2>5, <2>6
  <2> QED BY <2>7
<1>10. \A k \in 1..N : Node(f, Nth(k)) \in Nodes
  BY <1>2, <1>8, NodeType
<1>11. NodesOn(f, op, c) \in Seq(Nodes) /\ DOMAIN NodesOn(f, op, c) = 1..N
  BY <1>1, <1>2, <1>10
<1>12. Distinct(NodesOn(f, op, c))
  <2> SUFFICES ASSUME NEW k \in 1..N, NEW l \in 1..N,
                      Node(f, Nth(k)) = Node(f, Nth(l))
               PROVE  k = l
    BY <1>1, <1>11 DEF Distinct
  <2>1. Nth(k) = Nth(l)
    BY NodeFields
  <2>2. k - 1 = l - 1
    BY <1>8, <2>1
  <2> QED BY <1>2, <2>2
<1>13. ASSUME NEW n
       PROVE  In(NodesOn(f, op, c), n) <=> \E i \in mine : n = Node(f, i)
  <2>1. In(NodesOn(f, op, c), n) <=> \E k \in 1..N : Node(f, Nth(k)) = n
    BY <1>1, <1>11 DEF In
  <2> QED BY <1>8, <1>9, <2>1
<1> QED BY <1>11, <1>12, <1>13 DEF mine

-----------------------------------------------------------------------------
(* What a step leaves alone. *)
Same(g) ==
  /\ pc'[g] = pc[g] /\ call'[g] = call[g] /\ arm'[g] = arm[g]
  /\ calls'[g] = calls[g] /\ state'[g] = state[g] /\ data'[g] = data[g]
  /\ select'[g] = select[g] /\ activated'[g] = activated[g]
  /\ wakes'[g] = wakes[g] /\ timer'[g] = timer[g]
  /\ detached'[g] = detached[g] /\ outcome'[g] = outcome[g]

Others(f) == \A g \in Fibers : g # f => Same(g)

(* No node comes back to life, and no node is put on a list. *)
NoneRevived == \A n \in Nodes : Live(n)' => Live(n)

Shrinks(lists) ==
  \A c \in Channels, n \in Nodes : In(lists'[c], n) => In(lists[c], n)

(* A step of f between two states in which it does not wait, and that      *)
(* touches no channel.                                                     *)
Quiet(f) ==
  /\ Others(f) /\ UNCHANGED shared /\ NoneRevived
  /\ ~Waits(f) /\ ~Waits(f)' /\ ~Closes(f)'
  /\ \/ calls'[f] > calls[f]
     \/ /\ calls'[f] = calls[f]
        /\ pc[f] \in {"idle", "return"} => pc'[f] \in {"idle", "return"}

LEMMA SomeLiveIn ==
  ASSUME NEW q \in Seq(Nodes)
  PROVE  SomeLive(q) <=> \E n \in Nodes : In(q, n) /\ Live(n)
<1>1. \A i \in DOMAIN q : q[i] \in Nodes
  OBVIOUS
<1> QED BY <1>1 DEF SomeLive, In

LEMMA ListTypesFacts ==
  ASSUME TypeInv, NEW c \in Channels
  PROVE  /\ senders[c] \in Seq(Nodes) /\ receivers[c] \in Seq(Nodes)
         /\ queue[c] \in Seq(Ids) /\ Capacity[c] \in Nat
         /\ Len(queue[c]) \in Nat
BY ChannelAssumption DEF TypeInv, ListTypes

LEMMA SomeLiveNow ==
  ASSUME TypeInv, NEW c \in Channels
  PROVE  /\ SomeLive(receivers[c]) <=> \E n \in Nodes : In(receivers[c], n) /\ Live(n)
         /\ SomeLive(senders[c]) <=> \E n \in Nodes : In(senders[c], n) /\ Live(n)
BY ListTypesFacts, SomeLiveIn

LEMMA SomeLiveNext ==
  ASSUME TypeInv', NEW c \in Channels
  PROVE  /\ SomeLive(receivers[c])' <=>
              \E n \in Nodes : In(receivers'[c], n) /\ Live(n)'
         /\ SomeLive(senders[c])' <=>
              \E n \in Nodes : In(senders'[c], n) /\ Live(n)'
<1>1. /\ \A i \in DOMAIN receivers'[c] : receivers'[c][i] \in Nodes
      /\ \A i \in DOMAIN senders'[c] : senders'[c][i] \in Nodes
  BY DEF TypeInv, ListTypes
<1>2. SomeLive(receivers[c])' <=>
        \E n \in Nodes : In(receivers'[c], n) /\ Live(n)'
  BY <1>1 DEF SomeLive, In, Live
<1>3. SomeLive(senders[c])' <=>
        \E n \in Nodes : In(senders'[c], n) /\ Live(n)'
  BY <1>1 DEF SomeLive, In, Live
<1> QED BY <1>2, <1>3

LEMMA InEmpty ==
  ASSUME NEW q \in Seq(Nodes), NEW n, In(q, n)
  PROVE  q # <<>> /\ n \in Nodes /\ n.fiber \in Fibers
<1>1. \A i \in DOMAIN q : q[i] \in Nodes
  OBVIOUS
<1> QED BY <1>1 DEF In, Nodes

LEMMA LocalFrame ==
  ASSUME TypeInv, NEW g \in Fibers, LocalAt(g), Same(g),
         \A c \in Channels : closed[c] => closed'[c]
  PROVE  LocalAt(g)'
<1>1. CallAt(g)'
  BY DEF LocalAt, CallAt, Same, Arms, Waits, Closes
<1>2. CloseAt(g)'
  <2> SUFFICES ASSUME Closes(g) PROVE CloseAt(g)'
    BY DEF CloseAt, Closes, Same
  <2>1. Chan(g) \in Channels
    <3>1. call[g] # None /\ call[g].form = "close" /\ arm[g] = 1
      BY DEF LocalAt, CallAt, CloseAt, Closes
    <3>2. 1 \in DOMAIN Arms(g) /\ Arms(g)[1].op = "close"
      BY <3>1, ArmFacts
    <3> QED BY <3>1, <3>2, AnArm DEF Chan
  <2> QED BY <2>1 DEF LocalAt, CloseAt, Same, Closes, Chan, Arms
<1>3. PlainAt(g)'
  BY DEF LocalAt, PlainAt, Same, Arms, Waits
<1>4. SelectAt(g)'
  BY DEF LocalAt, SelectAt, TimerAt, Same, Arms, Waits
<1> QED BY <1>1, <1>2, <1>3, <1>4 DEF LocalAt

LEMMA WaiterFrame ==
  ASSUME NEW n, NEW op, NEW c, Waiter(n, op, c), Same(n.fiber)
  PROVE  Waiter(n, op, c)'
BY DEF Waiter, OfArm, Waits, Arms, Same

LEMMA LiveFrame ==
  ASSUME NEW n, Same(n.fiber)
  PROVE  Live(n)' <=> Live(n)
BY DEF Live, Same

LEMMA DetachedFrame ==
  ASSUME NEW h \in Fibers, NEW k \in DOMAIN detached[h], DetachedAt(h, k),
         Same(h), Same(detached[h][k].fiber),
         queue[Chan(h)] = <<>> => queue'[Chan(h)] = <<>>
  PROVE  DetachedAt(h, k)'
<1> DEFINE n == detached[h][k]
           g == n.fiber
<1>1. /\ detached'[h][k] = n /\ pc'[h] = pc[h]
      /\ Chan(h)' = Chan(h)
      /\ calls'[g] = calls[g] /\ pc'[g] = pc[g] /\ state'[g] = state[g]
      /\ wakes'[g] = wakes[g] /\ Waits(g)' = Waits(g) /\ Live(n)' = Live(n)
      /\ \A op : OfArm(n, op, Chan(h))' = OfArm(n, op, Chan(h))
  BY DEF Same, Chan, Arms, Waits, OfArm, Live
<1> QED BY <1>1 DEF DetachedAt

LEMMA MeetFrame ==
  ASSUME TypeInv, TypeInv', MeetInv, NoneRevived, Shrinks(senders),
         Shrinks(receivers), UNCHANGED queue
  PROVE  MeetInv'
<1> SUFFICES ASSUME NEW c \in Channels
             PROVE  /\ Len(queue[c]) <= Capacity[c]
                    /\ SomeLive(receivers[c])' => queue[c] = <<>>
                    /\ SomeLive(senders[c])' => Len(queue[c]) = Capacity[c]
                    /\ \A s, r \in Nodes : /\ In(senders'[c], s) /\ Live(s)'
                                           /\ In(receivers'[c], r) /\ Live(r)'
                                           => s.fiber = r.fiber
  BY DEF MeetInv, In
<1>1. SomeLive(receivers[c])' => SomeLive(receivers[c])
  BY SomeLiveNow, SomeLiveNext DEF NoneRevived, Shrinks
<1>2. SomeLive(senders[c])' => SomeLive(senders[c])
  BY SomeLiveNow, SomeLiveNext DEF NoneRevived, Shrinks
<1> QED BY <1>1, <1>2 DEF MeetInv, NoneRevived, Shrinks

KeepsNodes(g) ==
  \A c \in Channels : ~closed'[c] =>
    /\ ~closed[c]
    /\ \A n \in Nodes : n.fiber = g =>
         /\ In(senders[c], n) => In(senders'[c], n)
         /\ In(receivers[c], n) => In(receivers'[c], n)

KeepsTried(g) ==
  \A c \in Channels : lock[c] = g =>
    /\ lock'[c] = g /\ closed'[c] = closed[c] /\ queue'[c] = queue[c]
    /\ SomeLive(senders[c])' => SomeLive(senders[c])
    /\ SomeLive(receivers[c])' => SomeLive(receivers[c])

LEMMA ListedFrame ==
  ASSUME TypeInv, NEW g \in Fibers, call[g] # None, ListedAt(g), Same(g),
         KeepsNodes(g)
  PROVE  ListedAt(g)'
<1>1. Arms(g)' = Arms(g) /\ \A i : Node(g, i)' = Node(g, i)
  BY DEF Same, Arms, Node
<1>2. SUFFICES ASSUME NEW i \in DOMAIN Arms(g), state[g][i] = "none",
                      pc[g] = "unwait" => arm[g] <= i,
                      NEW c, c = Arms(g)[i].channel
               PROVE  /\ Arms(g)[i].op = "send" /\ ~closed'[c] =>
                           In(senders'[c], Node(g, i))
                      /\ Arms(g)[i].op = "receive" /\ ~closed'[c] =>
                           In(receivers'[c], Node(g, i))
  BY <1>1 DEF ListedAt, In, Same
<1>3. /\ Arms(g)[i].op = "send" /\ ~closed[c] => In(senders[c], Node(g, i))
      /\ Arms(g)[i].op = "receive" /\ ~closed[c] => In(receivers[c], Node(g, i))
  BY <1>2 DEF ListedAt
<1>4. Arms(g)[i].op \in {"send", "receive"} => c \in Channels
  BY <1>2, AnArm
<1>5. Node(g, i) \in Nodes /\ Node(g, i).fiber = g
  BY ArmFacts, NodeType, NodeFields
<1> QED BY <1>3, <1>4, <1>5 DEF KeepsNodes

LEMMA TriedAtFrame ==
  ASSUME TypeInv, NEW g \in Fibers, call[g] # None, NEW i \in DOMAIN Arms(g),
         TriedAt(g, i), Locked(g), KeepsTried(g), call'[g] = call[g]
  PROVE  TriedAt(g, i)'
<1>1. Arms(g)' = Arms(g) /\ ChannelsOf(g) \subseteq Channels
  BY ChannelsOfFacts DEF Arms
<1>2. PICK c : c = Arms(g)[i].channel
  OBVIOUS
<1>3. Arms(g)[i].op \in {"send", "receive"} => c \in Channels /\ lock[c] = g
  BY <1>1, <1>2, AnArm DEF Locked
<1>4. Arms(g)[i].op \in {"send", "receive"} =>
        /\ closed'[c] = closed[c] /\ queue'[c] = queue[c]
        /\ SomeLive(senders[c])' => SomeLive(senders[c])
        /\ SomeLive(receivers[c])' => SomeLive(receivers[c])
  BY <1>3 DEF KeepsTried
<1>5. SomeLive(receivers[Arms(g)[i].channel])' = SomeLive(receivers[c])'
  BY <1>1, <1>2 DEF SomeLive, Live
<1>6. SomeLive(senders[Arms(g)[i].channel])' = SomeLive(senders[c])'
  BY <1>1, <1>2 DEF SomeLive, Live
<1> QED BY <1>1, <1>2, <1>4, <1>5, <1>6 DEF TriedAt

LEMMA TriedFrame ==
  ASSUME TypeInv, LocalInv, NEW g \in Fibers, TriedOf(g), KeepsTried(g),
         pc'[g] = pc[g], call'[g] = call[g], arm'[g] = arm[g]
  PROVE  TriedOf(g)'
<1>1. Arms(g)' = Arms(g) /\ ChannelsOf(g)' = ChannelsOf(g)
  BY DEF Arms, ChannelsOf
<1> SUFFICES ASSUME pc[g] = "run"
             PROVE  /\ arm[g] > 1 => Locked(g)'
                    /\ arm[g] <= Len(Arms(g)) + 1
                    /\ \A i \in DOMAIN Arms(g) : i < arm[g] => TriedAt(g, i)'
  BY <1>1 DEF TriedOf
<1>2. call[g] # None
  BY DEF LocalInv, LocalAt, CallAt
<1>3. ChannelsOf(g) \subseteq Channels
  BY <1>2, ChannelsOfFacts
<1>4. arm[g] > 1 => Locked(g)'
  BY <1>1, <1>3 DEF TriedOf, Locked, KeepsTried
<1>5. ASSUME NEW i \in DOMAIN Arms(g), i < arm[g]
      PROVE  TriedAt(g, i)'
  <2>1. TriedAt(g, i) /\ Locked(g)
    BY <1>2, <1>5, ArmFacts DEF TriedOf, TypeInv, CallTypes
  <2> QED BY <1>2, <2>1, TriedAtFrame
<1> QED BY <1>4, <1>5 DEF TriedOf

LEMMA KeepsTriedFacts ==
  ASSUME TypeInv, TypeInv', NoneRevived, Shrinks(senders), Shrinks(receivers),
         NEW g \in Fibers,
         \A c \in Channels : lock[c] = g =>
           lock'[c] = g /\ closed'[c] = closed[c] /\ queue'[c] = queue[c]
  PROVE  KeepsTried(g)
<1> SUFFICES ASSUME NEW c \in Channels
             PROVE  /\ SomeLive(senders[c])' => SomeLive(senders[c])
                    /\ SomeLive(receivers[c])' => SomeLive(receivers[c])
  BY DEF KeepsTried
<1> QED BY SomeLiveNow, SomeLiveNext DEF NoneRevived, Shrinks

LEMMA DetachedType ==
  ASSUME TypeInv, NEW h \in Fibers, NEW k \in DOMAIN detached[h]
  PROVE  /\ detached[h] \in Seq(Nodes) /\ detached[h][k] \in Nodes
         /\ detached[h][k].fiber \in Fibers
         /\ detached[h][k].call \in Nat /\ calls[detached[h][k].fiber] \in Nat
<1>1. detached[h] \in Seq(Nodes)
  BY DEF TypeInv, CallTypes
<1>2. detached[h][k] \in Nodes
  BY <1>1
<1> QED BY <1>1, <1>2 DEF Nodes, TypeInv, CallTypes

(* A quiet step leaves every waiting fiber, node and list as it was. *)
LEMMA QuietStep ==
  ASSUME ChannelInv, NEW f \in Fibers, Quiet(f), TypeInv', LocalAt(f)'
  PROVE  LocalInv' /\ ListInv' /\ ListedInv' /\ DetachedInv' /\ MeetInv'
<1>0. /\ TypeInv /\ LocalInv /\ ListInv /\ ListedInv /\ DetachedInv /\ MeetInv
      /\ Others(f) /\ UNCHANGED shared /\ ~Waits(f) /\ ~Waits(f)'
      /\ ~Closes(f)' /\ NoneRevived
  BY DEF ChannelInv, Quiet
<1>1. LocalInv'
  <2>1. ASSUME NEW g \in Fibers, g # f PROVE LocalAt(g)'
    BY <1>0, <2>1, LocalFrame DEF Others, LocalInv, shared
  <2> QED BY <2>1 DEF LocalInv
<1>2. ListInv'
  <2>1. ASSUME NEW c \in Channels, NEW n \in Nodes, In(senders[c], n)
        PROVE  Waiter(n, "send", c)'
    <3>1. Waiter(n, "send", c) /\ n.fiber \in Fibers /\ n.fiber # f
      BY <1>0, <2>1 DEF ListInv, Waiter, Nodes
    <3> QED BY <1>0, <3>1, WaiterFrame DEF Others
  <2>2. ASSUME NEW c \in Channels, NEW n \in Nodes, In(receivers[c], n)
        PROVE  Waiter(n, "receive", c)'
    <3>1. Waiter(n, "receive", c) /\ n.fiber \in Fibers /\ n.fiber # f
      BY <1>0, <2>2 DEF ListInv, Waiter, Nodes
    <3> QED BY <1>0, <3>1, WaiterFrame DEF Others
  <2> QED BY <1>0, <2>1, <2>2 DEF ListInv, shared, In, Distinct
<1>3. ListedInv'
  <2> SUFFICES ASSUME NEW g \in Fibers, Waits(g)' PROVE ListedAt(g)'
    BY DEF ListedInv
  <2>1. g # f
    BY <1>0
  <2>2. Same(g) /\ Waits(g) /\ ListedAt(g)
    BY <1>0, <2>1 DEF Others, Same, Waits, ListedInv
  <2>3. call[g] # None
    BY <1>0, <2>2 DEF LocalInv, LocalAt, CallAt, Waits
  <2>4. KeepsNodes(g)
    BY <1>0 DEF KeepsNodes, shared
  <2> QED BY <1>0, <2>2, <2>3, <2>4, ListedFrame
<1>4. DetachedInv'
  <2>1. ASSUME NEW h \in Fibers
        PROVE  Distinct(detached'[h]) /\ \A k \in DOMAIN detached'[h] : DetachedAt(h, k)'
    <3>1. CASE h = f
      <4>1. detached'[f] = <<>>
        BY <1>0 DEF LocalAt, CallAt
      <4> QED BY <3>1, <4>1 DEF Distinct
    <3>2. CASE h # f
      <4>1. Same(h) /\ detached'[h] = detached[h] /\ Distinct(detached[h])
        BY <1>0, <3>2 DEF Others, Same, DetachedInv
      <4>2. ASSUME NEW k \in DOMAIN detached[h] PROVE DetachedAt(h, k)'
        <5>1. DetachedAt(h, k)
          BY <1>0 DEF DetachedInv
        <5>2. CASE detached[h][k].fiber # f
          BY <1>0, <4>1, <5>1, <5>2, DetachedType, DetachedFrame DEF Others, shared
        <5>3. CASE detached[h][k].fiber = f
          <6> DEFINE n == detached[h][k]
          <6>1. /\ detached'[h][k] = n /\ n.fiber = f /\ n.call \in Nat
                /\ calls[f] \in Nat /\ calls'[f] \in Nat
            BY <1>0, <4>1, <5>3, DetachedType DEF TypeInv, CallTypes
          <6>2. /\ n.call <= calls[f] /\ n.context
                /\ n.call = calls[f] => pc[f] \in {"idle", "return"}
            BY <1>0, <5>1, <5>3 DEF DetachedAt, Waits
          <6>3. /\ n.call <= calls'[f]
                /\ n.call = calls'[f] => pc'[f] \in {"idle", "return"}
            BY <6>1, <6>2 DEF Quiet
          <6> QED BY <6>1, <6>2, <6>3, <1>0 DEF DetachedAt
        <5> QED BY <5>2, <5>3
      <4> QED BY <4>1, <4>2
    <3> QED BY <3>1, <3>2
  <2>2. ASSUME NEW h \in Fibers, NEW g \in Fibers, Closes(h)', Closes(g)',
               Chan(h)' = Chan(g)'
        PROVE  h = g
    <3>1. h # f /\ g # f
      BY <1>0, <2>2
    <3>2. Closes(h) /\ Closes(g) /\ Chan(h) = Chan(g)
      BY <1>0, <2>2, <3>1 DEF Others, Same, Closes, Chan, Arms
    <3> QED BY <1>0, <3>2 DEF DetachedInv
  <2> QED BY <2>1, <2>2 DEF DetachedInv
<1>5. MeetInv'
  <2>1. Shrinks(senders) /\ Shrinks(receivers) /\ UNCHANGED queue
    BY <1>0 DEF Shrinks, shared
  <2> QED BY <1>0, <2>1, MeetFrame
<1> QED BY <1>1, <1>2, <1>3, <1>4, <1>5

(* The other fibers stay where they are in their calls. *)
Bystanders(f) ==
  \A g \in Fibers : g # f =>
    /\ pc'[g] = pc[g] /\ call'[g] = call[g] /\ arm'[g] = arm[g]
    /\ calls'[g] = calls[g]

KeepsLock(f) ==
  \A c \in Channels : lock'[c] # None =>
    \/ lock'[c] = lock[c] /\ lock[c] # f
    \/ lock'[c] = f /\ pc'[f] \in {"run", "return"} /\ c \in ChannelsOf(f)'

LEMMA LockFrame ==
  ASSUME TypeInv, LockInv, NEW f \in Fibers, Bystanders(f), KeepsLock(f)
  PROVE  LockInv'
<1> SUFFICES ASSUME NEW c \in Channels, lock'[c] # None
             PROVE  /\ pc'[lock'[c]] \in {"run", "return"}
                    /\ c \in ChannelsOf(lock[c])'
  BY DEF LockInv
<1>1. CASE lock'[c] = f /\ pc'[f] \in {"run", "return"} /\ c \in ChannelsOf(f)'
  BY <1>1 DEF ChannelsOf, Arms
<1>2. CASE lock'[c] = lock[c] /\ lock[c] # f
  <2>1. PICK g \in Fibers : g = lock[c] /\ g # f
    BY <1>2 DEF TypeInv, ListTypes
  <2>2. pc'[g] = pc[g] /\ ChannelsOf(g)' = ChannelsOf(g)
    BY <2>1 DEF Bystanders, ChannelsOf, Arms
  <2>3. pc[g] \in {"run", "return"} /\ c \in ChannelsOf(g)
    BY <1>2, <2>1 DEF LockInv
  <2>4. ChannelsOf(lock[c])' = ChannelsOf(g)'
    BY <1>2, <2>1 DEF ChannelsOf, Arms
  <2> QED BY <1>2, <2>1, <2>2, <2>3, <2>4
<1> QED BY <1>1, <1>2 DEF KeepsLock

LEMMA OthersStay ==
  ASSUME NEW f, Others(f)
  PROVE  Bystanders(f)
BY DEF Others, Bystanders, Same

(* A fiber that neither runs nor returns holds no lock. *)
LEMMA HoldsNone ==
  ASSUME TypeInv, LockInv, NEW f \in Fibers, pc[f] \notin {"run", "return"}
  PROVE  \A c \in Channels : lock[c] # f
BY ChannelAssumption DEF LockInv

(* What is left to show of a quiet step. *)
LEMMA QuietInv ==
  ASSUME ChannelInv, NEW f \in Fibers, Quiet(f), TypeInv', LocalAt(f)',
         KeepsLock(f), TriedOf(f)',
         \A c \in Channels : lock[c] # None /\ lock[c] # f => lock'[c] = lock[c]
  PROVE  ChannelInv'
<1>0. TypeInv /\ LocalInv /\ LockInv /\ TriedInv /\ Others(f) /\ UNCHANGED shared
      /\ NoneRevived
  BY DEF ChannelInv, Quiet
<1>1. LockInv'
  BY <1>0, OthersStay, LockFrame
<1>2. TriedInv'
  <2> SUFFICES ASSUME NEW g \in Fibers, g # f PROVE TriedOf(g)'
    BY DEF TriedInv
  <2>1. Shrinks(senders) /\ Shrinks(receivers)
    BY <1>0 DEF shared, Shrinks
  <2>2. KeepsTried(g)
    BY <1>0, <2>1, KeepsTriedFacts, ChannelAssumption DEF shared
  <2> QED BY <1>0, <2>2, TriedFrame DEF Others, Same, TriedInv
<1> QED BY <1>1, <1>2, QuietStep DEF ChannelInv

LEMMA NotRevived ==
  ASSUME TypeInv, LocalInv, NEW f \in Fibers, Others(f),
         calls'[f] = calls[f] \/ select[f] # "active",
         select'[f] = "active" => select[f] = "active"
  PROVE  NoneRevived
<1> SUFFICES ASSUME NEW n \in Nodes, n.context, n.call = calls'[n.fiber],
                    select'[n.fiber] = "active"
             PROVE  n.call = calls[n.fiber] /\ select[n.fiber] = "active"
  BY DEF NoneRevived, Live
<1>1. n.fiber \in Fibers
  BY DEF Nodes
<1> QED BY <1>1 DEF Others, Same

-----------------------------------------------------------------------------
(* The steps of a call that touch no channel and no other fiber. *)

LEMMA BeginStep ==
  ASSUME ChannelInv, NEW f \in Fibers, NEW c \in Calls, Begin(f, c)
  PROVE  ChannelInv'
<1>0. /\ TypeInv /\ LocalInv /\ LockInv /\ LocalAt(f) /\ CallAt(f)
      /\ pc[f] = "idle" /\ calls[f] \in Nat /\ c # None
  BY ChannelAssumption DEF ChannelInv, LocalInv, LocalAt, Begin, TypeInv, CallTypes
<1>1. c.arms \in Seq(Arm) /\ Len(c.arms) \in Nat /\ DOMAIN c.arms = 1..Len(c.arms)
  <2>1. c \in Call
    BY ChannelAssumption
  <2>2. c.arms \in Seq(Arm)
    BY <2>1 DEF Call
  <2> QED BY <2>2
<1>2. TypeInv'
  <2>1. [i \in DOMAIN c.arms |-> "none"] \in Seq(DeliveryStates)
    BY <1>1 DEF DeliveryStates
  <2>2. ListTypes' /\ WaitingTypes'
    BY <1>0, <2>1 DEF Begin, TypeInv, ListTypes, WaitingTypes, shared
  <2>3. CallTypes'
    <3>1. CallTypes /\ "run" \in Steps /\ calls[f] + 1 \in Nat
      BY <1>0 DEF TypeInv, Steps
    <3>2. /\ pc' = [pc EXCEPT ![f] = "run"] /\ call' = [call EXCEPT ![f] = c]
          /\ arm' = [arm EXCEPT ![f] = 1] /\ calls' = [calls EXCEPT ![f] = calls[f] + 1]
          /\ UNCHANGED <<timer, detached, outcome>>
      BY DEF Begin, Goto
    <3> QED BY <3>1, <3>2 DEF CallTypes
  <2> QED BY <2>2, <2>3 DEF TypeInv
<1>3. /\ pc'[f] = "run" /\ call'[f] = c /\ arm'[f] = 1 /\ calls'[f] = calls[f] + 1
      /\ state'[f] = [i \in DOMAIN c.arms |-> "none"]
      /\ UNCHANGED <<shared, lock, data, select, activated, wakes, timer,
                     detached, outcome>>
  BY <1>0 DEF Begin, Goto, TypeInv, CallTypes, WaitingTypes
<1>4. LocalAt(f)'
  <2>1. CallAt(f)'
    BY <1>0, <1>3 DEF CallAt, Arms, Waits, Closes
  <2> QED BY <1>3, <2>1 DEF LocalAt, CloseAt, PlainAt, SelectAt, Waits, Closes
<1>5. Others(f)
  BY DEF Begin, Goto, Others, Same
<1>6. Quiet(f)
  <2>1. NoneRevived
    BY <1>0, <1>3, <1>5, NotRevived DEF CallAt
  <2> QED BY <1>0, <1>3, <1>5, <2>1 DEF Quiet, Waits, Closes
<1>7. KeepsLock(f)
  BY <1>0, <1>3, HoldsNone DEF KeepsLock
<1>8. TriedOf(f)'
  BY <1>1, <1>3 DEF TriedOf, Arms
<1> QED BY <1>2, <1>3, <1>4, <1>6, <1>7, <1>8, QuietInv

LEMMA RunFacts ==
  ASSUME ChannelInv, NEW f \in Fibers, pc[f] # "idle"
  PROVE  /\ TypeInv /\ LocalInv /\ ListInv /\ ListedInv /\ DetachedInv
         /\ LockInv /\ TriedInv /\ MeetInv
         /\ LocalAt(f) /\ CallAt(f) /\ TriedOf(f)
         /\ call[f] # None /\ call[f] \in Calls
         /\ Len(Arms(f)) \in Nat /\ Len(Arms(f)) > 0
         /\ DOMAIN Arms(f) = 1..Len(Arms(f))
         /\ arm[f] \in Nat /\ arm[f] > 0 /\ calls[f] \in Nat
         /\ DOMAIN state[f] = DOMAIN Arms(f)
<1>1. /\ TypeInv /\ LocalInv /\ ListInv /\ ListedInv /\ DetachedInv
      /\ LockInv /\ TriedInv /\ MeetInv
      /\ LocalAt(f) /\ CallAt(f) /\ TriedOf(f)
  BY DEF ChannelInv, LocalInv, LocalAt, TriedInv
<1>2. call[f] # None /\ arm[f] > 0 /\ DOMAIN state[f] = DOMAIN Arms(f)
  BY <1>1 DEF CallAt
<1> QED BY <1>1, <1>2, ArmFacts DEF TypeInv, CallTypes

(* The call has its outcome, and touched nothing but that. *)
LEMMA FinishStep ==
  ASSUME ChannelInv, NEW f \in Fibers, pc[f] \in {"run", "closing"},
         detached[f] = <<>>,
         NEW s \in {"delivered", "closed", "already closed", "not ready"},
         Finish(f, s),
         UNCHANGED <<shared, lock, call, calls, waiting, timer, detached>>
  PROVE  ChannelInv'
<1>0. /\ TypeInv /\ LocalInv /\ LocalAt(f) /\ CallAt(f) /\ TriedOf(f) /\ LockInv
      /\ call[f] # None /\ arm[f] \in Nat
  BY RunFacts
<1>1. /\ pc' = [pc EXCEPT ![f] = "return"] /\ UNCHANGED arm
      /\ outcome' = [outcome EXCEPT ![f] = [arm |-> arm[f], state |-> s]]
      /\ UNCHANGED <<closed, queue, senders, receivers, lock, call, calls, state,
                     data, select, activated, wakes, timer, detached>>
  BY DEF Finish, Goto, shared, waiting
<1>2. TypeInv'
  <2>1. ListTypes' /\ WaitingTypes'
    BY <1>0, <1>1 DEF TypeInv, ListTypes, WaitingTypes
  <2>2. CallTypes'
    <3>1. "return" \in Steps /\ [arm |-> arm[f], state |-> s] \in Outcomes
      BY <1>0 DEF Steps, Outcomes, DeliveryStates
    <3> QED BY <1>0, <1>1, <3>1 DEF TypeInv, CallTypes
  <2> QED BY <2>1, <2>2 DEF TypeInv
<1>3. pc'[f] = "return" /\ outcome'[f].state = s
  BY <1>0, <1>1 DEF TypeInv, CallTypes
<1>4. LocalAt(f)'
  <2>1. CallAt(f)'
    BY <1>0, <1>1, <1>3 DEF CallAt, Arms, Waits, Closes
  <2> QED BY <1>3, <2>1 DEF LocalAt, CloseAt, PlainAt, SelectAt, Waits, Closes
<1>5. Others(f)
  BY <1>0, <1>1 DEF Others, Same, TypeInv, CallTypes
<1>6. Quiet(f)
  <2>1. NoneRevived
    BY <1>0, <1>1, <1>5, NotRevived
  <2> QED BY <1>0, <1>1, <1>3, <1>5, <2>1 DEF Quiet, Waits, Closes, shared
<1>7. KeepsLock(f)
  BY <1>0, <1>1, <1>3 DEF KeepsLock, LockInv, ChannelsOf, Arms
<1>8. TriedOf(f)'
  BY <1>3 DEF TriedOf
<1> QED BY <1>1, <1>2, <1>4, <1>6, <1>7, <1>8, QuietInv

LEMMA LockStep ==
  ASSUME ChannelInv, NEW f \in Fibers, Lock(f)
  PROVE  ChannelInv'
<1>0. /\ TypeInv /\ LocalInv /\ LocalAt(f) /\ CallAt(f) /\ TriedOf(f) /\ LockInv
      /\ call[f] # None /\ pc[f] = "run"
  BY RunFacts DEF Lock
<1>1. PICK c \in ChannelsOf(f) : lock[c] = None /\ lock' = [lock EXCEPT ![c] = f]
  BY DEF Lock
<1>2. /\ UNCHANGED <<closed, queue, senders, receivers, pc, call, arm, calls, state,
                     data, select, activated, wakes, timer, detached, outcome>>
      /\ c \in Channels
  BY <1>0, <1>1, ChannelsOfFacts DEF Lock, shared, waiting
<1>3. TypeInv'
  <2>1. CallTypes' /\ WaitingTypes'
    BY <1>0, <1>2 DEF TypeInv, CallTypes, WaitingTypes
  <2>2. ListTypes'
    BY <1>0, <1>1, <1>2 DEF TypeInv, ListTypes
  <2> QED BY <2>1, <2>2 DEF TypeInv
<1>4. Others(f) /\ Same(f)
  BY <1>2 DEF Others, Same
<1>5. LocalAt(f)'
  BY <1>0, <1>2, <1>4, LocalFrame
<1>6. Quiet(f)
  <2>1. NoneRevived
    BY <1>0, <1>2, <1>4, NotRevived
  <2> QED BY <1>0, <1>2, <1>4, <2>1 DEF Quiet, Waits, Closes, shared
<1>7. \A d \in Channels : lock'[d] = IF d = c THEN f ELSE lock[d]
  BY <1>0, <1>1, <1>2 DEF TypeInv, ListTypes
<1>8. KeepsLock(f) /\ \A d \in Channels : lock[d] # None /\ lock[d] # f => lock'[d] = lock[d]
  BY <1>0, <1>1, <1>2, <1>7 DEF KeepsLock, LockInv, ChannelsOf, Arms
<1>9. TriedOf(f)'
  <2>1. /\ Arms(f)' = Arms(f) /\ ChannelsOf(f)' = ChannelsOf(f)
        /\ \A i \in DOMAIN Arms(f) : TriedAt(f, i)' = TriedAt(f, i)
    BY <1>2 DEF Arms, ChannelsOf, TriedAt, SomeLive, Live
  <2>2. Locked(f) => Locked(f)'
    BY <1>0, <1>7, <2>1, ChannelsOfFacts DEF Locked
  <2> QED BY <1>0, <1>2, <2>1, <2>2 DEF TriedOf
<1> QED BY <1>3, <1>5, <1>6, <1>8, <1>9, QuietInv

LEMMA NotReadyStep ==
  ASSUME ChannelInv, NEW f \in Fibers, NotReady(f)
  PROVE  ChannelInv'
<1>1. detached[f] = <<>>
  BY RunFacts DEF NotReady, Running, CallAt, Closes
<1> QED BY <1>1, FinishStep DEF NotReady, Running

LEMMA CloseDoneStep ==
  ASSUME ChannelInv, NEW f \in Fibers, CloseDone(f)
  PROVE  ChannelInv'
BY FinishStep DEF CloseDone

LEMMA ExecuteTimeoutStep ==
  ASSUME ChannelInv, NEW f \in Fibers, ExecuteTimeout(f)
  PROVE  ChannelInv'
<1>0. /\ TypeInv /\ LocalInv /\ LocalAt(f) /\ CallAt(f) /\ TriedOf(f) /\ LockInv
      /\ call[f] # None /\ pc[f] = "run" /\ arm[f] \in Nat /\ arm[f] > 0
      /\ Len(Arms(f)) \in Nat /\ arm[f] <= Len(Arms(f)) /\ Locked(f)
      /\ Op(f) = "timeout" /\ DOMAIN Arms(f) = 1..Len(Arms(f))
  BY RunFacts DEF ExecuteTimeout, Executing, Running
<1>1. /\ arm' = [arm EXCEPT ![f] = arm[f] + 1]
      /\ UNCHANGED <<closed, queue, senders, receivers, lock, pc, call, calls, state,
                     data, select, activated, wakes, timer, detached, outcome>>
  BY DEF ExecuteTimeout, NextArm, shared, waiting
<1>2. arm'[f] = arm[f] + 1
  BY <1>0, <1>1 DEF TypeInv, CallTypes
<1>3. TypeInv'
  BY <1>0, <1>1 DEF TypeInv, ListTypes, CallTypes, WaitingTypes
<1>4. Others(f)
  BY <1>1 DEF Others, Same
<1>5. LocalAt(f)'
  <2>1. CallAt(f)'
    <3>1. arm'[f] > 0 /\ Arms(f)' = Arms(f)
      BY <1>0, <1>1, <1>2 DEF Arms
    <3>2. CallAt(f)
      BY <1>0
    <3> QED BY <1>1, <3>1, <3>2 DEF CallAt, Waits, Closes
  <2> QED BY <1>0, <1>1, <2>1 DEF LocalAt, CloseAt, PlainAt, SelectAt, Waits, Closes
<1>6. Quiet(f)
  <2>1. NoneRevived
    BY <1>0, <1>1, <1>4, NotRevived
  <2> QED BY <1>0, <1>1, <1>4, <2>1 DEF Quiet, Waits, Closes, shared
<1>7. KeepsLock(f)
  BY <1>0, <1>1 DEF KeepsLock, LockInv, ChannelsOf, Arms
<1>8. TriedOf(f)'
  <2>1. /\ Arms(f)' = Arms(f) /\ Locked(f)'
        /\ \A i \in DOMAIN Arms(f) : TriedAt(f, i)' = TriedAt(f, i)
    BY <1>0, <1>1 DEF Arms, ChannelsOf, Locked, TriedAt, SomeLive, Live
  <2>2. TriedAt(f, arm[f])
    BY <1>0 DEF TriedAt, Op
  <2>3. \A i \in DOMAIN Arms(f) : i < arm[f] + 1 => TriedAt(f, i)
    BY <1>0, <2>2 DEF TriedOf
  <2> QED BY <1>0, <1>1, <1>2, <2>1, <2>3 DEF TriedOf
<1> QED BY <1>1, <1>3, <1>5, <1>6, <1>7, <1>8, QuietInv

LEMMA ReturnStep ==
  ASSUME ChannelInv, NEW f \in Fibers, Return(f)
  PROVE  ChannelInv'
<1>0. /\ TypeInv /\ LocalInv /\ LocalAt(f) /\ CallAt(f) /\ LockInv
      /\ pc[f] = "return" /\ Len(Arms(f)) \in Nat
  BY RunFacts DEF Return
<1>1. /\ pc' = [pc EXCEPT ![f] = "idle"] /\ call' = [call EXCEPT ![f] = None]
      /\ arm' = [arm EXCEPT ![f] = 0] /\ state' = [state EXCEPT ![f] = <<>>]
      /\ data' = [data EXCEPT ![f] = None]
      /\ outcome' = [outcome EXCEPT ![f] = NoOutcome]
      /\ select' = [select EXCEPT ![f] = "none"]
      /\ activated' = [activated EXCEPT ![f] = 0]
      /\ lock' = Unlocked(f)
      /\ UNCHANGED <<closed, queue, senders, receivers, calls, wakes, timer, detached>>
  BY DEF Return, Goto, shared
<1>2. TypeInv'
  <2>1. ListTypes'
    BY <1>0, <1>1 DEF TypeInv, ListTypes, Unlocked
  <2>2. CallTypes'
    <3>1. "idle" \in Steps /\ NoOutcome \in Outcomes
      BY DEF Steps, NoOutcome, Outcomes, DeliveryStates
    <3> QED BY <1>0, <1>1, <3>1 DEF TypeInv, CallTypes
  <2>3. WaitingTypes'
    BY <1>0, <1>1 DEF TypeInv, WaitingTypes
  <2> QED BY <2>1, <2>2, <2>3 DEF TypeInv
<1>3. /\ pc'[f] = "idle" /\ call'[f] = None /\ state'[f] = <<>> /\ data'[f] = None
      /\ select'[f] = "none" /\ activated'[f] = 0
  BY <1>0, <1>1 DEF TypeInv, CallTypes, WaitingTypes
<1>4. LocalAt(f)'
  <2>1. CallAt(f)'
    <3>1. wakes[f] = 0 /\ timer[f] = 0 /\ detached[f] = <<>>
      BY <1>0 DEF CallAt, Waits, Closes
    <3>2. \A i \in DOMAIN state'[f] : state'[f][i] = "none"
      BY <1>3
    <3> QED BY <1>1, <1>3, <3>1, <3>2 DEF CallAt, Waits, Closes
  <2> QED BY <1>3, <2>1 DEF LocalAt, CloseAt, PlainAt, SelectAt, Waits, Closes
<1>5. Others(f)
  BY <1>1 DEF Others, Same
<1>6. Quiet(f)
  <2>1. NoneRevived
    BY <1>0, <1>1, <1>3, <1>5, NotRevived
  <2> QED BY <1>0, <1>1, <1>3, <1>5, <2>1 DEF Quiet, Waits, Closes, shared
<1>7. \A c \in Channels : lock'[c] = IF lock[c] = f THEN None ELSE lock[c]
  BY <1>1 DEF Unlocked
<1>8. KeepsLock(f)
  BY <1>7 DEF KeepsLock
<1>9. TriedOf(f)'
  BY <1>3 DEF TriedOf
<1> QED BY <1>2, <1>4, <1>6, <1>7, <1>8, <1>9, QuietInv

-----------------------------------------------------------------------------
(* The steps of a fiber that waits. *)

(* What a node on a list needs of a step of its fiber. *)
Stays(n) ==
  /\ Waits(n.fiber)'
  /\ ~n.context => wakes'[n.fiber] = 0
  /\ pc'[n.fiber] = "unwait" => arm'[n.fiber] <= n.arm

(* A step of waiting fiber f that changes neither its nodes nor a channel, *)
(* but may take nodes off the lists.                                       *)
Unwaits(f) ==
  /\ Others(f) /\ NoneRevived /\ UNCHANGED <<closed, queue, lock>>
  /\ Shrinks(senders) /\ Shrinks(receivers)
  /\ Waits(f) /\ pc'[f] \in {"parked", "unwait", "return"}
  /\ call'[f] = call[f] /\ calls'[f] = calls[f] /\ state'[f] = state[f]
  /\ call[f].form = "plain" =>
       wakes[f] # 0 \/ (pc'[f] = pc[f] /\ wakes'[f] = wakes[f])

LEMMA WaitFacts ==
  ASSUME ChannelInv, NEW f \in Fibers, Waits(f)
  PROVE  /\ pc[f] \in {"parked", "unwait"}
         /\ PlainAt(f) /\ SelectAt(f) /\ call[f].form \in {"plain", "select"}
         /\ detached[f] = <<>> /\ ~Closes(f)
         /\ wakes[f] \in Nat /\ timer[f] \in Nat /\ activated[f] \in Nat
<1>1. pc[f] \in {"parked", "unwait"}
  BY DEF Waits
<1>2. LocalAt(f) /\ CallAt(f) /\ TypeInv
  BY <1>1, RunFacts
<1>3. PlainAt(f) /\ SelectAt(f) /\ detached[f] = <<>> /\ ~Closes(f)
  BY <1>1, <1>2 DEF LocalAt, CallAt, Closes
<1>4. call[f].form \in {"plain", "select"}
  BY <1>3 DEF SelectAt
<1> QED BY <1>1, <1>2, <1>3, <1>4 DEF TypeInv, WaitingTypes, CallTypes

LEMMA DetachedOwn ==
  ASSUME ChannelInv, NEW f \in Fibers, Unwaits(f),
         NEW h \in Fibers, NEW k \in DOMAIN detached[h], detached[h][k].fiber = f
  PROVE  DetachedAt(h, k)'
<1>0. /\ TypeInv /\ DetachedAt(h, k) /\ Waits(f) /\ Others(f) /\ NoneRevived
      /\ detached[f] = <<>> /\ SelectAt(f)
  BY WaitFacts DEF ChannelInv, DetachedInv, Unwaits
<1> PICK n : n = detached[h][k]
  OBVIOUS
<1>1. h # f /\ Same(h) /\ n \in Nodes
  BY <1>0, DetachedType DEF Others
<1>2. /\ detached'[h][k] = n /\ pc'[h] = pc[h] /\ Chan(h)' = Chan(h)
      /\ queue' = queue
  BY <1>1 DEF Same, Chan, Arms, Unwaits
<1>3. /\ calls'[f] = calls[f] /\ Arms(f)' = Arms(f) /\ state'[f] = state[f]
      /\ \A op, c : OfArm(n, op, c)' = OfArm(n, op, c)
      /\ Live(n)' => Live(n)
  BY <1>0, <1>1 DEF Unwaits, Arms, OfArm, NoneRevived
<1>4. ~n.context => n.call = calls[f] /\ pc'[f] = "parked" /\ wakes'[f] = 0
  <2> SUFFICES ASSUME ~n.context
               PROVE  n.call = calls[f] /\ pc'[f] = "parked" /\ wakes'[f] = 0
    OBVIOUS
  <2>1. n.call = calls[f] /\ pc[f] = "parked" /\ wakes[f] = 0
    BY <1>0 DEF DetachedAt
  <2>2. call[f].form = "plain"
    BY <1>0, <2>1 DEF DetachedAt, OfArm, SelectAt
  <2> QED BY <2>1, <2>2 DEF Unwaits
<1>5. /\ n.call <= calls'[f]
      /\ pc'[f] \in {"idle", "return", "parked", "unwait"}
  BY <1>0, <1>3 DEF DetachedAt, Unwaits
<1>6. n.call = calls[f] =>
        /\ \/ OfArm(n, "send", Chan(h))
           \/ OfArm(n, "receive", Chan(h)) /\ (Live(n) => queue[Chan(h)] = <<>>)
        /\ state[f][n.arm] = IF k = 1 /\ pc[h] = "close wake" THEN "closed" ELSE "none"
  BY <1>0 DEF DetachedAt
<1> QED BY <1>2, <1>3, <1>4, <1>5, <1>6 DEF DetachedAt

LEMMA UnwaitsStep ==
  ASSUME ChannelInv, NEW f \in Fibers, Unwaits(f), TypeInv', LocalAt(f)',
         \A c \in Channels : Distinct(senders'[c]) /\ Distinct(receivers'[c]),
         \A c \in Channels, n \in Nodes :
           /\ n.fiber = f
           /\ \/ In(senders'[c], n) /\ Waiter(n, "send", c)
              \/ In(receivers'[c], n) /\ Waiter(n, "receive", c)
           => Stays(n),
         \A g \in Fibers : g # f => KeepsNodes(g),
         Waits(f)' => ListedAt(f)'
  PROVE  ChannelInv'
<1>0. /\ TypeInv /\ LocalInv /\ ListInv /\ ListedInv /\ DetachedInv
      /\ LockInv /\ TriedInv /\ MeetInv /\ Others(f) /\ NoneRevived
      /\ UNCHANGED <<closed, queue, lock>>
      /\ Shrinks(senders) /\ Shrinks(receivers)
  BY DEF ChannelInv, Unwaits
<1>1. LocalInv'
  <2>1. ASSUME NEW g \in Fibers, g # f PROVE LocalAt(g)'
    BY <1>0, <2>1, LocalFrame DEF Others, LocalInv
  <2> QED BY <2>1 DEF LocalInv
<1>2. ASSUME NEW c \in Channels, NEW n \in Nodes, NEW op,
             \/ op = "send" /\ In(senders'[c], n)
             \/ op = "receive" /\ In(receivers'[c], n)
      PROVE  Waiter(n, op, c)'
  <2>1. Waiter(n, op, c) /\ n.fiber \in Fibers
    BY <1>0, <1>2 DEF ListInv, Shrinks, Nodes
  <2>2. CASE n.fiber # f
    BY <1>0, <2>1, <2>2, WaiterFrame DEF Others
  <2>3. CASE n.fiber = f
    <3>1. Stays(n)
      BY <1>2, <2>1, <2>3
    <3>2. OfArm(n, op, c)'
      BY <2>1, <2>3 DEF Waiter, OfArm, Unwaits, Arms
    <3> QED BY <2>1, <2>3, <3>1, <3>2 DEF Stays, Waiter, Unwaits
  <2> QED BY <2>2, <2>3
<1>3. ListInv'
  <2>1. ASSUME NEW c \in Channels
        PROVE  closed'[c] => senders'[c] = <<>> /\ receivers'[c] = <<>>
    <3>1. /\ senders'[c] \in Seq(Nodes) /\ receivers'[c] \in Seq(Nodes)
          /\ \A i \in DOMAIN senders'[c] : senders'[c][i] \in Nodes
          /\ \A i \in DOMAIN receivers'[c] : receivers'[c][i] \in Nodes
      BY DEF TypeInv, ListTypes
    <3>2. closed[c] => senders[c] = <<>> /\ receivers[c] = <<>>
      BY <1>0 DEF ListInv
    <3>3. closed[c] => \A n \in Nodes : ~In(senders'[c], n) /\ ~In(receivers'[c], n)
      BY <1>0, <3>2 DEF Shrinks, In
    <3>4. closed[c] => DOMAIN senders'[c] = {} /\ DOMAIN receivers'[c] = {}
      BY <3>1, <3>3 DEF In
    <3> QED BY <1>0, <3>1, <3>4
  <2> QED BY <1>2, <2>1 DEF ListInv, In, Distinct
<1>4. ListedInv'
  <2> SUFFICES ASSUME NEW g \in Fibers, Waits(g)', g # f PROVE ListedAt(g)'
    BY DEF ListedInv
  <2>1. Same(g) /\ Waits(g) /\ ListedAt(g) /\ KeepsNodes(g)
    BY <1>0 DEF Others, Same, Waits, ListedInv
  <2>2. call[g] # None
    BY <1>0, <2>1 DEF LocalInv, LocalAt, CallAt, Waits
  <2> QED BY <1>0, <2>1, <2>2, ListedFrame
<1>5. DetachedInv'
  <2>0. ~Closes(f) /\ ~Closes(f)'
    BY DEF Unwaits, Waits, Closes
  <2>1. ASSUME NEW h \in Fibers
        PROVE  Distinct(detached'[h]) /\ \A k \in DOMAIN detached'[h] : DetachedAt(h, k)'
    <3>1. CASE h = f
      <4>1. detached'[f] = <<>>
        BY <2>0 DEF LocalAt, CallAt
      <4> QED BY <3>1, <4>1 DEF Distinct
    <3>2. CASE h # f
      <4>1. Same(h) /\ detached'[h] = detached[h] /\ Distinct(detached[h])
        BY <1>0, <3>2 DEF Others, Same, DetachedInv
      <4>2. ASSUME NEW k \in DOMAIN detached[h] PROVE DetachedAt(h, k)'
        <5>1. DetachedAt(h, k)
          BY <1>0 DEF DetachedInv
        <5>2. CASE detached[h][k].fiber # f
          BY <1>0, <4>1, <5>1, <5>2, DetachedType, DetachedFrame DEF Others
        <5>3. CASE detached[h][k].fiber = f
          BY <5>3, DetachedOwn
        <5> QED BY <5>2, <5>3
      <4> QED BY <4>1, <4>2
    <3> QED BY <3>1, <3>2
  <2>2. ASSUME NEW h \in Fibers, NEW g \in Fibers, Closes(h)', Closes(g)',
               Chan(h)' = Chan(g)'
        PROVE  h = g
    <3>1. h # f /\ g # f
      BY <2>0, <2>2
    <3>2. Closes(h) /\ Closes(g) /\ Chan(h) = Chan(g)
      BY <1>0, <2>2, <3>1 DEF Others, Same, Closes, Chan, Arms
    <3> QED BY <1>0, <3>2 DEF DetachedInv
  <2> QED BY <2>1, <2>2 DEF DetachedInv
<1>6. LockInv'
  <2>1. KeepsLock(f)
    BY <1>0, HoldsNone DEF KeepsLock, Unwaits, Waits
  <2> QED BY <1>0, <2>1, OthersStay, LockFrame
<1>7. TriedInv'
  <2> SUFFICES ASSUME NEW g \in Fibers PROVE TriedOf(g)'
    BY DEF TriedInv
  <2>1. CASE g = f
    BY <2>1 DEF Unwaits, TriedOf
  <2>2. CASE g # f
    <3>1. KeepsTried(g)
      BY <1>0, KeepsTriedFacts
    <3> QED BY <1>0, <2>2, <3>1, TriedFrame DEF Others, Same, TriedInv
  <2> QED BY <2>1, <2>2
<1>8. MeetInv'
  BY <1>0, MeetFrame
<1> QED BY <1>1, <1>3, <1>4, <1>5, <1>6, <1>7, <1>8 DEF ChannelInv

LEMMA ListsKept ==
  ASSUME ListInv, UNCHANGED <<closed, senders, receivers>>
  PROVE  /\ Shrinks(senders) /\ Shrinks(receivers)
         /\ \A c \in Channels : Distinct(senders'[c]) /\ Distinct(receivers'[c])
         /\ \A g \in Fibers : KeepsNodes(g)
BY DEF ListInv, Shrinks, KeepsNodes

(* The nodes of f are where they were, and fewer of them are asked for. *)
LEMMA ListedOwn ==
  ASSUME NEW f, ListedAt(f), call'[f] = call[f], calls'[f] = calls[f],
         state'[f] = state[f], UNCHANGED <<closed, senders, receivers>>,
         \A i \in DOMAIN Arms(f) :
           (pc'[f] = "unwait" => arm'[f] <= i) => (pc[f] = "unwait" => arm[f] <= i)
  PROVE  ListedAt(f)'
<1>1. Arms(f)' = Arms(f) /\ \A i : Node(f, i)' = Node(f, i)
  BY DEF Arms, Node
<1> QED BY <1>1 DEF ListedAt, In

LEMMA ResumeStep ==
  ASSUME ChannelInv, NEW f \in Fibers, Resume(f)
  PROVE  ChannelInv'
<1>0. /\ TypeInv /\ LocalInv /\ ListInv /\ LocalAt(f) /\ CallAt(f)
      /\ call[f] # None /\ arm[f] \in Nat /\ pc[f] = "parked"
      /\ DOMAIN state[f] = DOMAIN Arms(f) /\ DOMAIN Arms(f) = 1..Len(Arms(f))
      /\ Len(Arms(f)) \in Nat /\ Len(Arms(f)) > 0
  BY RunFacts DEF Resume
<1>1. /\ Waits(f) /\ PlainAt(f) /\ SelectAt(f) /\ wakes[f] \in Nat /\ wakes[f] > 0
      /\ wakes[f] = 1 /\ timer[f] \in Nat /\ ListedAt(f)
      /\ call[f].form \in {"plain", "select"}
  <2>1. Waits(f) /\ PlainAt(f) /\ SelectAt(f) /\ wakes[f] \in Nat /\ timer[f] \in Nat
        /\ call[f].form \in {"plain", "select"}
    BY <1>0, WaitFacts DEF Waits
  <2>2. wakes[f] > 0
    BY DEF Resume
  <2>3. wakes[f] = 1
    BY <1>0, <2>1, <2>2 DEF PlainAt, SelectAt
  <2> QED BY <2>1, <2>2, <2>3, RunFacts, <1>0 DEF ListedInv
<1>2. /\ wakes' = [wakes EXCEPT ![f] = 0]
      /\ UNCHANGED <<closed, queue, senders, receivers, lock, call, calls, state,
                     data, select, activated, timer, detached>>
  BY <1>1 DEF Resume, shared
<1>3. wakes'[f] = 0
  BY <1>0, <1>2 DEF TypeInv, WaitingTypes
<1>4. ListTypes' /\ WaitingTypes'
  BY <1>0, <1>2 DEF TypeInv, ListTypes, WaitingTypes
<1>5. /\ Shrinks(senders) /\ Shrinks(receivers)
      /\ \A c \in Channels : Distinct(senders'[c]) /\ Distinct(receivers'[c])
      /\ \A g \in Fibers : KeepsNodes(g)
  BY <1>0, <1>2, ListsKept
<1>6. CASE call[f].form = "plain"
  <2>1. /\ outcome' = [outcome EXCEPT ![f] = [arm |-> 1, state |-> state[f][1]]]
        /\ pc' = [pc EXCEPT ![f] = "return"] /\ arm' = arm
    BY <1>6 DEF Resume, Goto
  <2>2. state[f][1] \in DeliveryStates /\ state[f][1] # "none"
    BY <1>0, <1>1, <1>6 DEF PlainAt, TypeInv, WaitingTypes
  <2>3. pc'[f] = "return" /\ outcome'[f].state = state[f][1]
    BY <1>0, <2>1 DEF TypeInv, CallTypes
  <2>4. TypeInv'
    <3>1. "return" \in Steps /\ [arm |-> 1, state |-> state[f][1]] \in Outcomes
      BY <2>2 DEF Steps, Outcomes
    <3>2. CallTypes'
      BY <1>0, <1>2, <2>1, <3>1 DEF TypeInv, CallTypes
    <3> QED BY <1>4, <3>2 DEF TypeInv
  <2>5. Others(f)
    BY <1>0, <1>2, <2>1 DEF Others, Same, TypeInv, CallTypes, WaitingTypes
  <2>6. LocalAt(f)'
    <3>1. select[f] = "none" /\ timer[f] = 0 /\ detached[f] = <<>>
      BY <1>0, <1>1, <1>6 DEF PlainAt, CallAt, Closes
    <3>2. CallAt(f)'
      <4>1. Arms(f)' = Arms(f) /\ arm'[f] > 0 /\ call'[f] # None
        BY <1>0, <1>2, <2>1 DEF Arms, CallAt
      <4>2. DOMAIN state'[f] = DOMAIN Arms(f)'
        BY <1>0, <1>2, <4>1
      <4> QED BY <1>2, <1>3, <2>2, <2>3, <3>1, <4>1, <4>2 DEF CallAt, Waits, Closes
    <3> QED BY <2>3, <3>2 DEF LocalAt, CloseAt, PlainAt, SelectAt, Waits, Closes
  <2>7. Unwaits(f)
    <3>1. NoneRevived
      BY <1>0, <1>2, <2>5, NotRevived
    <3> QED BY <1>1, <1>2, <1>5, <2>3, <2>5, <3>1 DEF Unwaits
  <2>8. ~Waits(f)'
    BY <2>3 DEF Waits
  <2>9. ASSUME NEW n, NEW op, NEW c, n.fiber = f, Waiter(n, op, c)
        PROVE  FALSE
    <3>1. n.context = (call[f].form = "select") /\ (~n.context => wakes[f] = 0)
      BY <2>9 DEF Waiter, OfArm
    <3>2. (call[f].form = "select") = FALSE
      BY <1>6
    <3>3. ~n.context
      BY <3>1, <3>2, Zenon
    <3> QED BY <1>1, <3>1, <3>3
  <2> QED BY <1>5, <2>4, <2>6, <2>7, <2>8, <2>9, UnwaitsStep
<1>7. CASE call[f].form # "plain"
  <2>1. /\ arm' = [arm EXCEPT ![f] = 1] /\ outcome' = outcome
        /\ pc' = [pc EXCEPT ![f] = "unwait"]
    BY <1>7 DEF Resume, Goto
  <2>2. pc'[f] = "unwait" /\ arm'[f] = 1
    BY <1>0, <2>1 DEF TypeInv, CallTypes
  <2>3. TypeInv'
    <3>1. "unwait" \in Steps
      BY DEF Steps
    <3>2. CallTypes'
      BY <1>0, <1>2, <2>1, <3>1 DEF TypeInv, CallTypes
    <3> QED BY <1>4, <3>2 DEF TypeInv
  <2>4. Others(f)
    BY <1>0, <1>2, <2>1 DEF Others, Same, TypeInv, CallTypes, WaitingTypes
  <2>5. Arms(f)' = Arms(f)
    BY <1>2 DEF Arms
  <2>6. LocalAt(f)'
    <3>1. select[f] = "done" /\ detached[f] = <<>> /\ TimerAt(f)
      BY <1>0, <1>1, <1>7 DEF SelectAt, CallAt, Closes
    <3>2. CallAt(f)'
      <4>1. call'[f] # None /\ DOMAIN state'[f] = DOMAIN Arms(f)'
        BY <1>0, <1>2, <2>5
      <4> QED BY <1>2, <1>3, <2>2, <3>1, <4>1 DEF CallAt, Waits, Closes
    <3>3. TimerAt(f)'
      BY <1>0, <1>1, <1>2, <2>2, <2>5, <3>1 DEF TimerAt
    <3>4. SelectAt(f)'
      BY <1>0, <1>1, <1>2, <1>7, <2>2, <2>5, <3>1, <3>3 DEF SelectAt
    <3>5. PlainAt(f)' /\ CloseAt(f)'
      BY <1>2, <1>7, <2>2 DEF PlainAt, CloseAt, Closes
    <3> QED BY <3>2, <3>4, <3>5 DEF LocalAt
  <2>7. Unwaits(f)
    <3>1. NoneRevived
      BY <1>0, <1>2, <2>4, NotRevived
    <3> QED BY <1>1, <1>2, <1>5, <1>7, <2>2, <2>4, <3>1 DEF Unwaits
  <2>8. ListedAt(f)'
    BY <1>0, <1>1, <1>2, ListedOwn
  <2>9. ASSUME NEW n \in Nodes, n.fiber = f, NEW op, NEW c, Waiter(n, op, c)
        PROVE  Stays(n)
    <3>1. n.arm >= 1
      BY <1>0, <2>9 DEF Waiter, OfArm, Nodes
    <3> QED BY <1>3, <2>2, <2>9, <3>1 DEF Stays, Waits, Nodes
  <2> QED BY <1>5, <2>3, <2>6, <2>7, <2>8, <2>9, UnwaitsStep
<1> QED BY <1>6, <1>7

(* A fiber that takes back its arms is that of a select that is decided. *)
LEMMA UnwaitFacts ==
  ASSUME ChannelInv, NEW f \in Fibers, pc[f] = "unwait"
  PROVE  /\ TypeInv /\ LocalInv /\ ListInv /\ LocalAt(f) /\ CallAt(f)
         /\ Waits(f) /\ ListedAt(f)
         /\ call[f] # None /\ call[f].form = "select"
         /\ arm[f] \in Nat /\ arm[f] > 0 /\ wakes[f] = 0 /\ timer[f] \in Nat
         /\ DOMAIN state[f] = DOMAIN Arms(f) /\ DOMAIN Arms(f) = 1..Len(Arms(f))
         /\ Len(Arms(f)) \in Nat /\ Len(Arms(f)) > 0
         /\ TimerAt(f) /\ select[f] = "done" /\ activated[f] \in DOMAIN Arms(f)
         /\ Arms(f)[activated[f]].op # "timeout" => state[f][activated[f]] # "none"
         /\ detached[f] = <<>>
<1>1. Waits(f)
  BY DEF Waits
<1>2. /\ TypeInv /\ LocalInv /\ ListInv /\ LocalAt(f) /\ CallAt(f) /\ ListedAt(f)
      /\ call[f] # None /\ arm[f] \in Nat /\ arm[f] > 0 /\ timer[f] \in Nat
      /\ DOMAIN state[f] = DOMAIN Arms(f) /\ DOMAIN Arms(f) = 1..Len(Arms(f))
      /\ Len(Arms(f)) \in Nat /\ Len(Arms(f)) > 0
      /\ PlainAt(f) /\ SelectAt(f) /\ detached[f] = <<>>
  BY <1>1, RunFacts, WaitFacts DEF ListedInv
<1>3. call[f].form # "plain"
  BY <1>1, <1>2 DEF PlainAt
<1>4. wakes[f] = 0
  BY <1>2 DEF CallAt
<1> QED BY <1>1, <1>2, <1>3, <1>4 DEF SelectAt

LEMMA UnwaitTimeoutStep ==
  ASSUME ChannelInv, NEW f \in Fibers, UnwaitTimeout(f)
  PROVE  ChannelInv'
<1>0. /\ TypeInv /\ LocalInv /\ ListInv /\ LocalAt(f) /\ CallAt(f)
      /\ Waits(f) /\ ListedAt(f) /\ pc[f] = "unwait"
      /\ call[f] # None /\ call[f].form = "select"
      /\ arm[f] \in Nat /\ arm[f] > 0 /\ wakes[f] = 0
      /\ DOMAIN state[f] = DOMAIN Arms(f) /\ DOMAIN Arms(f) = 1..Len(Arms(f))
      /\ select[f] = "done" /\ activated[f] \in DOMAIN Arms(f)
      /\ Arms(f)[activated[f]].op # "timeout" => state[f][activated[f]] # "none"
      /\ detached[f] = <<>> /\ Arms(f)[arm[f]].op = "timeout"
  BY UnwaitFacts DEF UnwaitTimeout, Op
<1>1. /\ timer' = [timer EXCEPT ![f] = 0] /\ arm' = [arm EXCEPT ![f] = arm[f] + 1]
      /\ UNCHANGED <<closed, queue, senders, receivers, lock, pc, call, calls, state,
                     data, select, activated, wakes, detached, outcome>>
  BY DEF UnwaitTimeout, NextArm, shared, waiting
<1>2. timer'[f] = 0 /\ arm'[f] = arm[f] + 1
  BY <1>0, <1>1 DEF TypeInv, CallTypes
<1>3. TypeInv'
  BY <1>0, <1>1 DEF TypeInv, ListTypes, CallTypes, WaitingTypes
<1>4. Others(f)
  BY <1>0, <1>1 DEF Others, Same, TypeInv, CallTypes, WaitingTypes
<1>5. Arms(f)' = Arms(f)
  BY <1>1 DEF Arms
<1>6. LocalAt(f)'
  <2>1. CallAt(f)'
    <3>1. arm'[f] > 0 /\ DOMAIN state'[f] = DOMAIN Arms(f)'
      BY <1>0, <1>1, <1>2, <1>5
    <3> QED BY <1>0, <1>1, <1>2, <3>1 DEF CallAt, Waits, Closes
  <2>2. SelectAt(f)'
    BY <1>0, <1>1, <1>2, <1>5 DEF SelectAt, TimerAt
  <2> QED BY <1>0, <1>1, <2>1, <2>2 DEF LocalAt, CloseAt, PlainAt, Closes
<1>7. Unwaits(f)
  <2>1. NoneRevived
    BY <1>0, <1>1, <1>4, NotRevived
  <2> QED BY <1>0, <1>1, <1>4, <2>1, ListsKept DEF Unwaits
<1>8. ListedAt(f)'
  BY <1>0, <1>1, <1>2, ListedOwn
<1>9. ASSUME NEW n \in Nodes, n.fiber = f, NEW op \in {"send", "receive"}, NEW c,
             Waiter(n, op, c)
      PROVE  Stays(n)
  <2>1. arm[f] <= n.arm /\ n.arm # arm[f] /\ n.arm \in Nat
    BY <1>0, <1>9 DEF Waiter, OfArm, Nodes
  <2> QED BY <1>0, <1>1, <1>2, <1>9, <2>1 DEF Stays, Waits
<1> QED BY <1>0, <1>1, <1>3, <1>6, <1>7, <1>8, <1>9, ListsKept, UnwaitsStep

LEMMA ResultStep ==
  ASSUME ChannelInv, NEW f \in Fibers, Result(f)
  PROVE  ChannelInv'
<1>0. /\ TypeInv /\ LocalInv /\ ListInv /\ LocalAt(f) /\ CallAt(f)
      /\ Waits(f) /\ pc[f] = "unwait"
      /\ call[f] # None /\ call[f].form = "select"
      /\ arm[f] \in Nat /\ arm[f] > Len(Arms(f)) /\ Len(Arms(f)) \in Nat
      /\ wakes[f] = 0 /\ timer[f] \in Nat /\ TimerAt(f)
      /\ DOMAIN state[f] = DOMAIN Arms(f) /\ DOMAIN Arms(f) = 1..Len(Arms(f))
      /\ select[f] = "done" /\ activated[f] \in DOMAIN Arms(f)
      /\ Arms(f)[activated[f]].op # "timeout" => state[f][activated[f]] # "none"
      /\ detached[f] = <<>>
  BY UnwaitFacts DEF Result
<1> DEFINE r == [arm |-> activated[f],
                 state |-> IF Arms(f)[activated[f]].op = "timeout" THEN "expired"
                           ELSE state[f][activated[f]]]
<1>1. /\ outcome' = [outcome EXCEPT ![f] = r] /\ pc' = [pc EXCEPT ![f] = "return"]
      /\ UNCHANGED <<closed, queue, senders, receivers, lock, arm, call, calls, state,
                     data, select, activated, wakes, timer, detached>>
  <2>1. activated[f] # 0
    BY <1>0
  <2> QED BY <2>1 DEF Result, Goto, shared, waiting
<1>2. r \in Outcomes /\ r.state # "none"
  <2>1. state[f][activated[f]] \in DeliveryStates /\ activated[f] \in Nat
    BY <1>0 DEF TypeInv, WaitingTypes
  <2> QED BY <1>0, <2>1 DEF Outcomes
<1> HIDE DEF r
<1>3. pc'[f] = "return" /\ outcome'[f].state # "none"
  BY <1>0, <1>1, <1>2 DEF TypeInv, CallTypes
<1>4. TypeInv'
  <2>1. ListTypes' /\ WaitingTypes'
    BY <1>0, <1>1 DEF TypeInv, ListTypes, WaitingTypes
  <2>2. CallTypes'
    <3>1. "return" \in Steps
      BY DEF Steps
    <3> QED BY <1>0, <1>1, <1>2, <3>1 DEF TypeInv, CallTypes
  <2> QED BY <2>1, <2>2 DEF TypeInv
<1>5. Others(f)
  BY <1>0, <1>1 DEF Others, Same, TypeInv, CallTypes, WaitingTypes
<1>6. timer[f] = 0
  BY <1>0 DEF TimerAt
<1>7. LocalAt(f)'
  <2>1. CallAt(f)'
    <3>1. arm'[f] > 0 /\ Arms(f)' = Arms(f)
      BY <1>0, <1>1 DEF Arms
    <3> QED BY <1>0, <1>1, <1>3, <1>6, <3>1 DEF CallAt, Waits, Closes
  <2> QED BY <1>3, <2>1 DEF LocalAt, CloseAt, PlainAt, SelectAt, Waits, Closes
<1>8. Unwaits(f)
  <2>1. NoneRevived
    BY <1>0, <1>1, <1>5, NotRevived
  <2> QED BY <1>0, <1>1, <1>3, <1>5, <2>1, ListsKept DEF Unwaits
<1>9. ASSUME NEW n \in Nodes, n.fiber = f, NEW op, NEW c, Waiter(n, op, c)
      PROVE  FALSE
  BY <1>0, <1>9 DEF Waiter, OfArm, Nodes
<1>10. ~Waits(f)'
  BY <1>3 DEF Waits
<1> QED BY <1>0, <1>1, <1>4, <1>7, <1>8, <1>9, <1>10, ListsKept, UnwaitsStep

LEMMA ExpireStep ==
  ASSUME ChannelInv, NEW f \in Fibers, Expire(f)
  PROVE  ChannelInv'
<1>0. /\ TypeInv /\ LocalInv /\ ListInv /\ LocalAt(f) /\ CallAt(f)
      /\ Waits(f) /\ pc[f] = "parked" /\ ListedAt(f)
      /\ call[f] # None /\ timer[f] # 0 /\ SelectAt(f) /\ PlainAt(f)
      /\ DOMAIN state[f] = DOMAIN Arms(f)
  BY RunFacts, WaitFacts DEF Expire, Waits, ListedInv
<1>1. call[f].form = "select" /\ TimerAt(f)
  BY <1>0 DEF SelectAt, PlainAt
<1>2. /\ timer' = [timer EXCEPT ![f] = 0]
      /\ UNCHANGED <<closed, queue, senders, receivers, lock, pc, arm, call, calls,
                     state, data, detached, outcome>>
  BY DEF Expire, shared
<1>3. TypeInv'
  <2>1. ListTypes' /\ CallTypes'
    BY <1>0, <1>2 DEF TypeInv, ListTypes, CallTypes
  <2>2. WaitingTypes'
    <3>1. timer[f] \in Nat /\ wakes[f] + 1 \in Nat
      BY <1>0 DEF TypeInv, WaitingTypes, CallTypes
    <3> QED BY <1>0, <1>2, <3>1 DEF Expire, TypeInv, WaitingTypes
  <2> QED BY <2>1, <2>2 DEF TypeInv
<1>4. Others(f)
  BY <1>0, <1>2 DEF Expire, Others, Same, TypeInv, CallTypes, WaitingTypes
<1>5. timer'[f] = 0 /\ Arms(f)' = Arms(f)
  BY <1>0, <1>2 DEF TypeInv, CallTypes, Arms
<1>6. SelectAt(f)' /\ select'[f] # "active"
  <2>1. CASE select[f] = "active"
    <3>1. select'[f] = "done" /\ activated'[f] = timer[f] /\ wakes'[f] = wakes[f] + 1
      BY <1>0, <2>1 DEF Expire, TypeInv, WaitingTypes
    <3> QED BY <1>0, <1>1, <1>2, <1>5, <2>1, <3>1 DEF SelectAt, TimerAt
  <2>2. CASE select[f] # "active"
    <3>1. UNCHANGED <<select, activated, wakes>>
      BY <2>2 DEF Expire
    <3> QED BY <1>0, <1>1, <1>2, <1>5, <2>2, <3>1 DEF SelectAt, TimerAt
  <2> QED BY <2>1, <2>2
<1>7. LocalAt(f)'
  <2>1. CallAt(f)'
    <3>1. arm'[f] > 0 /\ DOMAIN state'[f] = DOMAIN Arms(f)' /\ detached[f] = <<>>
      BY <1>0, <1>2, <1>5 DEF CallAt, Waits, Closes
    <3> QED BY <1>0, <1>2, <1>5, <1>6, <3>1 DEF CallAt, Waits, Closes
  <2> QED BY <1>0, <1>1, <1>2, <1>6, <2>1 DEF LocalAt, CloseAt, PlainAt, Closes
<1>8. Unwaits(f)
  <2>1. NoneRevived
    BY <1>0, <1>2, <1>4, <1>6, NotRevived
  <2> QED BY <1>0, <1>1, <1>2, <1>4, <2>1, ListsKept DEF Unwaits
<1>9. ASSUME NEW n \in Nodes, n.fiber = f, NEW op, NEW c, Waiter(n, op, c)
      PROVE  Stays(n)
  <2>1. n.context
    BY <1>1, <1>9 DEF Waiter, OfArm
  <2> QED BY <1>0, <1>2, <1>9, <2>1 DEF Stays, Waits
<1>10. ListedAt(f)'
  BY <1>0, <1>2, ListedOwn
<1> QED BY <1>0, <1>2, <1>3, <1>7, <1>8, <1>9, <1>10, ListsKept, UnwaitsStep

LEMMA UnwaitStep ==
  ASSUME ChannelInv, NEW f \in Fibers, Unwait(f)
  PROVE  ChannelInv'
<1>0. /\ TypeInv /\ LocalInv /\ ListInv /\ LocalAt(f) /\ CallAt(f)
      /\ Waits(f) /\ ListedAt(f) /\ pc[f] = "unwait"
      /\ call[f] # None /\ call[f].form = "select"
      /\ arm[f] \in Nat /\ arm[f] > 0 /\ wakes[f] = 0 /\ timer[f] \in Nat
      /\ DOMAIN state[f] = DOMAIN Arms(f) /\ DOMAIN Arms(f) = 1..Len(Arms(f))
      /\ TimerAt(f) /\ select[f] = "done" /\ activated[f] \in DOMAIN Arms(f)
      /\ Arms(f)[activated[f]].op # "timeout" => state[f][activated[f]] # "none"
      /\ detached[f] = <<>> /\ arm[f] \in DOMAIN Arms(f)
      /\ Arms(f)[arm[f]].op # "timeout"
  BY UnwaitFacts DEF Unwait, Op
<1>1. PICK c \in Channels : c = Chan(f) /\ Arms(f)[arm[f]].channel = c
  BY <1>0, AnArm DEF Chan
<1> DEFINE node == Node(f, arm[f])
<1>2. /\ arm' = [arm EXCEPT ![f] = arm[f] + 1]
      /\ UNCHANGED <<closed, queue, lock, pc, call, calls, state, data, select,
                     activated, wakes, timer, detached, outcome>>
  BY DEF Unwait, NextArm, waiting
<1>3. ASSUME NEW d \in Channels
      PROVE  /\ senders'[d] \in Seq(Nodes) /\ Distinct(senders'[d])
             /\ receivers'[d] \in Seq(Nodes) /\ Distinct(receivers'[d])
             /\ \A n : In(senders'[d], n) <=>
                  In(senders[d], n) /\ ~(TakesBack(f) /\ d = c /\ n = node)
             /\ \A n : In(receivers'[d], n) <=>
                  In(receivers[d], n) /\ ~(TakesBack(f) /\ d = c /\ n = node)
  <2> HIDE DEF node
  <2>1. /\ senders[d] \in Seq(Nodes) /\ Distinct(senders[d])
        /\ receivers[d] \in Seq(Nodes) /\ Distinct(receivers[d])
    BY <1>0, ListTypesFacts DEF ListInv
  <2>2. CASE TakesBack(f) /\ d = c
    <3>1. senders'[d] = Without(senders[d], node) /\ receivers'[d] = Without(receivers[d], node)
      BY <1>0, <1>1, <2>2 DEF Unwait, TypeInv, ListTypes, node
    <3> QED BY <2>1, <2>2, <3>1, WithoutFacts
  <2>3. CASE ~(TakesBack(f) /\ d = c)
    <3>1. senders'[d] = senders[d] /\ receivers'[d] = receivers[d]
      BY <1>0, <1>1, <2>3 DEF Unwait, TypeInv, ListTypes
    <3> QED BY <2>1, <2>3, <3>1
  <2> QED BY <2>2, <2>3
<1>4. TypeInv'
  <2>1. ListTypes'
    <3>1. /\ senders' = [d \in Channels |-> senders'[d]]
          /\ receivers' = [d \in Channels |-> receivers'[d]]
      BY <1>0 DEF Unwait, TypeInv, ListTypes
    <3> QED BY <1>0, <1>2, <1>3, <3>1 DEF TypeInv, ListTypes
  <2>2. CallTypes' /\ WaitingTypes'
    BY <1>0, <1>2 DEF TypeInv, CallTypes, WaitingTypes
  <2> QED BY <2>1, <2>2 DEF TypeInv
<1>5. Others(f) /\ Arms(f)' = Arms(f) /\ arm'[f] = arm[f] + 1
  BY <1>0, <1>2 DEF Others, Same, Arms, TypeInv, CallTypes
<1>6. LocalAt(f)'
  <2>1. CallAt(f)'
    <3>1. arm'[f] > 0 /\ DOMAIN state'[f] = DOMAIN Arms(f)'
      BY <1>0, <1>2, <1>5
    <3> QED BY <1>0, <1>2, <1>5, <3>1 DEF CallAt, Waits, Closes
  <2>2. SelectAt(f)'
    <3>1. timer[f] # 0 => arm[f] + 1 <= timer[f]
      BY <1>0 DEF TimerAt
    <3> QED BY <1>0, <1>2, <1>5, <3>1 DEF SelectAt, TimerAt
  <2> QED BY <1>0, <1>2, <2>1, <2>2 DEF LocalAt, CloseAt, PlainAt, Closes
<1>7. Shrinks(senders) /\ Shrinks(receivers)
  BY <1>3 DEF Shrinks
<1>8. Unwaits(f)
  <2>1. NoneRevived
    BY <1>0, <1>2, <1>5, NotRevived
  <2> QED BY <1>0, <1>2, <1>5, <1>7, <2>1 DEF Unwaits
<1>9. ASSUME NEW g \in Fibers, g # f PROVE KeepsNodes(g)
  <2>1. \A n : n.fiber = g => n # node
    BY <1>9, NodeFields
  <2> QED BY <1>2, <1>3, <2>1 DEF KeepsNodes
<1>10. ListedAt(f)'
  <2>1. \A i : Node(f, i)' = Node(f, i)
    BY <1>2 DEF Node
  <2> SUFFICES ASSUME NEW i \in DOMAIN Arms(f), state[f][i] = "none", arm[f] + 1 <= i,
                      NEW d, d = Arms(f)[i].channel, ~closed[d]
               PROVE  /\ Arms(f)[i].op = "send" => In(senders'[d], Node(f, i))
                      /\ Arms(f)[i].op = "receive" => In(receivers'[d], Node(f, i))
    BY <1>0, <1>2, <1>5, <2>1 DEF ListedAt, In
  <2>2. Node(f, i) # node /\ arm[f] <= i
    BY <1>0, NodeFields
  <2>3. /\ Arms(f)[i].op = "send" => In(senders[d], Node(f, i))
        /\ Arms(f)[i].op = "receive" => In(receivers[d], Node(f, i))
    BY <1>0, <2>2 DEF ListedAt
  <2>4. Arms(f)[i].op \in {"send", "receive"} => d \in Channels
    BY <1>0, AnArm
  <2> QED BY <1>3, <2>2, <2>3, <2>4
<1>11. ASSUME NEW d \in Channels, NEW n \in Nodes, n.fiber = f,
              NEW op, Waiter(n, op, d),
              \/ op = "send" /\ In(senders'[d], n)
              \/ op = "receive" /\ In(receivers'[d], n)
       PROVE  Stays(n)
  <2>1. arm[f] <= n.arm /\ n.arm \in Nat
    BY <1>0, <1>11 DEF Waiter, Nodes
  <2>2. n.arm # arm[f]
    <3> SUFFICES ASSUME n.arm = arm[f] PROVE FALSE
      OBVIOUS
    <3>1. n = node /\ d = c /\ state[f][arm[f]] = "none"
      <4>1. n = Node(n.fiber, n.arm)
        BY <1>11, WaiterIsNode DEF Waiter, OfArm
      <4> QED BY <1>1, <1>11, <4>1 DEF Waiter, OfArm
    <3>2. ~closed[c]
      BY <1>0, <1>3, <1>11, <3>1, ListTypesFacts, InEmpty DEF ListInv
    <3>3. TakesBack(f)
      BY <1>1, <3>1, <3>2 DEF TakesBack
    <3> QED BY <1>3, <1>11, <3>1, <3>3
  <2> QED BY <1>0, <1>2, <1>5, <1>11, <2>1, <2>2 DEF Stays, Waits
<1>12. \A d \in Channels : Distinct(senders'[d]) /\ Distinct(receivers'[d])
  BY <1>3
<1> QED BY <1>4, <1>6, <1>8, <1>9, <1>10, <1>11, <1>12, UnwaitsStep

-----------------------------------------------------------------------------
(* Delivery: a fiber marks the nodes of others, and wakes one of them. *)

LEMMA MarkFacts ==
  ASSUME TypeInv, NEW T, NEW s \in DeliveryStates, state' = Mark(T, s)
  PROVE  /\ state' \in [Fibers -> Seq(DeliveryStates)]
         /\ \A g \in Fibers :
              /\ DOMAIN state'[g] = DOMAIN state[g]
              /\ \A i \in DOMAIN state[g] :
                   state'[g][i] =
                     IF \E n \in T : n.fiber = g /\ n.call = calls[g] /\ n.arm = i
                       THEN s ELSE state[g][i]
              /\ (\A n \in T : n.fiber = g => n.call # calls[g]) =>
                   state'[g] = state[g]
<1>1. \A g \in Fibers :
        /\ state[g] \in Seq(DeliveryStates)
        /\ state'[g] = [i \in DOMAIN state[g] |->
             IF \E n \in T : n.fiber = g /\ n.call = calls[g] /\ n.arm = i
               THEN s ELSE state[g][i]]
  BY DEF TypeInv, WaitingTypes, Mark
<1>2. ASSUME NEW g \in Fibers
      PROVE  state'[g] \in Seq(DeliveryStates)
  <2>0. state[g] \in Seq(DeliveryStates)
    BY <1>1
  <2>1. DOMAIN state[g] = 1..Len(state[g]) /\ Len(state[g]) \in Nat
        /\ \A i \in DOMAIN state[g] : state[g][i] \in DeliveryStates
    BY <2>0
  <2>2. PICK m \in Nat : DOMAIN state[g] = 1..m
    BY <2>1
  <2> DEFINE mark(i) == IF \E n \in T : n.fiber = g /\ n.call = calls[g] /\ n.arm = i
                          THEN s ELSE state[g][i]
  <2>3. \A i \in 1..m : mark(i) \in DeliveryStates
    BY <2>1, <2>2
  <2>4. state'[g] = [i \in 1..m |-> mark(i)]
    BY <1>1, <2>2
  <2> HIDE DEF mark
  <2>5. state'[g] \in [1..m -> DeliveryStates]
    BY <2>3, <2>4
  <2> QED BY <2>2, <2>5
<1>3. state' = [g \in Fibers |-> state'[g]]
  BY DEF Mark
<1>4. ASSUME NEW g \in Fibers, \A n \in T : n.fiber = g => n.call # calls[g]
      PROVE  state'[g] = state[g]
  <2>1. state'[g] = [i \in DOMAIN state[g] |-> state[g][i]]
    BY <1>1, <1>4
  <2>0. state[g] \in Seq(DeliveryStates)
    BY <1>1
  <2>2. state[g] = [i \in DOMAIN state[g] |-> state[g][i]]
    BY <2>0
  <2> QED BY <2>1, <2>2
<1> QED BY <1>1, <1>2, <1>3, <1>4

(* A node of waiting fiber g was delivered to, and g enqueued. *)
Woken(g, i) ==
  /\ Waits(g) /\ Arms(g)[i].op # "timeout" /\ state'[g][i] # "none"
  /\ wakes'[g] = wakes[g] + 1
  /\ IF call[g].form = "select"
       THEN select[g] = "active" /\ select'[g] = "done" /\ activated'[g] = i
       ELSE /\ wakes[g] = 0
            /\ select'[g] = select[g] /\ activated'[g] = activated[g]

Unwoken(g) ==
  /\ select'[g] = select[g] /\ activated'[g] = activated[g]
  /\ wakes'[g] = wakes[g] /\ data'[g] = data[g]

(* The others take no step of their own. *)
Still(g) ==
  /\ pc'[g] = pc[g] /\ call'[g] = call[g] /\ arm'[g] = arm[g]
  /\ calls'[g] = calls[g] /\ timer'[g] = timer[g]
  /\ detached'[g] = detached[g] /\ outcome'[g] = outcome[g]

LEMMA DeliveredLocal ==
  ASSUME TypeInv, NEW g \in Fibers, LocalAt(g), Still(g),
         \A c \in Channels : closed[c] => closed'[c],
         DOMAIN state'[g] = DOMAIN state[g],
         \A i \in DOMAIN state[g] : state[g][i] # "none" => state'[g][i] # "none",
         pc[g] \notin {"return", "parked", "unwait"} => state'[g] = state[g],
         Unwoken(g) \/ \E i \in DOMAIN Arms(g) : Woken(g, i)
  PROVE  LocalAt(g)'
<1>1. Arms(g)' = Arms(g) /\ Waits(g)' = Waits(g) /\ Closes(g)' = Closes(g)
  BY DEF Still, Arms, Waits, Closes
<1>2. ~Waits(g) => Unwoken(g)
  BY DEF Woken
<1>3. ASSUME NEW i \in DOMAIN Arms(g), Woken(g, i)
      PROVE  pc[g] = "parked" /\ select'[g] # "active"
  <2>1. CASE call[g].form = "select"
    BY <1>3, <2>1 DEF Woken, LocalAt, SelectAt
  <2>2. CASE call[g].form # "select"
    <3>1. call[g].form = "plain"
      BY <1>3, <2>2 DEF Woken, LocalAt, SelectAt
    <3> QED BY <1>3, <2>2, <3>1 DEF Woken, LocalAt, PlainAt
  <2> QED BY <2>1, <2>2
<1>4. CallAt(g)'
  <2>1. CallAt(g)
    BY DEF LocalAt
  <2>2. pc[g] # "parked" => Unwoken(g)
    BY <1>3
  <2>3. select'[g] = "active" => pc[g] = "parked"
    BY <1>3, <2>1 DEF CallAt, Unwoken
  <2> QED BY <1>1, <2>1, <2>2, <2>3 DEF CallAt, Still, Unwoken
<1>5. CloseAt(g)'
  <2> SUFFICES ASSUME Closes(g) PROVE CloseAt(g)'
    BY <1>1 DEF CloseAt
  <2>1. Unwoken(g)
    BY <1>2 DEF Closes, Waits
  <2>2. call[g] # None /\ call[g].form = "close" /\ arm[g] = 1
    BY DEF LocalAt, CallAt, CloseAt, Closes
  <2>3. Chan(g) \in Channels
    <3>1. 1 \in DOMAIN Arms(g) /\ Arms(g)[1].op = "close"
      BY <2>2, ArmFacts
    <3> QED BY <2>2, <3>1, AnArm DEF Chan
  <2> QED BY <1>1, <2>1, <2>3 DEF LocalAt, CloseAt, Still, Closes, Chan, Unwoken
<1>6. PlainAt(g)'
  <2> SUFFICES ASSUME Waits(g), call[g].form = "plain" PROVE PlainAt(g)'
    BY <1>1 DEF PlainAt, Still
  <2>1. PlainAt(g) /\ call[g] # None
    BY DEF LocalAt, CallAt, Waits
  <2>2. DOMAIN Arms(g) = {1} /\ 1 \in DOMAIN state[g]
    BY <2>1, ArmFacts DEF LocalAt, CallAt, Waits
  <2>3. CASE Unwoken(g)
    BY <1>1, <2>1, <2>2, <2>3 DEF PlainAt, Still, Unwoken
  <2>4. CASE Woken(g, 1)
    BY <1>1, <2>1, <2>2, <2>4 DEF PlainAt, Still, Woken
  <2> QED BY <2>2, <2>3, <2>4
<1>7. SelectAt(g)'
  <2> SUFFICES ASSUME Waits(g), call[g].form # "plain" PROVE SelectAt(g)'
    BY <1>1 DEF SelectAt, Still
  <2>1. SelectAt(g) /\ call[g].form = "select" /\ TimerAt(g)
        /\ DOMAIN state[g] = DOMAIN Arms(g)
    BY DEF LocalAt, CallAt, SelectAt, Waits
  <2>2. TimerAt(g)'
    BY <1>1, <2>1 DEF TimerAt, Still
  <2>3. CASE Unwoken(g)
    BY <1>1, <2>1, <2>2, <2>3 DEF SelectAt, Still, Unwoken
  <2>4. ASSUME NEW i \in DOMAIN Arms(g), Woken(g, i) PROVE SelectAt(g)'
    BY <1>1, <1>3, <2>1, <2>2, <2>4 DEF SelectAt, Still, Woken
  <2> QED BY <2>3, <2>4
<1> QED BY <1>4, <1>5, <1>6, <1>7 DEF LocalAt

(* dequeue_sender and dequeue_receiver: op says of which list of c. *)
Gone(list, n) == In(list, n) /\ ~In(Rest(list), n)

ListOf(op, c, list) ==
  \/ op = "send" /\ list = senders[c]
  \/ op = "receive" /\ list = receivers[c]

LEMMA OnList ==
  ASSUME ChannelInv, NEW op, NEW c \in Channels, NEW list, ListOf(op, c, list)
  PROVE  /\ list \in Seq(Nodes) /\ Distinct(list)
         /\ closed[c] => list = <<>>
         /\ op \in {"send", "receive"}
         /\ \A n : In(list, n) => /\ n \in Nodes /\ n.fiber \in Fibers
                                  /\ Waiter(n, op, c) /\ n = Node(n.fiber, n.arm)
                                  /\ ~closed[c]
<1>1. TypeInv /\ ListInv
  BY DEF ChannelInv
<1>2. /\ list \in Seq(Nodes) /\ Distinct(list) /\ op \in {"send", "receive"}
      /\ closed[c] => list = <<>>
  BY <1>1, ListTypesFacts DEF ListOf, ListInv
<1>3. ASSUME NEW n, In(list, n)
      PROVE  /\ n \in Nodes /\ n.fiber \in Fibers
             /\ Waiter(n, op, c) /\ n = Node(n.fiber, n.arm) /\ ~closed[c]
  <2>1. n \in Nodes /\ n.fiber \in Fibers /\ list # <<>>
    BY <1>2, <1>3, InEmpty
  <2>2. Waiter(n, op, c)
    BY <1>1, <1>3, <2>1 DEF ListOf, ListInv
  <2>3. n = Node(n.fiber, n.arm)
    BY <2>1, <2>2, WaiterIsNode DEF Waiter, OfArm
  <2> QED BY <1>2, <2>1, <2>2, <2>3
<1> QED BY <1>2, <1>3

LEMMA DequeueFacts ==
  ASSUME ChannelInv, NEW op, NEW c \in Channels, NEW list, ListOf(op, c, list),
         Dequeue(list)
  PROVE  /\ SomeLive(list) =>
              /\ Gone(list, list[FirstLive(list)]) /\ Live(list[FirstLive(list)])
              /\ list[FirstLive(list)] \in Nodes
         /\ state' \in [Fibers -> Seq(DeliveryStates)]
         /\ \A g \in Fibers :
              /\ DOMAIN state'[g] = DOMAIN state[g]
              /\ ~Waits(g) => state'[g] = state[g]
              /\ \A i \in DOMAIN state[g] :
                   state'[g][i] = IF Gone(list, Node(g, i)) THEN "delivered"
                                  ELSE state[g][i]
<1>0. TypeInv /\ list \in Seq(Nodes) /\ Distinct(list)
      /\ Taken(list) \in Nat /\ Taken(list) <= Len(list) /\ Len(list) \in Nat
      /\ DOMAIN list = 1..Len(list)
  <2>1. TypeInv /\ list \in Seq(Nodes) /\ Distinct(list)
    BY OnList DEF ChannelInv
  <2>2. Len(list) \in Nat /\ DOMAIN list = 1..Len(list)
    BY <2>1
  <2>3. Taken(list) \in 0..Len(list)
    BY <2>1, TakenFacts
  <2> QED BY <2>1, <2>2, <2>3
<1> DEFINE T == {list[i] : i \in 1..Taken(list)}
<1>1. \A n : n \in T <=> Gone(list, n)
  <2>1. ASSUME NEW i \in 1..Taken(list) PROVE In(list, list[i])
    BY <1>0 DEF In
  <2>2. \A n : n \in T => \E i \in 1..Taken(list) : list[i] = n
    OBVIOUS
  <2>3. \A n : (\E i \in 1..Taken(list) : list[i] = n) => n \in T
    OBVIOUS
  <2> HIDE DEF T
  <2>4. /\ \A n : In(list, n) => \/ In(Rest(list), n)
                                \/ \E i \in 1..Taken(list) : list[i] = n
        /\ \A n : (\E i \in 1..Taken(list) : list[i] = n) => ~In(Rest(list), n)
    BY <1>0, RestFacts
  <2> QED BY <2>1, <2>2, <2>3, <2>4 DEF Gone
<1>2. state' = Mark(T, "delivered") /\ "delivered" \in DeliveryStates
  BY DEF Dequeue, DeliveryStates
<1> HIDE DEF T
<1>3. SomeLive(list) =>
        /\ Gone(list, list[FirstLive(list)]) /\ Live(list[FirstLive(list)])
        /\ list[FirstLive(list)] \in Nodes
  <2> SUFFICES ASSUME SomeLive(list)
               PROVE  /\ Gone(list, list[FirstLive(list)]) /\ Live(list[FirstLive(list)])
                      /\ list[FirstLive(list)] \in Nodes
    OBVIOUS
  <2>1. /\ FirstLive(list) \in DOMAIN list /\ FirstLive(list) = Taken(list)
        /\ Live(list[FirstLive(list)])
    BY <1>0, TakenFacts
  <2>2. FirstLive(list) \in 1..Taken(list) /\ list[FirstLive(list)] \in Nodes
    BY <1>0, <2>1
  <2>3. list[FirstLive(list)] \in T
    BY <2>2 DEF T
  <2> QED BY <1>1, <2>1, <2>2, <2>3
<1>4. ASSUME NEW g \in Fibers, NEW i
      PROVE  (\E n \in T : n.fiber = g /\ n.call = calls[g] /\ n.arm = i)
               <=> Gone(list, Node(g, i))
  <2>1. ASSUME NEW n \in T, n.fiber = g, n.arm = i PROVE Gone(list, Node(g, i))
    BY <1>1, <2>1, OnList DEF Gone
  <2>2. ASSUME Gone(list, Node(g, i))
        PROVE  \E n \in T : n.fiber = g /\ n.call = calls[g] /\ n.arm = i
    BY <1>1, <2>2, NodeFields
  <2> QED BY <2>1, <2>2
<1>5. ASSUME NEW g \in Fibers, ~Waits(g) PROVE state'[g] = state[g]
  <2>1. \A n \in T : n.fiber # g
    <3>1. \A n \in T : In(list, n)
      BY <1>1 DEF Gone
    <3>2. \A n \in T : Waits(n.fiber)
      BY <3>1, OnList DEF Waiter
    <3> QED BY <1>5, <3>2
  <2> QED BY <1>0, <1>2, <2>1, MarkFacts
<1>6. /\ state' \in [Fibers -> Seq(DeliveryStates)]
      /\ \A g \in Fibers :
           /\ DOMAIN state'[g] = DOMAIN state[g]
           /\ \A i \in DOMAIN state[g] :
                state'[g][i] =
                  IF \E n \in T : n.fiber = g /\ n.call = calls[g] /\ n.arm = i
                    THEN "delivered" ELSE state[g][i]
  BY <1>0, <1>2, MarkFacts
<1> QED BY <1>3, <1>4, <1>5, <1>6

LEMMA DequeueWakes ==
  ASSUME ChannelInv, NEW op, NEW c \in Channels, NEW list, ListOf(op, c, list),
         Dequeue(list)
  PROVE  /\ select' \in [Fibers -> {"none", "active", "done"}]
         /\ activated' \in [Fibers -> Nat] /\ wakes' \in [Fibers -> Nat]
         /\ \A g \in Fibers :
              \/ /\ SomeLive(list) /\ g = list[FirstLive(list)].fiber
                 /\ list[FirstLive(list)].arm \in DOMAIN Arms(g)
                 /\ Woken(g, list[FirstLive(list)].arm)
              \/ /\ ~(SomeLive(list) /\ g = list[FirstLive(list)].fiber)
                 /\ select'[g] = select[g] /\ activated'[g] = activated[g]
                 /\ wakes'[g] = wakes[g]
<1>0. TypeInv /\ LocalInv
  BY DEF ChannelInv
<1>1. CASE ~SomeLive(list)
  <2>1. UNCHANGED <<select, activated, wakes>>
    BY <1>1 DEF Dequeue
  <2> QED BY <1>0, <1>1, <2>1 DEF TypeInv, WaitingTypes
<1>2. CASE SomeLive(list)
  <2>1. PICK n \in Nodes : n = list[FirstLive(list)] /\ Gone(list, n) /\ Live(n)
    BY <1>2, DequeueFacts
  <2>2. PICK h \in Fibers : h = n.fiber
    BY <2>1 DEF Nodes
  <2>3. /\ Waiter(n, op, c) /\ n = Node(h, n.arm) /\ op \in {"send", "receive"}
        /\ n.arm \in Nat /\ n.context \in BOOLEAN
    BY <2>1, <2>2, OnList DEF Gone, Nodes
  <2>4. /\ Waits(h) /\ n.arm \in DOMAIN Arms(h) /\ Arms(h)[n.arm].op = op
        /\ n.context <=> call[h].form = "select"
        /\ ~n.context => wakes[h] = 0
    <3>1. /\ Waits(h) /\ n.arm \in DOMAIN Arms(h)
          /\ Arms(h)[n.arm] = [op |-> op, channel |-> c]
          /\ n.context = (call[h].form = "select")
          /\ ~n.context => wakes[h] = 0
      BY <2>2, <2>3 DEF Waiter, OfArm
    <3>2. n.context <=> call[h].form = "select"
      BY <3>1, Zenon
    <3>3. Arms(h)[n.arm].op = op
      BY <3>1
    <3> QED BY <3>1, <3>2, <3>3
  <2>5. state'[h][n.arm] = "delivered"
    <3>1. n.arm \in DOMAIN state[h]
      BY <1>0, <2>4 DEF LocalInv, LocalAt, CallAt, Waits
    <3>2. Gone(list, Node(h, n.arm))
      BY <2>1, <2>3
    <3> QED BY <3>1, <3>2, DequeueFacts
  <2>6. Trigger(n) /\ wakes' = [wakes EXCEPT ![h] = wakes[h] + 1]
    BY <1>2, <2>1, <2>2 DEF Dequeue
  <2>7. wakes[h] + 1 \in Nat
    BY <1>0 DEF TypeInv, WaitingTypes
  <2>8. /\ wakes' \in [Fibers -> Nat] /\ wakes'[h] = wakes[h] + 1
        /\ \A g \in Fibers : g # h => wakes'[g] = wakes[g]
    BY <1>0, <2>6, <2>7 DEF TypeInv, WaitingTypes
  <2>9. CASE n.context
    <3>1. /\ select' = [select EXCEPT ![h] = "done"]
          /\ activated' = [activated EXCEPT ![h] = n.arm]
      BY <2>2, <2>6, <2>9 DEF Trigger
    <3>2. /\ select' \in [Fibers -> {"none", "active", "done"}] /\ select'[h] = "done"
          /\ activated' \in [Fibers -> Nat] /\ activated'[h] = n.arm
          /\ \A g \in Fibers : g # h =>
               select'[g] = select[g] /\ activated'[g] = activated[g]
      BY <1>0, <2>3, <3>1 DEF TypeInv, WaitingTypes
    <3>3. select[h] = "active"
      BY <2>1, <2>2, <2>9 DEF Live
    <3>4. Woken(h, n.arm)
      BY <2>3, <2>4, <2>5, <2>8, <2>9, <3>2, <3>3 DEF Woken
    <3> QED BY <1>2, <2>1, <2>2, <2>4, <2>8, <3>2, <3>4
  <2>10. CASE ~n.context
    <3>1. UNCHANGED <<select, activated>>
      BY <2>6, <2>10 DEF Trigger
    <3>2. Woken(h, n.arm)
      BY <2>3, <2>4, <2>5, <2>8, <2>10, <3>1 DEF Woken
    <3> QED BY <1>0, <1>2, <2>1, <2>2, <2>4, <2>8, <3>1, <3>2 DEF TypeInv, WaitingTypes
  <2> QED BY <2>9, <2>10
<1> QED BY <1>1, <1>2

(* A running call takes nodes off a list, delivers and wakes. *)
Takes(f, op, c, list) ==
  /\ pc[f] = "run" /\ pc'[f] \in {"run", "return"} /\ lock[c] = f
  /\ ListOf(op, c, list) /\ Dequeue(list)
  /\ \/ /\ op = "send" /\ senders' = [senders EXCEPT ![c] = Rest(list)]
        /\ UNCHANGED receivers
     \/ /\ op = "receive" /\ receivers' = [receivers EXCEPT ![c] = Rest(list)]
        /\ UNCHANGED senders
  /\ \A d \in Channels : d # c => queue'[d] = queue[d]
  /\ closed[c] /\ queue[c] = <<>> => queue'[c] = <<>>
  /\ UNCHANGED <<closed, lock, call, calls, timer, detached>>
  /\ \A g \in Fibers : g # f =>
       /\ pc'[g] = pc[g] /\ arm'[g] = arm[g] /\ outcome'[g] = outcome[g]
       /\ \/ data'[g] = data[g]
          \/ SomeLive(list) /\ g = list[FirstLive(list)].fiber

LEMMA TakesLists ==
  ASSUME ChannelInv, NEW f \in Fibers, NEW op, NEW c \in Channels, NEW list,
         Takes(f, op, c, list)
  PROVE  /\ senders' \in [Channels -> Seq(Nodes)]
         /\ receivers' \in [Channels -> Seq(Nodes)]
         /\ Shrinks(senders) /\ Shrinks(receivers)
         /\ \A d \in Channels : Distinct(senders'[d]) /\ Distinct(receivers'[d])
         /\ \A d \in Channels : \A n : In(senders'[d], n) <=>
              In(senders[d], n) /\ ~(op = "send" /\ d = c /\ Gone(list, n))
         /\ \A d \in Channels : \A n : In(receivers'[d], n) <=>
              In(receivers[d], n) /\ ~(op = "receive" /\ d = c /\ Gone(list, n))
         /\ \A d \in Channels : closed[d] => senders'[d] = <<>> /\ receivers'[d] = <<>>
<1>0. TypeInv /\ ListInv /\ ListOf(op, c, list)
  BY DEF ChannelInv, Takes
<1>1. list \in Seq(Nodes) /\ Distinct(list)
  BY <1>0, OnList
<1>2. /\ Rest(list) \in Seq(Nodes) /\ Distinct(Rest(list))
      /\ \A n : In(Rest(list), n) <=> In(list, n) /\ ~Gone(list, n)
      /\ list = <<>> => Rest(list) = <<>>
  <2>1. /\ Rest(list) \in Seq(Nodes) /\ Distinct(Rest(list))
        /\ \A n : In(Rest(list), n) => In(list, n)
    BY <1>1, RestFacts
  <2>2. list = <<>> => Rest(list) = <<>>
    <3>1. list = <<>> => ~SomeLive(list)
      BY DEF SomeLive
    <3> QED BY <1>1, <3>1, RestFacts
  <2> QED BY <2>1, <2>2 DEF Gone
<1>3. \A d \in Channels :
        /\ senders[d] \in Seq(Nodes) /\ receivers[d] \in Seq(Nodes)
        /\ Distinct(senders[d]) /\ Distinct(receivers[d])
        /\ closed[d] => senders[d] = <<>> /\ receivers[d] = <<>>
  BY <1>0, ListTypesFacts DEF ListInv
<1>4. CASE op = "send"
  <2>1. /\ list = senders[c] /\ receivers' = receivers
        /\ senders' \in [Channels -> Seq(Nodes)]
        /\ \A d \in Channels : senders'[d] = IF d = c THEN Rest(list) ELSE senders[d]
    BY <1>0, <1>2, <1>4 DEF Takes, ListOf, TypeInv, ListTypes
  <2>2. \A d \in Channels : \A n : In(senders'[d], n) <=>
          In(senders[d], n) /\ ~(d = c /\ Gone(list, n))
    BY <1>2, <2>1
  <2>3. receivers' \in [Channels -> Seq(Nodes)]
    BY <1>0, <2>1 DEF TypeInv, ListTypes
  <2>4. \A d \in Channels : closed[d] => senders'[d] = <<>> /\ receivers'[d] = <<>>
    BY <1>2, <1>3, <2>1
  <2>5. \A d \in Channels : Distinct(senders'[d]) /\ Distinct(receivers'[d])
    BY <1>2, <1>3, <2>1
  <2> QED BY <1>4, <2>1, <2>2, <2>3, <2>4, <2>5 DEF Shrinks
<1>5. CASE op = "receive"
  <2>1. /\ list = receivers[c] /\ senders' = senders
        /\ receivers' \in [Channels -> Seq(Nodes)]
        /\ \A d \in Channels : receivers'[d] = IF d = c THEN Rest(list) ELSE receivers[d]
    BY <1>0, <1>2, <1>5 DEF Takes, ListOf, TypeInv, ListTypes
  <2>2. \A d \in Channels : \A n : In(receivers'[d], n) <=>
          In(receivers[d], n) /\ ~(d = c /\ Gone(list, n))
    BY <1>2, <2>1
  <2>3. senders' \in [Channels -> Seq(Nodes)]
    BY <1>0, <2>1 DEF TypeInv, ListTypes
  <2>4. \A d \in Channels : closed[d] => senders'[d] = <<>> /\ receivers'[d] = <<>>
    BY <1>2, <1>3, <2>1
  <2>5. \A d \in Channels : Distinct(senders'[d]) /\ Distinct(receivers'[d])
    BY <1>2, <1>3, <2>1
  <2> QED BY <1>5, <2>1, <2>2, <2>3, <2>4, <2>5 DEF Shrinks
<1> QED BY <1>0, <1>4, <1>5 DEF ListOf

LEMMA TakesMembers ==
  ASSUME ChannelInv, NEW f \in Fibers, NEW op, NEW c \in Channels, NEW list,
         Takes(f, op, c, list), NEW d \in Channels, NEW n
  PROVE  /\ In(senders'[d], n) <=>
              In(senders[d], n) /\ ~(op = "send" /\ d = c /\ Gone(list, n))
         /\ In(receivers'[d], n) <=>
              In(receivers[d], n) /\ ~(op = "receive" /\ d = c /\ Gone(list, n))
<1>1. /\ \A e \in Channels : \A m : In(senders'[e], m) <=>
           In(senders[e], m) /\ ~(op = "send" /\ e = c /\ Gone(list, m))
      /\ \A e \in Channels : \A m : In(receivers'[e], m) <=>
           In(receivers[e], m) /\ ~(op = "receive" /\ e = c /\ Gone(list, m))
  BY TakesLists
<1> QED BY <1>1

LEMMA TakesRevivesNone ==
  ASSUME ChannelInv, NEW f \in Fibers, NEW op, NEW c \in Channels, NEW list,
         Takes(f, op, c, list)
  PROVE  NoneRevived
<1>1. \A g \in Fibers : select'[g] = "active" => select[g] = "active"
  BY DequeueWakes DEF Takes, Woken
<1> SUFFICES ASSUME NEW n \in Nodes, n.context, n.call = calls'[n.fiber],
                    select'[n.fiber] = "active"
             PROVE  n.call = calls[n.fiber] /\ select[n.fiber] = "active"
  BY DEF NoneRevived, Live
<1> QED BY <1>1 DEF Nodes, Takes

(* The woken fiber waited with one node only, or is a select's. *)
LEMMA WokenNode ==
  ASSUME ChannelInv, NEW f \in Fibers, NEW op, NEW c \in Channels, NEW list,
         Takes(f, op, c, list), NEW g \in Fibers, Waits(g),
         call[g].form # "select", wakes'[g] # wakes[g], NEW i \in DOMAIN Arms(g)
  PROVE  Gone(list, Node(g, i)) /\ Arms(g)[i] = [op |-> op, channel |-> c] /\ ~closed[c]
<1>0. ListOf(op, c, list) /\ Dequeue(list)
  BY DEF Takes
<1>1. /\ SomeLive(list) /\ g = list[FirstLive(list)].fiber
      /\ list[FirstLive(list)].arm \in DOMAIN Arms(g)
  BY <1>0, DequeueWakes
<1>2. PICK w \in Nodes : w = list[FirstLive(list)] /\ Gone(list, w)
  BY <1>0, <1>1, DequeueFacts
<1>3. Waiter(w, op, c) /\ w = Node(g, w.arm) /\ ~closed[c]
  <2>1. In(list, w) /\ w.fiber = g
    BY <1>1, <1>2 DEF Gone
  <2> QED BY <1>0, <2>1, OnList
<1>4. TypeInv /\ call[g] # None /\ call[g].form = "plain"
  BY RunFacts, WaitFacts DEF Waits
<1>5. DOMAIN Arms(g) = {1}
  BY <1>4, ArmFacts
<1>6. w.arm = i
  BY <1>1, <1>2, <1>5
<1> QED BY <1>1, <1>2, <1>3, <1>6 DEF Waiter, OfArm

LEMMA TakesStep ==
  ASSUME ChannelInv, NEW f \in Fibers, NEW op, NEW c \in Channels, NEW list,
         Takes(f, op, c, list), TypeInv', LocalAt(f)', TriedOf(f)', MeetInv'
  PROVE  ChannelInv'
<1>0. /\ TypeInv /\ LocalInv /\ ListInv /\ ListedInv /\ DetachedInv
      /\ LockInv /\ TriedInv /\ ListOf(op, c, list) /\ Dequeue(list)
      /\ UNCHANGED <<closed, lock, call, calls, timer, detached>>
  BY DEF ChannelInv, Takes
<1>1. \A g \in Fibers : g # f => Still(g)
  BY DEF Takes, Still
<1>2. /\ \A g \in Fibers :
           /\ DOMAIN state'[g] = DOMAIN state[g]
           /\ ~Waits(g) => state'[g] = state[g]
           /\ \A i \in DOMAIN state[g] :
                state'[g][i] = IF Gone(list, Node(g, i)) THEN "delivered"
                               ELSE state[g][i]
      /\ NoneRevived
  BY <1>0, DequeueFacts, TakesRevivesNone
<1>3. ASSUME NEW g \in Fibers, g # f PROVE LocalAt(g)'
  <2>1. Unwoken(g) \/ \E i \in DOMAIN Arms(g) : Woken(g, i)
    BY <1>0, <1>3, DequeueWakes DEF Takes, Unwoken
  <2>2. pc[g] \notin {"return", "parked", "unwait"} => state'[g] = state[g]
    BY <1>2 DEF Waits
  <2>3. \A i \in DOMAIN state[g] : state[g][i] # "none" => state'[g][i] # "none"
    BY <1>2
  <2> QED BY <1>0, <1>1, <1>2, <1>3, <2>1, <2>2, <2>3, DeliveredLocal DEF LocalInv
<1>4. ASSUME NEW d \in Channels, NEW n \in Nodes, NEW p,
             \/ p = "send" /\ In(senders'[d], n)
             \/ p = "receive" /\ In(receivers'[d], n)
      PROVE  Waiter(n, p, d)'
  <2>1. /\ Waiter(n, p, d) /\ n = Node(n.fiber, n.arm) /\ n.fiber \in Fibers
        /\ ~(p = op /\ d = c /\ Gone(list, n))
    <3>1. CASE p = "send"
      <4>1. In(senders[d], n) /\ ~(p = op /\ d = c /\ Gone(list, n))
        BY <1>4, <3>1, TakesMembers
      <4>2. ListOf(p, d, senders[d])
        BY <3>1 DEF ListOf
      <4> QED BY <4>1, <4>2, OnList
    <3>2. CASE p = "receive"
      <4>1. In(receivers[d], n) /\ ~(p = op /\ d = c /\ Gone(list, n))
        BY <1>4, <3>2, TakesMembers
      <4>2. ListOf(p, d, receivers[d])
        BY <3>2 DEF ListOf
      <4> QED BY <4>1, <4>2, OnList
    <3> QED BY <1>4, <3>1, <3>2
  <2>2. PICK g \in Fibers : g = n.fiber
    BY <2>1
  <2>3. /\ Waits(g) /\ g # f /\ n.arm \in DOMAIN Arms(g) /\ n.arm \in DOMAIN state[g]
        /\ Arms(g)[n.arm] = [op |-> p, channel |-> d]
        /\ state[g][n.arm] = "none" /\ n.context = (call[g].form = "select")
        /\ ~n.context => wakes[g] = 0
    BY <1>0, <2>1, <2>2 DEF Waiter, OfArm, LocalInv, LocalAt, CallAt, Takes, Waits
  <2>4. ~Gone(list, n)
    <3> SUFFICES ASSUME Gone(list, n) PROVE FALSE
      OBVIOUS
    <3>1. Arms(g)[n.arm] = [op |-> op, channel |-> c]
      BY <1>0, <2>2, OnList DEF Gone, Waiter, OfArm
    <3> QED BY <2>1, <2>3, <3>1
  <2>5. state'[g][n.arm] = "none"
    BY <1>2, <2>1, <2>2, <2>3, <2>4
  <2>6. ~n.context => wakes'[g] = 0
    <3> SUFFICES ASSUME ~n.context, wakes'[g] # wakes[g] PROVE FALSE
      BY <2>3
    <3>1. call[g].form # "select"
      BY <2>3
    <3>2. Gone(list, Node(g, n.arm))
      BY <2>3, <3>1, WokenNode
    <3> QED BY <2>1, <2>2, <2>4, <3>2
  <2>7. Still(g)
    BY <1>1, <2>3
  <2>8. Waits(g)' /\ calls'[g] = calls[g] /\ OfArm(n, p, d)'
    BY <2>1, <2>2, <2>7 DEF Still, Waits, OfArm, Arms, Waiter
  <2> QED BY <2>1, <2>2, <2>5, <2>6, <2>7, <2>8 DEF Waiter, Still
<1>5. ListInv'
  BY <1>0, <1>4, TakesLists DEF ListInv, In, Distinct
<1>6. ListedInv'
  <2> SUFFICES ASSUME NEW g \in Fibers, Waits(g)' PROVE ListedAt(g)'
    BY DEF ListedInv
  <2>1. g # f
    BY DEF Takes, Waits
  <2>2. Still(g) /\ Waits(g) /\ ListedAt(g)
    BY <1>0, <1>1, <2>1 DEF Still, Waits, ListedInv
  <2>3. /\ Arms(g)' = Arms(g) /\ (\A i : Node(g, i)' = Node(g, i)) /\ call[g] # None
        /\ DOMAIN state[g] = DOMAIN Arms(g)
    BY <1>0, <2>2 DEF Arms, Node, Still, Waits, LocalInv, LocalAt, CallAt
  <2> SUFFICES ASSUME NEW i \in DOMAIN Arms(g), state'[g][i] = "none",
                      pc[g] = "unwait" => arm[g] <= i,
                      NEW d, d = Arms(g)[i].channel, ~closed[d]
               PROVE  /\ Arms(g)[i].op = "send" => In(senders'[d], Node(g, i))
                      /\ Arms(g)[i].op = "receive" => In(receivers'[d], Node(g, i))
    BY <1>0, <2>2, <2>3 DEF ListedAt, In, Still
  <2>4. state[g][i] = "none" /\ ~Gone(list, Node(g, i))
    BY <1>2, <2>3
  <2>5. /\ Arms(g)[i].op = "send" => In(senders[d], Node(g, i))
        /\ Arms(g)[i].op = "receive" => In(receivers[d], Node(g, i))
    BY <2>2, <2>4 DEF ListedAt
  <2>6. Arms(g)[i].op \in {"send", "receive"} => d \in Channels
    BY <1>0, <2>3, AnArm
  <2> QED BY <2>4, <2>5, <2>6, TakesMembers
<1>7. ASSUME NEW h \in Fibers, NEW k \in DOMAIN detached[h]
      PROVE  DetachedAt(h, k)'
  <2>1. PICK n \in Nodes : n = detached[h][k]
    BY <1>0, DetachedType
  <2>2. PICK g \in Fibers : g = n.fiber
    BY <2>1 DEF Nodes
  <2>3. h # f /\ detached'[h][k] = n /\ Chan(h)' = Chan(h) /\ pc'[h] = pc[h]
    <3>1. detached[f] = <<>>
      BY <1>0 DEF LocalInv, LocalAt, CallAt, Takes, Closes
    <3>2. h # f
      BY <3>1
    <3> QED BY <1>0, <1>1, <2>1, <3>2 DEF Still, Chan, Arms
  <2>30. /\ Closes(h) /\ closed[Chan(h)] /\ pc[h] # "idle"
         /\ call[h].form = "close" /\ arm[h] = 1
    <3>1. Closes(h)
      BY <1>0 DEF LocalInv, LocalAt, CallAt
    <3> QED BY <1>0, <3>1 DEF LocalInv, LocalAt, CloseAt, Closes
  <2>4. /\ n.call <= calls[g]
        /\ n.call = calls[g] => pc[g] \in {"idle", "return", "parked", "unwait"}
        /\ n.call = calls[g] /\ Waits(g) =>
             /\ \/ OfArm(n, "send", Chan(h))
                \/ OfArm(n, "receive", Chan(h)) /\ (Live(n) => queue[Chan(h)] = <<>>)
             /\ state[g][n.arm] = IF k = 1 /\ pc[h] = "close wake" THEN "closed"
                                  ELSE "none"
        /\ ~n.context => n.call = calls[g] /\ pc[g] = "parked" /\ wakes[g] = 0
    BY <1>0, <2>1, <2>2 DEF DetachedInv, DetachedAt
  <2>5. CASE g = f
    <3>1. pc[f] = "run" /\ pc'[f] \in {"run", "return"} /\ calls' = calls
      BY DEF Takes
    <3>2. n.call <= calls'[f] /\ n.call # calls'[f] /\ n.context
      BY <2>4, <2>5, <3>1
    <3> QED BY <2>2, <2>3, <2>5, <3>2 DEF DetachedAt
  <2>6. CASE g # f
    <3>1. Still(g) /\ Waits(g)' = Waits(g) /\ \A p, d : OfArm(n, p, d)' = OfArm(n, p, d)
      BY <1>1, <2>2, <2>6 DEF Still, Waits, OfArm, Arms
    <3>2. ASSUME n.call = calls[g], Waits(g)
          PROVE  /\ state'[g][n.arm] = state[g][n.arm]
                 /\ ~n.context => wakes'[g] = wakes[g]
      <4>1. /\ n.arm \in DOMAIN Arms(g) /\ Arms(g)[n.arm].channel = Chan(h)
            /\ n.context = (call[g].form = "select")
        <5>1. PICK p : OfArm(n, p, Chan(h))
          BY <2>4, <3>2
        <5> QED BY <2>2, <5>1 DEF OfArm
      <4>2. n.arm \in DOMAIN state[g]
        BY <1>0, <3>2, <4>1 DEF LocalInv, LocalAt, CallAt, Waits
      <4>3. ~Gone(list, Node(g, n.arm))
        <5> SUFFICES ASSUME Gone(list, Node(g, n.arm)) PROVE FALSE
          OBVIOUS
        <5>1. Waiter(Node(g, n.arm), op, c) /\ ~closed[c]
          BY <1>0, OnList DEF Gone
        <5>2. Arms(g)[n.arm].channel = c
          BY <5>1, NodeFields DEF Waiter, OfArm
        <5> QED BY <2>30, <4>1, <5>1, <5>2
      <4>4. ~n.context => wakes'[g] = wakes[g]
        <5> SUFFICES ASSUME ~n.context, wakes'[g] # wakes[g] PROVE FALSE
          OBVIOUS
        <5>1. call[g].form # "select"
          BY <4>1
        <5> QED BY <3>2, <4>1, <4>3, <5>1, WokenNode
      <4> QED BY <1>2, <4>2, <4>3, <4>4
    <3>3. queue[Chan(h)] = <<>> => queue'[Chan(h)] = <<>>
      <4>1. Chan(h) \in Channels
        <5>1. 1 \in DOMAIN Arms(h) /\ Arms(h)[1].op = "close" /\ call[h] # None
          BY <1>0, <2>30, RunFacts, ArmFacts
        <5> QED BY <1>0, <2>30, <5>1, AnArm DEF Chan
      <4> QED BY <2>30, <4>1 DEF Takes
    <3>4. Live(n)' => Live(n)
      BY <1>2 DEF NoneRevived
    <3>5. ~n.context => n.call = calls[g] /\ Waits(g)
      BY <2>4 DEF Waits
    <3>6. /\ calls'[g] = calls[g] /\ pc'[g] = pc[g]
          /\ ~n.context => wakes'[g] = 0
      BY <2>4, <3>1, <3>2, <3>5 DEF Still
    <3>7. n.call = calls[g] /\ Waits(g) =>
            /\ \/ OfArm(n, "send", Chan(h))
               \/ OfArm(n, "receive", Chan(h)) /\ (Live(n)' => queue'[Chan(h)] = <<>>)
            /\ state'[g][n.arm] = IF k = 1 /\ pc[h] = "close wake" THEN "closed"
                                  ELSE "none"
      BY <2>4, <3>2, <3>3, <3>4
    <3> QED BY <2>2, <2>3, <2>4, <3>1, <3>6, <3>7 DEF DetachedAt
  <2> QED BY <2>5, <2>6
<1>8. DetachedInv'
  <2>1. ASSUME NEW h \in Fibers, NEW g \in Fibers, Closes(h)', Closes(g)',
               Chan(h)' = Chan(g)'
        PROVE  h = g
    <3>1. h # f /\ g # f
      BY <2>1 DEF Takes, Closes
    <3>2. Closes(h) /\ Closes(g) /\ Chan(h) = Chan(g)
      BY <1>1, <2>1, <3>1 DEF Still, Closes, Chan, Arms
    <3> QED BY <1>0, <3>2 DEF DetachedInv
  <2> QED BY <1>0, <1>7, <2>1 DEF DetachedInv, Distinct
<1>9. LockInv'
  <2>1. Bystanders(f)
    BY <1>1 DEF Bystanders, Still
  <2>2. KeepsLock(f)
    BY <1>0 DEF KeepsLock, LockInv, Takes, ChannelsOf, Arms
  <2> QED BY <1>0, <2>1, <2>2, LockFrame
<1>10. TriedInv'
  <2> SUFFICES ASSUME NEW g \in Fibers, g # f PROVE TriedOf(g)'
    BY DEF TriedInv
  <2>1. KeepsTried(g)
    BY <1>0, <1>2, TakesLists, KeepsTriedFacts DEF Takes
  <2> QED BY <1>0, <1>1, <2>1, TriedFrame DEF Still, TriedInv
<1> QED BY <1>3, <1>5, <1>6, <1>8, <1>9, <1>10 DEF ChannelInv, LocalInv

-----------------------------------------------------------------------------
(* send_internal and receive_internal *)

(* The call goes on to its next arm, and has tried one more in vain. *)
LEMMA TriedNext ==
  ASSUME ChannelInv, NEW f \in Fibers, pc[f] = "run", Locked(f),
         arm[f] <= Len(Arms(f)), KeepsTried(f),
         NEW k, k = arm[f], TriedAt(f, k)',
         call'[f] = call[f], arm'[f] = arm[f] + 1, lock' = lock
  PROVE  TriedOf(f)'
<1>1. /\ TypeInv /\ TriedOf(f) /\ call[f] # None /\ arm[f] \in Nat /\ arm[f] > 0
      /\ Len(Arms(f)) \in Nat /\ DOMAIN Arms(f) = 1..Len(Arms(f))
  BY RunFacts
<1>2. Arms(f)' = Arms(f) /\ ChannelsOf(f)' = ChannelsOf(f)
  BY DEF Arms, ChannelsOf
<1>3. Locked(f)'
  BY <1>2 DEF Locked
<1>4. ASSUME NEW i \in DOMAIN Arms(f), i < arm[f] PROVE TriedAt(f, i)'
  <2>1. TriedAt(f, i)
    BY <1>1, <1>4 DEF TriedOf
  <2> QED BY <1>1, <2>1, TriedAtFrame
<1>5. ASSUME NEW i \in DOMAIN Arms(f), i < arm[f] + 1 PROVE TriedAt(f, i)'
  <2>1. i < arm[f] \/ i = arm[f]
    BY <1>1, <1>5
  <2> QED BY <1>4, <2>1
<1>6. arm[f] + 1 <= Len(Arms(f)) + 1
  BY <1>1
<1> QED BY <1>2, <1>3, <1>5, <1>6 DEF TriedOf

LEMMA MeetStep ==
  ASSUME TypeInv, TypeInv', MeetInv, NoneRevived, Shrinks(senders),
         Shrinks(receivers), NEW c \in Channels,
         \A d \in Channels : d # c => queue'[d] = queue[d],
         Len(queue'[c]) <= Capacity[c], ~SomeLive(receivers[c]),
         SomeLive(senders[c])' => Len(queue'[c]) = Capacity[c]
  PROVE  MeetInv'
<1> SUFFICES ASSUME NEW d \in Channels
             PROVE  /\ Len(queue'[d]) <= Capacity[d]
                    /\ SomeLive(receivers[d])' => queue'[d] = <<>>
                    /\ SomeLive(senders[d])' => Len(queue'[d]) = Capacity[d]
                    /\ \A s, r \in Nodes : /\ In(senders'[d], s) /\ Live(s)'
                                           /\ In(receivers'[d], r) /\ Live(r)'
                                           => s.fiber = r.fiber
  BY DEF MeetInv, In
<1>1. SomeLive(receivers[d])' => SomeLive(receivers[d])
  BY SomeLiveNow, SomeLiveNext DEF NoneRevived, Shrinks
<1>2. SomeLive(senders[d])' => SomeLive(senders[d])
  BY SomeLiveNow, SomeLiveNext DEF NoneRevived, Shrinks
<1>3. \A s, r \in Nodes : /\ In(senders'[d], s) /\ Live(s)'
                          /\ In(receivers'[d], r) /\ Live(r)'
                          => s.fiber = r.fiber
  BY DEF MeetInv, NoneRevived, Shrinks
<1>4. CASE d = c
  BY <1>1, <1>3, <1>4 DEF MeetInv
<1>5. CASE d # c
  BY <1>1, <1>2, <1>3, <1>5 DEF MeetInv
<1> QED BY <1>4, <1>5

(* The taker is not among those that wait. *)
LEMMA TakerStays ==
  ASSUME ChannelInv, NEW f \in Fibers, NEW op, NEW c \in Channels, NEW list,
         ListOf(op, c, list), Dequeue(list), pc[f] = "run"
  PROVE  /\ state'[f] = state[f] /\ select'[f] = select[f]
         /\ activated'[f] = activated[f] /\ wakes'[f] = wakes[f]
         /\ SomeLive(list) => list[FirstLive(list)].fiber \in Fibers \ {f}
<1>1. ~Waits(f)
  BY DEF Waits
<1>2. state'[f] = state[f]
  BY <1>1, DequeueFacts
<1>3. select'[f] = select[f] /\ activated'[f] = activated[f] /\ wakes'[f] = wakes[f]
  BY <1>1, DequeueWakes DEF Woken
<1>4. SomeLive(list) => list[FirstLive(list)].fiber \in Fibers \ {f}
  <2> SUFFICES ASSUME SomeLive(list) PROVE list[FirstLive(list)].fiber \in Fibers \ {f}
    OBVIOUS
  <2>1. PICK n \in Nodes : n = list[FirstLive(list)] /\ Gone(list, n)
    BY DequeueFacts
  <2>2. n.fiber \in Fibers /\ Waits(n.fiber)
    BY <2>1, OnList DEF Gone, Waiter
  <2> QED BY <1>1, <2>1, <2>2
<1> QED BY <1>2, <1>3, <1>4

(* What the two have in common: the arm has its outcome, or is tried in    *)
(* vain.                                                                   *)
LEMMA TakerStep ==
  ASSUME ChannelInv, NEW f \in Fibers, NEW op, NEW c \in Channels, NEW list,
         Takes(f, op, c, list), Locked(f), arm[f] <= Len(Arms(f)),
         queue' \in [Channels -> Seq(Ids)], data' \in [Fibers -> Ids \cup {None}],
         \/ \E s \in {"delivered", "closed"} : Finish(f, s)
         \/ /\ NextArm(f) /\ UNCHANGED <<queue, data>>
            /\ Arms(f)[arm[f]].channel = c /\ ~closed[c] /\ ~SomeLive(list)
            /\ \/ /\ Arms(f)[arm[f]].op = "send" /\ op = "receive"
                  /\ Len(queue[c]) >= Capacity[c]
               \/ /\ Arms(f)[arm[f]].op = "receive" /\ op = "send"
                  /\ queue[c] = <<>>,
         \/ UNCHANGED queue
         \/ /\ Len(queue'[c]) <= Capacity[c] /\ ~SomeLive(receivers[c])
            /\ SomeLive(senders[c])' => Len(queue'[c]) = Capacity[c]
  PROVE  ChannelInv'
<1>0. /\ TypeInv /\ MeetInv /\ LocalAt(f) /\ CallAt(f) /\ pc[f] = "run"
      /\ call[f] # None /\ arm[f] \in Nat /\ arm[f] > 0
      /\ Len(Arms(f)) \in Nat /\ DOMAIN Arms(f) = 1..Len(Arms(f))
      /\ DOMAIN state[f] = DOMAIN Arms(f)
      /\ ListOf(op, c, list) /\ Dequeue(list)
      /\ UNCHANGED <<closed, lock, call, calls, timer, detached>>
  BY RunFacts DEF Takes
<1>1. /\ state'[f] = state[f] /\ select'[f] = select[f]
      /\ activated'[f] = activated[f] /\ wakes'[f] = wakes[f]
  BY <1>0, TakerStays
<1>2. TypeInv'
  <2>1. ListTypes'
    BY <1>0, TakesLists DEF TypeInv, ListTypes
  <2>2. CallTypes'
    <3>1. CASE NextArm(f)
      BY <1>0, <3>1 DEF NextArm, TypeInv, CallTypes
    <3>2. ASSUME NEW s \in {"delivered", "closed"}, Finish(f, s) PROVE CallTypes'
      <4>1. "return" \in Steps /\ [arm |-> arm[f], state |-> s] \in Outcomes
        BY <1>0 DEF Steps, Outcomes, DeliveryStates
      <4> QED BY <1>0, <3>2, <4>1 DEF Finish, Goto, TypeInv, CallTypes
    <3> QED BY <3>1, <3>2
  <2>3. WaitingTypes'
    BY <1>0, DequeueFacts, DequeueWakes DEF WaitingTypes
  <2> QED BY <2>1, <2>2, <2>3 DEF TypeInv
<1>3. NoneRevived /\ Shrinks(senders) /\ Shrinks(receivers)
  BY TakesRevivesNone, TakesLists
<1>4. MeetInv'
  <2>1. CASE UNCHANGED queue
    BY <1>0, <1>2, <1>3, <2>1, MeetFrame
  <2>2. CASE queue' # queue
    BY <1>0, <1>2, <1>3, <2>2, MeetStep DEF Takes
  <2> QED BY <2>1, <2>2
<1>5. CASE \E s \in {"delivered", "closed"} : Finish(f, s)
  <2>1. PICK s \in {"delivered", "closed"} : Finish(f, s)
    BY <1>5
  <2>2. pc'[f] = "return" /\ outcome'[f].state = s /\ arm'[f] = arm[f]
    BY <1>0, <2>1 DEF Finish, Goto, TypeInv, CallTypes
  <2>3. CallAt(f)'
    <3>1. Arms(f)' = Arms(f)
      BY <1>0 DEF Arms
    <3> QED BY <1>0, <1>1, <2>2, <3>1 DEF CallAt, Waits, Closes
  <2>4. LocalAt(f)' /\ TriedOf(f)'
    BY <2>2, <2>3 DEF LocalAt, CloseAt, PlainAt, SelectAt, Waits, Closes, TriedOf
  <2> QED BY <1>2, <1>4, <2>4, TakesStep
<1>6. CASE NextArm(f) /\ ~(\E s \in {"delivered", "closed"} : Finish(f, s))
  <2>1. /\ pc'[f] = "run" /\ arm'[f] = arm[f] + 1 /\ data'[f] = data[f]
        /\ outcome'[f] = outcome[f] /\ UNCHANGED queue
    BY <1>0, <1>6 DEF NextArm, TypeInv, CallTypes
  <2>2. Arms(f)' = Arms(f)
    BY <1>0 DEF Arms
  <2>3. CallAt(f)'
    <3>1. arm'[f] > 0 /\ DOMAIN state'[f] = DOMAIN Arms(f)'
      BY <1>0, <1>1, <2>1, <2>2
    <3>2. CallAt(f)
      BY <1>0
    <3> QED BY <1>0, <1>1, <2>1, <3>1, <3>2 DEF CallAt, Waits, Closes
  <2>4. LocalAt(f)'
    BY <2>1, <2>3 DEF LocalAt, CloseAt, PlainAt, SelectAt, Waits, Closes
  <2>5. KeepsTried(f)
    BY <1>0, <1>2, <1>3, <2>1, KeepsTriedFacts
  <2>6. PICK k : k = arm[f]
    OBVIOUS
  <2>7. TriedAt(f, k)'
    <3>1. list \in Seq(Nodes) /\ Distinct(list) /\ ~SomeLive(list)
      BY <1>0, <1>6, OnList
    <3>2. Rest(list) = <<>>
      BY <3>1, RestFacts
    <3>3. Arms(f)[k].op = "send" => receivers'[c] = <<>>
      BY <1>0, <1>6, <2>6, <3>2 DEF Takes, TypeInv, ListTypes
    <3>4. Arms(f)[k].op = "receive" => senders'[c] = <<>>
      BY <1>0, <1>6, <2>6, <3>2 DEF Takes, TypeInv, ListTypes
    <3>5. /\ receivers'[c] = <<>> => ~SomeLive(receivers[c])'
          /\ senders'[c] = <<>> => ~SomeLive(senders[c])'
      BY DEF SomeLive
    <3>6. /\ Arms(f)[k].channel = c /\ ~closed'[c]
          /\ \/ /\ Arms(f)[k].op = "send" /\ ~SomeLive(receivers[c])'
                /\ Len(queue'[c]) >= Capacity[c]
             \/ /\ Arms(f)[k].op = "receive" /\ ~SomeLive(senders[c])'
                /\ queue'[c] = <<>>
      BY <1>0, <1>6, <2>1, <2>6, <3>3, <3>4, <3>5
    <3>7. /\ SomeLive(receivers[Arms(f)[k].channel])' <=> SomeLive(receivers[c])'
          /\ SomeLive(senders[Arms(f)[k].channel])' <=> SomeLive(senders[c])'
      BY <2>2, <3>6 DEF SomeLive, Live
    <3> QED BY <2>2, <3>6, <3>7 DEF TriedAt
  <2>8. TriedOf(f)'
    BY <1>0, <2>1, <2>5, <2>6, <2>7, TriedNext
  <2> QED BY <1>2, <1>4, <2>4, <2>8, TakesStep
<1> QED BY <1>5, <1>6

(* The call holds the lock of the channel it executes on. *)
LEMMA ExecutingFacts ==
  ASSUME ChannelInv, NEW f \in Fibers, NEW op \in {"send", "receive", "close"},
         Executing(f, op), NEW c, c = Chan(f)
  PROVE  /\ TypeInv /\ MeetInv /\ pc[f] = "run" /\ Locked(f) /\ lock[c] = f
         /\ arm[f] <= Len(Arms(f)) /\ arm[f] \in DOMAIN Arms(f)
         /\ c \in Channels /\ c \in ChannelsOf(f)
         /\ Arms(f)[arm[f]] = [op |-> op, channel |-> c]
         /\ call[f] # None /\ detached[f] = <<>>
         /\ Id(f) \in Ids
<1>1. /\ TypeInv /\ MeetInv /\ pc[f] = "run" /\ Locked(f) /\ CallAt(f)
      /\ arm[f] <= Len(Arms(f)) /\ arm[f] \in DOMAIN Arms(f)
      /\ call[f] # None /\ calls[f] \in Nat
      /\ Arms(f)[arm[f]].op = op /\ Arms(f)[arm[f]].channel = c
  BY RunFacts DEF Executing, Running, Op, Chan
<1>2. /\ c \in Channels /\ c \in ChannelsOf(f)
      /\ Arms(f)[arm[f]] = [op |-> op, channel |-> c]
  BY <1>1, AnArm
<1>3. detached[f] = <<>>
  BY <1>1 DEF CallAt, Closes
<1> QED BY <1>1, <1>2, <1>3 DEF Locked, Id, Ids

LEMMA ExecuteSendStep ==
  ASSUME ChannelInv, NEW f \in Fibers, ExecuteSend(f)
  PROVE  ChannelInv'
<1> PICK c : c = Chan(f)
  OBVIOUS
<1>0. /\ TypeInv /\ MeetInv /\ pc[f] = "run" /\ Locked(f) /\ lock[c] = f
      /\ arm[f] <= Len(Arms(f)) /\ arm[f] \in DOMAIN Arms(f) /\ c \in Channels
      /\ Arms(f)[arm[f]] = [op |-> "send", channel |-> c]
      /\ detached[f] = <<>> /\ Id(f) \in Ids
  BY ExecutingFacts DEF ExecuteSend
<1>1. UNCHANGED <<closed, senders, lock, call, calls, timer, detached>>
  BY DEF ExecuteSend
<1>2. CASE closed[c]
  <2>1. Finish(f, "closed") /\ UNCHANGED <<queue, receivers, waiting>>
    BY <1>2 DEF ExecuteSend
  <2> QED BY <1>0, <1>1, <2>1, FinishStep DEF shared
<1>3. CASE ~closed[c]
  <2> PICK list : list = receivers[c]
    OBVIOUS
  <2>1. ListOf("receive", c, list)
    BY DEF ListOf
  <2>2. /\ receivers' = [receivers EXCEPT ![c] = Rest(list)] /\ Dequeue(list)
        /\ \/ /\ SomeLive(list)
              /\ data' = [data EXCEPT ![list[FirstLive(list)].fiber] = Id(f)]
              /\ Finish(f, "delivered") /\ UNCHANGED queue
           \/ /\ ~SomeLive(list) /\ Len(queue[c]) < Capacity[c]
              /\ queue' = [queue EXCEPT ![c] = Append(queue[c], Id(f))]
              /\ Finish(f, "delivered") /\ UNCHANGED data
           \/ /\ ~SomeLive(list) /\ Len(queue[c]) >= Capacity[c]
              /\ NextArm(f) /\ UNCHANGED <<data, queue>>
    BY <1>3 DEF ExecuteSend
  <2>3. SomeLive(list) => list[FirstLive(list)].fiber \in Fibers \ {f}
    BY <1>0, <2>1, <2>2, TakerStays
  <2>4. /\ queue[c] \in Seq(Ids) /\ Len(queue[c]) \in Nat /\ Capacity[c] \in Nat
        /\ Append(queue[c], Id(f)) \in Seq(Ids)
        /\ Len(Append(queue[c], Id(f))) = Len(queue[c]) + 1
    BY <1>0, ListTypesFacts
  <2>5. /\ queue' \in [Channels -> Seq(Ids)]
        /\ \A d \in Channels : d # c => queue'[d] = queue[d]
        /\ queue'[c] = IF queue' = queue THEN queue[c] ELSE Append(queue[c], Id(f))
    BY <1>0, <2>2, <2>4 DEF TypeInv, ListTypes
  <2>6. /\ data' \in [Fibers -> Ids \cup {None}]
        /\ \A g \in Fibers : \/ data'[g] = data[g]
                             \/ SomeLive(list) /\ g = list[FirstLive(list)].fiber
    BY <1>0, <2>2, <2>3 DEF TypeInv, WaitingTypes
  <2>7. /\ pc'[f] \in {"run", "return"}
        /\ \A g \in Fibers : g # f =>
             pc'[g] = pc[g] /\ arm'[g] = arm[g] /\ outcome'[g] = outcome[g]
    BY <1>0, <2>2 DEF Finish, NextArm, Goto, TypeInv, CallTypes
  <2>8. Takes(f, "receive", c, list)
    BY <1>0, <1>1, <1>3, <2>1, <2>2, <2>5, <2>6, <2>7 DEF Takes
  <2>9. \/ UNCHANGED queue
        \/ /\ Len(queue'[c]) <= Capacity[c] /\ ~SomeLive(receivers[c])
           /\ SomeLive(senders[c])' => Len(queue'[c]) = Capacity[c]
    <3> SUFFICES ASSUME queue' # queue
                 PROVE  /\ Len(queue'[c]) <= Capacity[c] /\ ~SomeLive(receivers[c])
                        /\ ~SomeLive(senders[c])'
      OBVIOUS
    <3>1. ~SomeLive(list) /\ Len(queue[c]) < Capacity[c]
      BY <2>2
    <3>2. Len(queue'[c]) <= Capacity[c]
      BY <2>4, <2>5, <3>1
    <3>3. ~SomeLive(senders[c])
      BY <1>0, <2>4, <3>1 DEF MeetInv
    <3>4. NoneRevived
      BY <1>0, <2>8, TakesRevivesNone
    <3>5. senders'[c] = senders[c] /\ senders[c] \in Seq(Nodes)
      BY <1>0, <1>1, ListTypesFacts
    <3>6. \A i \in DOMAIN senders[c] : senders[c][i] \in Nodes
      BY <3>5
    <3>7. ~SomeLive(senders[c])'
      BY <3>3, <3>4, <3>5, <3>6 DEF SomeLive, NoneRevived
    <3> QED BY <3>1, <3>2, <3>7
  <2>10. \/ \E s \in {"delivered", "closed"} : Finish(f, s)
         \/ /\ NextArm(f) /\ UNCHANGED <<queue, data>> /\ ~SomeLive(list)
            /\ Len(queue[c]) >= Capacity[c]
    BY <2>2
  <2> QED BY <1>0, <1>3, <2>5, <2>6, <2>8, <2>9, <2>10, TakerStep
<1> QED BY <1>2, <1>3

LEMMA ExecuteReceiveStep ==
  ASSUME ChannelInv, NEW f \in Fibers, ExecuteReceive(f)
  PROVE  ChannelInv'
<1> PICK c : c = Chan(f)
  OBVIOUS
<1>0. /\ TypeInv /\ MeetInv /\ pc[f] = "run" /\ Locked(f) /\ lock[c] = f
      /\ arm[f] <= Len(Arms(f)) /\ arm[f] \in DOMAIN Arms(f) /\ c \in Channels
      /\ Arms(f)[arm[f]] = [op |-> "receive", channel |-> c]
  BY ExecutingFacts DEF ExecuteReceive
<1> PICK list : list = senders[c]
  OBVIOUS
<1> PICK value : value = Sent(list[FirstLive(list)])
  OBVIOUS
<1>1. UNCHANGED <<closed, receivers, lock, call, calls, timer, detached>>
  BY DEF ExecuteReceive
<1>2. ListOf("send", c, list)
  BY DEF ListOf
<1>3. /\ senders' = [senders EXCEPT ![c] = Rest(list)] /\ Dequeue(list)
      /\ \/ /\ queue[c] # <<>>
            /\ data' = [data EXCEPT ![f] = Head(queue[c])]
            /\ queue' = [queue EXCEPT ![c] =
                 IF SomeLive(list) THEN Refill(queue[c], value) ELSE Tail(queue[c])]
            /\ Finish(f, "delivered")
         \/ /\ queue[c] = <<>> /\ SomeLive(list)
            /\ data' = [data EXCEPT ![f] = value]
            /\ Finish(f, "delivered") /\ UNCHANGED queue
         \/ /\ queue[c] = <<>> /\ ~SomeLive(list)
            /\ IF closed[c] THEN Finish(f, "closed") ELSE NextArm(f)
            /\ UNCHANGED <<data, queue>>
  BY DEF ExecuteReceive
<1>4. SomeLive(list) => value \in Ids
  <2> SUFFICES ASSUME SomeLive(list) PROVE value \in Ids
    OBVIOUS
  <2>1. PICK n \in Nodes : n = list[FirstLive(list)]
    BY <1>0, <1>2, <1>3, DequeueFacts
  <2> QED BY <2>1 DEF Nodes, Sent, Ids
<1>5. /\ queue[c] \in Seq(Ids) /\ Len(queue[c]) \in Nat /\ Capacity[c] \in Nat
      /\ queue[c] # <<>> =>
           /\ Head(queue[c]) \in Ids /\ Tail(queue[c]) \in Seq(Ids)
           /\ Len(Tail(queue[c])) = Len(queue[c]) - 1
  BY <1>0, ListTypesFacts
<1>6. queue[c] # <<>> /\ SomeLive(list) =>
        /\ Refill(queue[c], value) \in Seq(Ids)
        /\ Len(Refill(queue[c], value)) = Len(queue[c])
  BY <1>4, <1>5 DEF Refill
<1>7. /\ queue' \in [Channels -> Seq(Ids)]
      /\ \A d \in Channels : d # c => queue'[d] = queue[d]
      /\ queue[c] = <<>> => queue' = queue
      /\ queue[c] # <<>> => queue'[c] = IF SomeLive(list) THEN Refill(queue[c], value)
                                        ELSE Tail(queue[c])
  <2>1. CASE queue[c] = <<>>
    <3>1. queue' = queue
      BY <1>3, <2>1
    <3> QED BY <1>0, <2>1, <3>1 DEF TypeInv, ListTypes
  <2>2. CASE queue[c] # <<>> /\ SomeLive(list)
    <3>1. queue' = [queue EXCEPT ![c] = Refill(queue[c], value)]
      BY <1>3, <2>2
    <3>2. Refill(queue[c], value) \in Seq(Ids)
      BY <1>6, <2>2
    <3> QED BY <1>0, <2>2, <3>1, <3>2 DEF TypeInv, ListTypes
  <2>3. CASE queue[c] # <<>> /\ ~SomeLive(list)
    <3>1. queue' = [queue EXCEPT ![c] = Tail(queue[c])]
      BY <1>3, <2>3
    <3>2. Tail(queue[c]) \in Seq(Ids)
      BY <1>5, <2>3
    <3> QED BY <1>0, <2>3, <3>1, <3>2 DEF TypeInv, ListTypes
  <2> QED BY <2>1, <2>2, <2>3
<1>8. /\ data' \in [Fibers -> Ids \cup {None}]
      /\ \A g \in Fibers : g # f => data'[g] = data[g]
  <2>1. PICK v : v \in Ids \cup {None} /\ (data' = [data EXCEPT ![f] = v] \/ data' = data)
    <3>1. CASE queue[c] # <<>>
      BY <1>3, <1>5, <3>1
    <3>2. CASE queue[c] = <<>> /\ SomeLive(list)
      BY <1>3, <1>4, <3>2
    <3>3. CASE queue[c] = <<>> /\ ~SomeLive(list)
      BY <1>3, <3>3
    <3> QED BY <3>1, <3>2, <3>3
  <2> QED BY <1>0, <2>1 DEF TypeInv, WaitingTypes
<1>9. /\ pc'[f] \in {"run", "return"}
      /\ \A g \in Fibers : g # f =>
           pc'[g] = pc[g] /\ arm'[g] = arm[g] /\ outcome'[g] = outcome[g]
  BY <1>0, <1>3 DEF Finish, NextArm, Goto, TypeInv, CallTypes
<1>10. Takes(f, "send", c, list)
  BY <1>0, <1>1, <1>2, <1>3, <1>7, <1>8, <1>9 DEF Takes
<1>11. \/ UNCHANGED queue
       \/ /\ Len(queue'[c]) <= Capacity[c] /\ ~SomeLive(receivers[c])
          /\ SomeLive(senders[c])' => Len(queue'[c]) = Capacity[c]
  <2> SUFFICES ASSUME queue[c] # <<>>
               PROVE  /\ Len(queue'[c]) <= Capacity[c] /\ ~SomeLive(receivers[c])
                      /\ SomeLive(senders[c])' => Len(queue'[c]) = Capacity[c]
    BY <1>7
  <2>1. /\ Len(queue[c]) <= Capacity[c] /\ ~SomeLive(receivers[c])
        /\ SomeLive(list) => Len(queue[c]) = Capacity[c]
    BY <1>0 DEF MeetInv
  <2>2. Len(queue'[c]) <= Capacity[c]
    <3>1. CASE SomeLive(list)
      BY <1>6, <1>7, <2>1, <3>1
    <3>2. CASE ~SomeLive(list)
      <4>1. queue'[c] = Tail(queue[c]) /\ Len(Tail(queue[c])) = Len(queue[c]) - 1
        BY <1>5, <1>7, <3>2
      <4>2. Len(queue'[c]) = Len(queue[c]) - 1
        BY <4>1
      <4> QED BY <1>5, <2>1, <4>2
    <3> QED BY <3>1, <3>2
  <2>3. SomeLive(list) => Len(queue'[c]) = Capacity[c]
    BY <1>6, <1>7, <2>1
  <2>4. ~SomeLive(list) => ~SomeLive(senders[c])'
    <3>1. list \in Seq(Nodes) /\ Distinct(list) /\ senders'[c] = Rest(list)
      BY <1>0, <1>2, <1>3, OnList DEF TypeInv, ListTypes
    <3>2. ~SomeLive(list) => senders'[c] = <<>>
      BY <3>1, RestFacts
    <3> QED BY <3>2 DEF SomeLive
  <2> QED BY <2>1, <2>2, <2>3, <2>4
<1>12. \/ \E s \in {"delivered", "closed"} : Finish(f, s)
       \/ /\ NextArm(f) /\ UNCHANGED <<queue, data>> /\ ~SomeLive(list)
          /\ queue[c] = <<>> /\ ~closed[c]
  BY <1>3
<1> QED BY <1>0, <1>7, <1>8, <1>10, <1>11, <1>12, TakerStep

-----------------------------------------------------------------------------
(* No arm could proceed: the fiber enters its nodes and suspends. *)

LEMMA NobodyIn ==
  ASSUME NEW q \in Seq(Nodes), \A n \in Nodes : ~In(q, n)
  PROVE  q = <<>>
<1>1. \A i \in DOMAIN q : q[i] \in Nodes
  OBVIOUS
<1>2. DOMAIN q = {}
  BY <1>1 DEF In
<1> QED BY <1>2, NoElements

LEMMA ArgMax ==
  ASSUME NEW m \in Nat, NEW S, S \subseteq 1..m, S # {}
  PROVE  \E i \in S : \A j \in S : j <= i
<1> DEFINE T == {m - i : i \in S}
<1>1. T \subseteq Nat /\ T # {}
  <2>1. \A i \in S : m - i \in Nat
    OBVIOUS
  <2> QED BY <2>1
<1>2. PICK t \in T : \A u \in T : t <= u
  BY <1>1, ArgMin
<1>3. PICK i \in S : t = m - i
  OBVIOUS
<1>4. \A j \in S : m - i <= m - j
  BY <1>2, <1>3
<1>5. \A j \in S : j <= i
  BY <1>3, <1>4
<1> QED BY <1>5

(* The arms of a call that is about to wait were all tried in vain. *)
LEMMA ToWait ==
  ASSUME ChannelInv, NEW f \in Fibers, Wait(f)
  PROVE  /\ pc[f] = "run" /\ Locked(f) /\ call[f].form \in {"plain", "select"}
         /\ \A i \in DOMAIN Arms(f) :
              /\ TriedAt(f, i)
              /\ Arms(f)[i].op \in {"send", "receive", "timeout"}
              /\ Arms(f)[i].op # "timeout" =>
                   Arms(f)[i].channel \in Channels /\ lock[Arms(f)[i].channel] = f
<1>1. /\ TypeInv /\ TriedOf(f) /\ call[f] # None /\ pc[f] = "run"
      /\ Len(Arms(f)) \in Nat /\ DOMAIN Arms(f) = 1..Len(Arms(f))
      /\ Len(Arms(f)) > 0 /\ arm[f] \in Nat /\ arm[f] > Len(Arms(f))
      /\ Locked(f) /\ call[f].form # "poll"
  BY RunFacts DEF Wait, Running
<1>2. \A i \in DOMAIN Arms(f) : TriedAt(f, i)
  BY <1>1 DEF TriedOf
<1>3. \A i \in DOMAIN Arms(f) : Arms(f)[i].op # "close"
  BY <1>2 DEF TriedAt
<1>4. call[f].form \in {"plain", "select"}
  BY <1>1, <1>3, ArmFacts
<1>5. \A i \in DOMAIN Arms(f) :
        /\ Arms(f)[i].op \in {"send", "receive", "timeout"}
        /\ Arms(f)[i].op # "timeout" =>
             /\ Arms(f)[i].channel \in Channels
             /\ lock[Arms(f)[i].channel] = f
  BY <1>1, <1>3, AnArm DEF Locked
<1> QED BY <1>1, <1>2, <1>4, <1>5

(* The lists keep the nodes they have, and get those of f. *)
Entered(f, op, c, n) ==
  \E i \in DOMAIN Arms(f) :
    Arms(f)[i] = [op |-> op, channel |-> c] /\ n = Node(f, i)

LEMMA WaitLists ==
  ASSUME ChannelInv, NEW f \in Fibers, Wait(f), NEW c \in Channels
  PROVE  /\ senders'[c] \in Seq(Nodes) /\ Distinct(senders'[c])
         /\ receivers'[c] \in Seq(Nodes) /\ Distinct(receivers'[c])
         /\ \A n : In(senders'[c], n) <=> In(senders[c], n) \/ Entered(f, "send", c, n)
         /\ \A n : In(receivers'[c], n) <=>
              In(receivers[c], n) \/ Entered(f, "receive", c, n)
         /\ \A n : In(senders[c], n) \/ In(receivers[c], n) =>
              n \in Nodes /\ n.fiber \in Fibers \ {f}
<1>0. /\ TypeInv /\ ListInv /\ call[f] # None /\ pc[f] = "run"
      /\ senders[c] \in Seq(Nodes) /\ receivers[c] \in Seq(Nodes)
      /\ Distinct(senders[c]) /\ Distinct(receivers[c])
  BY ToWait, RunFacts, ListTypesFacts DEF ListInv
<1>1. ASSUME NEW n, In(senders[c], n) \/ In(receivers[c], n)
      PROVE  n \in Nodes /\ n.fiber \in Fibers \ {f}
  <2>1. ListOf("send", c, senders[c]) /\ ListOf("receive", c, receivers[c])
    BY DEF ListOf
  <2>2. /\ \A m : In(senders[c], m) =>
             m \in Nodes /\ m.fiber \in Fibers /\ Waiter(m, "send", c)
        /\ \A m : In(receivers[c], m) =>
             m \in Nodes /\ m.fiber \in Fibers /\ Waiter(m, "receive", c)
    BY <2>1, OnList
  <2>3. n \in Nodes /\ n.fiber \in Fibers /\ Waits(n.fiber)
    BY <1>1, <2>2 DEF Waiter
  <2> QED BY <1>0, <2>3 DEF Waits
<1>2. ASSUME NEW op
      PROVE  /\ NodesOn(f, op, c) \in Seq(Nodes) /\ Distinct(NodesOn(f, op, c))
             /\ \A n : In(NodesOn(f, op, c), n) <=> Entered(f, op, c, n)
             /\ \A n : In(NodesOn(f, op, c), n) => n.fiber = f
  <2>1. /\ NodesOn(f, op, c) \in Seq(Nodes) /\ Distinct(NodesOn(f, op, c))
        /\ \A n : In(NodesOn(f, op, c), n) <=> Entered(f, op, c, n)
    BY <1>0, NodesOnFacts DEF Entered
  <2> QED BY <2>1, NodeFields DEF Entered
<1>3. /\ senders'[c] = senders[c] \o NodesOn(f, "send", c)
      /\ receivers'[c] = receivers[c] \o NodesOn(f, "receive", c)
  BY DEF Wait
<1>4. /\ senders'[c] \in Seq(Nodes)
      /\ \A n : In(senders'[c], n) <=> In(senders[c], n) \/ Entered(f, "send", c, n)
      /\ Distinct(senders'[c])
  <2>1. \A n : ~(In(senders[c], n) /\ In(NodesOn(f, "send", c), n))
    BY <1>1, <1>2
  <2> QED BY <1>0, <1>2, <1>3, <2>1, ConcatFacts
<1>5. /\ receivers'[c] \in Seq(Nodes)
      /\ \A n : In(receivers'[c], n) <=> In(receivers[c], n) \/ Entered(f, "receive", c, n)
      /\ Distinct(receivers'[c])
  <2>1. \A n : ~(In(receivers[c], n) /\ In(NodesOn(f, "receive", c), n))
    BY <1>1, <1>2
  <2> QED BY <1>0, <1>2, <1>3, <2>1, ConcatFacts
<1> QED BY <1>1, <1>4, <1>5

(* What f itself becomes. *)
LEMMA WaitOwn ==
  ASSUME ChannelInv, NEW f \in Fibers, Wait(f)
  PROVE  /\ TypeInv' /\ LocalAt(f)' /\ Others(f)
         /\ pc'[f] = "parked" /\ Waits(f)'
         /\ select'[f] = IF call[f].form = "select" THEN "active" ELSE "none"
<1>0. /\ TypeInv /\ CallAt(f) /\ call[f] # None /\ pc[f] = "run"
      /\ Len(Arms(f)) \in Nat /\ DOMAIN Arms(f) = 1..Len(Arms(f))
      /\ Len(Arms(f)) > 0 /\ call[f].form \in {"plain", "select"}
      /\ DOMAIN state[f] = DOMAIN Arms(f) /\ arm[f] > 0
      /\ \A i \in DOMAIN Arms(f) : Arms(f)[i].op \in {"send", "receive", "timeout"}
  BY ToWait, RunFacts
<1>1. /\ pc' = [pc EXCEPT ![f] = "parked"] /\ lock' = Unlocked(f)
      /\ UNCHANGED <<closed, queue, call, arm, calls, state, data, activated, wakes,
                     detached, outcome>>
  BY DEF Wait, Goto
<1>2. PICK t \in Nat, s \in {"none", "active"} :
        /\ timer' = [timer EXCEPT ![f] = t] /\ select' = [select EXCEPT ![f] = s]
        /\ s = IF call[f].form = "select" THEN "active" ELSE "none"
        /\ t # 0 => t \in DOMAIN Arms(f) /\ Arms(f)[t].op = "timeout"
        /\ call[f].form = "plain" => t = 0
  <2>1. CASE call[f].form = "plain"
    <3>1. timer' = timer /\ select' = select /\ timer[f] = 0 /\ select[f] = "none"
      BY <1>0, <2>1 DEF Wait, CallAt, Waits
    <3>2. timer' = [timer EXCEPT ![f] = 0] /\ select' = [select EXCEPT ![f] = "none"]
      BY <1>0, <3>1 DEF TypeInv, CallTypes, WaitingTypes
    <3> QED BY <2>1, <3>2
  <2>2. CASE call[f].form = "select"
    <3> DEFINE timeouts == {i \in DOMAIN Arms(f) : Arms(f)[i].op = "timeout"}
               t == IF timeouts = {} THEN 0
                    ELSE CHOOSE i \in timeouts : \A j \in timeouts : j <= i
    <3>1. timer' = [timer EXCEPT ![f] = t] /\ select' = [select EXCEPT ![f] = "active"]
      BY <2>2 DEF Wait
    <3>2. t # 0 => t \in timeouts
      <4>1. timeouts \subseteq 1..Len(Arms(f))
        BY <1>0
      <4> HIDE DEF timeouts
      <4>2. timeouts # {} => \E i \in timeouts : \A j \in timeouts : j <= i
        BY <1>0, <4>1, ArgMax
      <4> QED BY <4>2
    <3>3. t \in Nat
      <4>1. \A i \in timeouts : i \in Nat
        BY <1>0
      <4> HIDE DEF t, timeouts
      <4> QED BY <3>2, <4>1
    <3> HIDE DEF t
    <3> QED BY <2>2, <3>1, <3>2, <3>3
  <2> QED BY <1>0, <2>1, <2>2
<1>3. TypeInv'
  <2>1. ListTypes'
    <3>1. \A c \in Channels : senders'[c] \in Seq(Nodes) /\ receivers'[c] \in Seq(Nodes)
      BY WaitLists
    <3>2. /\ senders' = [c \in Channels |-> senders'[c]]
          /\ receivers' = [c \in Channels |-> receivers'[c]]
      BY DEF Wait
    <3>3. lock' \in [Channels -> Fibers \cup {None}]
      BY <1>0, <1>1 DEF Unlocked, TypeInv, ListTypes
    <3> QED BY <1>0, <1>1, <3>1, <3>2, <3>3 DEF TypeInv, ListTypes
  <2>2. CallTypes'
    <3>1. "parked" \in Steps
      BY DEF Steps
    <3> QED BY <1>0, <1>1, <1>2, <3>1 DEF TypeInv, CallTypes
  <2>3. WaitingTypes'
    BY <1>0, <1>1, <1>2 DEF TypeInv, WaitingTypes
  <2> QED BY <2>1, <2>2, <2>3 DEF TypeInv
<1>4. pc'[f] = "parked" /\ timer'[f] = t /\ select'[f] = s
  BY <1>0, <1>1, <1>2 DEF TypeInv, CallTypes, WaitingTypes
<1>5. Others(f)
  BY <1>0, <1>1, <1>2 DEF Others, Same, TypeInv, CallTypes, WaitingTypes
<1>6. Arms(f)' = Arms(f)
  BY <1>1 DEF Arms
<1>7. LocalAt(f)'
  <2>1. /\ data[f] = None /\ activated[f] = 0 /\ wakes[f] = 0 /\ detached[f] = <<>>
        /\ \A i \in DOMAIN state[f] : state[f][i] = "none"
    BY <1>0 DEF CallAt, Closes
  <2>2. CallAt(f)'
    BY <1>0, <1>1, <1>4, <1>6, <2>1 DEF CallAt, Waits, Closes
  <2>3. PlainAt(f)'
    <3> SUFFICES ASSUME call[f].form = "plain"
                 PROVE  /\ Arms(f)[1].op \in {"send", "receive"} /\ s = "none" /\ t = 0
      BY <1>1, <1>4, <1>6, <2>1 DEF PlainAt
    <3> QED BY <1>0, <1>2, ArmFacts
  <2>4. SelectAt(f)'
    <3> SUFFICES ASSUME call[f].form = "select"
                 PROVE  TimerAt(f)' /\ s = "active"
      BY <1>0, <1>1, <1>4, <1>6, <2>1 DEF SelectAt
    <3>1. TimerAt(f)'
      BY <1>2, <1>4, <1>6 DEF TimerAt
    <3> QED BY <1>2, <3>1
  <2>5. CloseAt(f)'
    BY <1>4 DEF CloseAt, Closes
  <2> QED BY <2>2, <2>3, <2>4, <2>5 DEF LocalAt
<1> QED BY <1>2, <1>3, <1>4, <1>5, <1>7 DEF Waits

LEMMA WaitStep ==
  ASSUME ChannelInv, NEW f \in Fibers, Wait(f)
  PROVE  ChannelInv'
<1>0. /\ TypeInv /\ LocalInv /\ ListInv /\ ListedInv /\ DetachedInv
      /\ LockInv /\ TriedInv /\ MeetInv /\ CallAt(f)
      /\ call[f] # None /\ pc[f] = "run"
      /\ DOMAIN Arms(f) = 1..Len(Arms(f)) /\ Len(Arms(f)) \in Nat
      /\ DOMAIN state[f] = DOMAIN Arms(f)
  BY ToWait, RunFacts
<1>1. /\ TypeInv' /\ LocalAt(f)' /\ Others(f)
      /\ pc'[f] = "parked" /\ Waits(f)'
      /\ select'[f] = IF call[f].form = "select" THEN "active" ELSE "none"
  BY WaitOwn
<1>2. /\ lock' = Unlocked(f)
      /\ UNCHANGED <<closed, queue, call, arm, calls, state, data, activated, wakes,
                     detached, outcome>>
  BY DEF Wait
<1>3. /\ Arms(f)' = Arms(f) /\ \A i : Node(f, i)' = Node(f, i)
      /\ \A i \in DOMAIN Arms(f) : state[f][i] = "none"
      /\ wakes[f] = 0 /\ detached[f] = <<>>
  BY <1>0, <1>2 DEF Arms, Node, CallAt, Closes
<1>4. ASSUME NEW op, NEW c, NEW n, Entered(f, op, c, n), op \in {"send", "receive"}
      PROVE  /\ Waiter(n, op, c)' /\ n.fiber = f
             /\ c \in Channels /\ lock[c] = f /\ ~closed[c]
             /\ op = "send" => Len(queue[c]) >= Capacity[c] /\ ~SomeLive(receivers[c])
             /\ op = "receive" => queue[c] = <<>> /\ ~SomeLive(senders[c])
  <2>1. PICK i \in DOMAIN Arms(f) :
          Arms(f)[i] = [op |-> op, channel |-> c] /\ n = Node(f, i)
    BY <1>4 DEF Entered
  <2>2. /\ n.fiber = f /\ n.call = calls[f] /\ n.arm = i
        /\ n.context = (call[f].form = "select")
    BY <2>1, NodeFields
  <2>3. OfArm(n, op, c)'
    BY <1>2, <1>3, <2>1, <2>2 DEF OfArm
  <2>4. Waiter(n, op, c)'
    BY <1>1, <1>2, <1>3, <2>2, <2>3 DEF Waiter
  <2>5. TriedAt(f, i) /\ c \in Channels /\ lock[c] = f
    BY <1>4, <2>1, ToWait
  <2> QED BY <1>4, <2>1, <2>2, <2>4, <2>5 DEF TriedAt
<1>5. LocalInv'
  <2>1. ASSUME NEW g \in Fibers, g # f PROVE LocalAt(g)'
    BY <1>0, <1>1, <1>2, <2>1, LocalFrame DEF Others, LocalInv
  <2> QED BY <1>1, <2>1 DEF LocalInv
<1>6. ListInv'
  <2>1. ASSUME NEW c \in Channels, NEW n \in Nodes, In(senders'[c], n)
        PROVE  Waiter(n, "send", c)' /\ ~closed[c]
    <3>1. CASE Entered(f, "send", c, n)
      BY <1>4, <3>1
    <3>2. CASE In(senders[c], n)
      <4>1. Waiter(n, "send", c) /\ Same(n.fiber)
        BY <1>0, <1>1, <3>2, WaitLists DEF ListInv, Others
      <4>2. senders[c] # <<>>
        BY <3>2 DEF In
      <4> QED BY <1>0, <4>1, <4>2, WaiterFrame DEF ListInv
    <3> QED BY <2>1, <3>1, <3>2, WaitLists
  <2>2. ASSUME NEW c \in Channels, NEW n \in Nodes, In(receivers'[c], n)
        PROVE  Waiter(n, "receive", c)' /\ ~closed[c]
    <3>1. CASE Entered(f, "receive", c, n)
      BY <1>4, <3>1
    <3>2. CASE In(receivers[c], n)
      <4>1. Waiter(n, "receive", c) /\ Same(n.fiber)
        BY <1>0, <1>1, <3>2, WaitLists DEF ListInv, Others
      <4>2. receivers[c] # <<>>
        BY <3>2 DEF In
      <4> QED BY <1>0, <4>1, <4>2, WaiterFrame DEF ListInv
    <3> QED BY <2>2, <3>1, <3>2, WaitLists
  <2>3. ASSUME NEW c \in Channels, closed[c]
        PROVE  senders'[c] = <<>> /\ receivers'[c] = <<>>
    <3>1. senders'[c] \in Seq(Nodes) /\ receivers'[c] \in Seq(Nodes)
      BY WaitLists
    <3>2. \A n \in Nodes : ~In(senders'[c], n) /\ ~In(receivers'[c], n)
      BY <2>1, <2>2, <2>3
    <3>3. senders'[c] = <<>>
      BY <3>1, <3>2, NobodyIn
    <3>4. receivers'[c] = <<>>
      BY <3>1, <3>2, NobodyIn
    <3> QED BY <3>3, <3>4
  <2>4. \A c \in Channels : Distinct(senders'[c]) /\ Distinct(receivers'[c])
    BY WaitLists
  <2> QED BY <1>2, <2>1, <2>2, <2>3, <2>4 DEF ListInv, In, Distinct
<1>7. ListedInv'
  <2> SUFFICES ASSUME NEW g \in Fibers, Waits(g)' PROVE ListedAt(g)'
    BY DEF ListedInv
  <2>1. CASE g = f
    <3> SUFFICES ASSUME NEW i \in DOMAIN Arms(f), NEW c, c = Arms(f)[i].channel
                 PROVE  /\ Arms(f)[i].op = "send" => In(senders'[c], Node(f, i))
                        /\ Arms(f)[i].op = "receive" => In(receivers'[c], Node(f, i))
      BY <1>2, <1>3, <2>1 DEF ListedAt, In
    <3>1. /\ Arms(f)[i] = [op |-> Arms(f)[i].op, channel |-> c]
          /\ Arms(f)[i].op \in {"send", "receive"} => c \in Channels
      BY <1>0, AnArm
    <3>2. Entered(f, Arms(f)[i].op, c, Node(f, i))
      BY <3>1 DEF Entered
    <3> QED BY <3>1, <3>2, WaitLists
  <2>2. CASE g # f
    <3>1. Same(g) /\ Waits(g) /\ ListedAt(g)
      BY <1>0, <1>1, <2>2 DEF Others, Same, Waits, ListedInv
    <3>2. call[g] # None
      BY <1>0, <3>1 DEF LocalInv, LocalAt, CallAt, Waits
    <3>3. KeepsNodes(g)
      BY <1>2, WaitLists DEF KeepsNodes
    <3> QED BY <1>0, <3>1, <3>2, <3>3, ListedFrame
  <2> QED BY <2>1, <2>2
<1>8. DetachedInv'
  <2>1. ASSUME NEW h \in Fibers, NEW k \in DOMAIN detached[h] PROVE DetachedAt(h, k)'
    <3>1. h # f /\ Same(h) /\ DetachedAt(h, k)
      BY <1>0, <1>1, <1>3 DEF Others, DetachedInv
    <3>2. CASE detached[h][k].fiber # f
      BY <1>0, <1>1, <1>2, <3>1, <3>2, DetachedType, DetachedFrame DEF Others
    <3>3. CASE detached[h][k].fiber = f
      <4> PICK n : n = detached[h][k]
        OBVIOUS
      <4>1. n.fiber = f /\ n.call <= calls[f] /\ n.call # calls[f] /\ n.context
        BY <1>0, <3>1, <3>3 DEF DetachedAt
      <4> QED BY <1>2, <4>1 DEF DetachedAt
    <3> QED BY <3>2, <3>3
  <2>2. ASSUME NEW h \in Fibers, NEW g \in Fibers, Closes(h)', Closes(g)',
               Chan(h)' = Chan(g)'
        PROVE  h = g
    <3>1. h # f /\ g # f
      BY <1>1, <2>2 DEF Closes
    <3>2. Closes(h) /\ Closes(g) /\ Chan(h) = Chan(g)
      BY <1>1, <2>2, <3>1 DEF Others, Same, Closes, Chan, Arms
    <3> QED BY <1>0, <3>2 DEF DetachedInv
  <2> QED BY <1>0, <1>2, <2>1, <2>2 DEF DetachedInv, Distinct
<1>9. LockInv'
  <2>1. KeepsLock(f)
    BY <1>2 DEF KeepsLock, Unlocked
  <2> QED BY <1>0, <1>1, <2>1, OthersStay, LockFrame
<1>10. \A c \in Channels, n \in Nodes :
         (In(senders[c], n) \/ In(receivers[c], n)) /\ Live(n)' => Live(n)
  <2> SUFFICES ASSUME NEW c \in Channels, NEW n \in Nodes,
                      In(senders[c], n) \/ In(receivers[c], n), Live(n)'
               PROVE  Live(n)
    OBVIOUS
  <2>1. Same(n.fiber)
    BY <1>1, WaitLists DEF Others
  <2> QED BY <2>1, LiveFrame
<1>11. TriedInv'
  <2> SUFFICES ASSUME NEW g \in Fibers PROVE TriedOf(g)'
    BY DEF TriedInv
  <2>1. CASE g = f
    BY <1>1, <2>1 DEF TriedOf
  <2>2. CASE g # f
    <3>1. ASSUME NEW c \in Channels, lock[c] = g
          PROVE  /\ lock'[c] = g
                 /\ SomeLive(senders[c])' => SomeLive(senders[c])
                 /\ SomeLive(receivers[c])' => SomeLive(receivers[c])
      <4>1. \A n : ~Entered(f, "send", c, n) /\ ~Entered(f, "receive", c, n)
        BY <1>4, <2>2, <3>1
      <4>2. \A n : /\ In(senders'[c], n) => In(senders[c], n)
                   /\ In(receivers'[c], n) => In(receivers[c], n)
        BY <4>1, WaitLists
      <4>3. lock'[c] = g
        BY <1>2, <2>2, <3>1 DEF Unlocked
      <4> QED BY <1>0, <1>1, <1>10, <4>2, <4>3, SomeLiveNow, SomeLiveNext
    <3>2. KeepsTried(g)
      BY <1>2, <3>1 DEF KeepsTried
    <3> QED BY <1>0, <1>1, <2>2, <3>2, TriedFrame DEF Others, Same, TriedInv
  <2> QED BY <2>1, <2>2
<1>12. MeetInv'
  <2> SUFFICES ASSUME NEW c \in Channels
               PROVE  /\ SomeLive(receivers[c])' => queue[c] = <<>>
                      /\ SomeLive(senders[c])' => Len(queue[c]) = Capacity[c]
                      /\ \A s, r \in Nodes : /\ In(senders'[c], s) /\ Live(s)'
                                             /\ In(receivers'[c], r) /\ Live(r)'
                                             => s.fiber = r.fiber
    BY <1>0, <1>2 DEF MeetInv, In
  <2>1. SomeLive(receivers[c])' => queue[c] = <<>>
    <3> SUFFICES ASSUME NEW n \in Nodes, In(receivers'[c], n), Live(n)'
                 PROVE  queue[c] = <<>>
      BY <1>1, SomeLiveNext
    <3>1. In(receivers[c], n) => SomeLive(receivers[c])
      BY <1>0, <1>10, SomeLiveNow
    <3> QED BY <1>0, <1>4, <3>1, WaitLists DEF MeetInv
  <2>2. SomeLive(senders[c])' => Len(queue[c]) = Capacity[c]
    <3> SUFFICES ASSUME NEW n \in Nodes, In(senders'[c], n), Live(n)'
                 PROVE  Len(queue[c]) = Capacity[c]
      BY <1>1, SomeLiveNext
    <3>1. In(senders[c], n) => SomeLive(senders[c])
      BY <1>0, <1>10, SomeLiveNow
    <3>2. Len(queue[c]) \in Nat /\ Capacity[c] \in Nat /\ Len(queue[c]) <= Capacity[c]
      BY <1>0, ListTypesFacts DEF MeetInv
    <3>3. Entered(f, "send", c, n) => Len(queue[c]) >= Capacity[c]
      BY <1>4
    <3> QED BY <1>0, <3>1, <3>2, <3>3, WaitLists DEF MeetInv
  <2>3. ASSUME NEW s \in Nodes, NEW r \in Nodes, In(senders'[c], s), Live(s)',
               In(receivers'[c], r), Live(r)'
        PROVE  s.fiber = r.fiber
    <3>1. In(senders[c], s) => Live(s) /\ SomeLive(senders[c])
      BY <1>0, <1>10, <2>3, SomeLiveNow
    <3>2. In(receivers[c], r) => Live(r) /\ SomeLive(receivers[c])
      BY <1>0, <1>10, <2>3, SomeLiveNow
    <3>3. In(senders[c], s) \/ Entered(f, "send", c, s)
      BY <2>3, WaitLists
    <3>4. In(receivers[c], r) \/ Entered(f, "receive", c, r)
      BY <2>3, WaitLists
    <3>5. Entered(f, "send", c, s) => s.fiber = f /\ ~SomeLive(receivers[c])
      BY <1>4
    <3>6. Entered(f, "receive", c, r) => r.fiber = f /\ ~SomeLive(senders[c])
      BY <1>4
    <3>7. In(senders[c], s) /\ In(receivers[c], r) => s.fiber = r.fiber
      BY <1>0, <3>1, <3>2 DEF MeetInv
    <3> QED BY <3>1, <3>2, <3>3, <3>4, <3>5, <3>6, <3>7
  <2> QED BY <2>1, <2>2, <2>3
<1> QED BY <1>1, <1>5, <1>6, <1>7, <1>8, <1>9, <1>11, <1>12 DEF ChannelInv

-----------------------------------------------------------------------------
(* close: the lists are detached under the lock, and visited without it. *)

LEMMA ExecuteCloseStep ==
  ASSUME ChannelInv, NEW f \in Fibers, ExecuteClose(f)
  PROVE  ChannelInv'
<1> PICK c : c = Chan(f)
  OBVIOUS
<1>0. /\ TypeInv /\ MeetInv /\ pc[f] = "run" /\ lock[c] = f
      /\ arm[f] \in DOMAIN Arms(f) /\ c \in Channels
      /\ Arms(f)[arm[f]] = [op |-> "close", channel |-> c]
      /\ call[f] # None /\ detached[f] = <<>>
  BY ExecutingFacts DEF ExecuteClose
<1>1. UNCHANGED <<queue, call, calls, waiting, timer>>
  BY DEF ExecuteClose
<1>2. CASE closed[c]
  <2>1. /\ Finish(f, "already closed")
        /\ UNCHANGED <<closed, senders, receivers, lock, detached>>
    BY <1>2 DEF ExecuteClose
  <2> QED BY <1>0, <1>1, <2>1, FinishStep DEF shared
<1> SUFFICES ASSUME ~closed[c] PROVE ChannelInv'
  BY <1>2
<1>3. /\ closed' = [closed EXCEPT ![c] = TRUE]
      /\ detached' = [detached EXCEPT ![f] = senders[c] \o receivers[c]]
      /\ senders' = [senders EXCEPT ![c] = <<>>]
      /\ receivers' = [receivers EXCEPT ![c] = <<>>]
      /\ lock' = Unlocked(f) /\ pc' = [pc EXCEPT ![f] = "closing"]
      /\ UNCHANGED <<arm, outcome, queue, call, calls, state, data, select,
                     activated, wakes, timer>>
  BY <1>1 DEF ExecuteClose, Goto, waiting
<1>4. /\ LocalInv /\ ListInv /\ ListedInv /\ DetachedInv /\ LockInv /\ TriedInv
      /\ CallAt(f) /\ call[f].form = "close" /\ arm[f] = 1
      /\ data[f] = None /\ DOMAIN state[f] = DOMAIN Arms(f)
  <2>1. /\ LocalInv /\ ListInv /\ ListedInv /\ DetachedInv /\ LockInv /\ TriedInv
        /\ CallAt(f) /\ DOMAIN state[f] = DOMAIN Arms(f)
        /\ DOMAIN Arms(f) = 1..Len(Arms(f))
    BY <1>0, RunFacts
  <2>2. call[f].form = "close" /\ Len(Arms(f)) = 1
    BY <1>0, ArmFacts
  <2> QED BY <1>0, <2>1, <2>2 DEF CallAt
<1>5. /\ senders[c] \in Seq(Nodes) /\ receivers[c] \in Seq(Nodes)
      /\ Distinct(senders[c]) /\ Distinct(receivers[c])
      /\ \A n : In(senders[c], n) => /\ n \in Nodes /\ n.fiber \in Fibers \ {f}
                                     /\ Waiter(n, "send", c)
      /\ \A n : In(receivers[c], n) => /\ n \in Nodes /\ n.fiber \in Fibers \ {f}
                                       /\ Waiter(n, "receive", c)
  <2>1. ListOf("send", c, senders[c]) /\ ListOf("receive", c, receivers[c])
    BY DEF ListOf
  <2>2. \A n, op : Waiter(n, op, c) => n.fiber # f
    BY <1>0 DEF Waiter, Waits
  <2> QED BY <1>0, <2>1, <2>2, OnList
<1>6. /\ detached'[f] \in Seq(Nodes) /\ Distinct(detached'[f])
      /\ \A n : In(detached'[f], n) <=> In(senders[c], n) \/ In(receivers[c], n)
      /\ \A h \in Fibers : h # f => detached'[h] = detached[h]
  <2>1. /\ detached'[f] = senders[c] \o receivers[c]
        /\ \A h \in Fibers : h # f => detached'[h] = detached[h]
    BY <1>0, <1>3 DEF TypeInv, CallTypes
  <2>2. \A n : ~(In(senders[c], n) /\ In(receivers[c], n))
    <3>1. \A n : ~(OfArm(n, "send", c) /\ OfArm(n, "receive", c))
      BY DEF OfArm
    <3> QED BY <1>5, <3>1 DEF Waiter
  <2> QED BY <1>5, <2>1, <2>2, ConcatFacts
<1>7. TypeInv'
  <2>1. ListTypes'
    <3>1. <<>> \in Seq(Nodes)
      OBVIOUS
    <3> QED BY <1>0, <1>3, <3>1 DEF TypeInv, ListTypes, Unlocked
  <2>2. CallTypes'
    <3>1. "closing" \in Steps
      BY DEF Steps
    <3>2. detached' \in [Fibers -> Seq(Nodes)]
      BY <1>0, <1>3, <1>6 DEF TypeInv, CallTypes
    <3> QED BY <1>0, <1>3, <3>1, <3>2 DEF TypeInv, CallTypes
  <2>3. WaitingTypes'
    BY <1>0, <1>3 DEF TypeInv, WaitingTypes
  <2> QED BY <2>1, <2>2, <2>3 DEF TypeInv
<1>8. /\ Others(f) /\ pc'[f] = "closing" /\ closed'[c]
      /\ \A d \in Channels : /\ closed[d] => closed'[d]
                             /\ d # c => closed'[d] = closed[d]
      /\ Chan(f)' = c /\ Arms(f)' = Arms(f)
      /\ senders'[c] = <<>> /\ receivers'[c] = <<>>
      /\ \A d \in Channels : d # c => senders'[d] = senders[d] /\ receivers'[d] = receivers[d]
  BY <1>0, <1>3, <1>6 DEF Others, Same, TypeInv, ListTypes, CallTypes, Chan, Arms
<1>9. LocalInv'
  <2>1. ASSUME NEW g \in Fibers, g # f PROVE LocalAt(g)'
    BY <1>0, <1>4, <1>8, <2>1, LocalFrame DEF Others, LocalInv
  <2>2. CallAt(f)'
    <3>1. arm'[f] > 0 /\ DOMAIN state'[f] = DOMAIN Arms(f)'
      BY <1>3, <1>4, <1>8
    <3> QED BY <1>0, <1>3, <1>4, <1>8, <3>1 DEF CallAt, Waits, Closes
  <2>3. LocalAt(f)'
    BY <1>3, <1>4, <1>8, <2>2 DEF LocalAt, CloseAt, PlainAt, SelectAt, Waits
  <2> QED BY <2>1, <2>3 DEF LocalInv
<1>10. ListInv'
  <2>1. ASSUME NEW d \in Channels, NEW n \in Nodes, NEW op, n.fiber # f, Waiter(n, op, d)
        PROVE  Waiter(n, op, d)'
    BY <1>8, <2>1, WaiterFrame DEF Others, Nodes
  <2>2. ASSUME NEW d \in Channels, NEW n \in Nodes, NEW op, Waiter(n, op, d)
        PROVE  n.fiber # f
    BY <1>0, <2>2 DEF Waiter, Waits
  <2>3. ASSUME NEW d \in Channels, d # c
        PROVE  /\ \A n \in Nodes : In(senders'[d], n) => Waiter(n, "send", d)'
               /\ \A n \in Nodes : In(receivers'[d], n) => Waiter(n, "receive", d)'
               /\ Distinct(senders'[d]) /\ Distinct(receivers'[d])
               /\ closed'[d] => senders'[d] = <<>> /\ receivers'[d] = <<>>
    BY <1>4, <1>8, <2>1, <2>2, <2>3 DEF ListInv
  <2>4. /\ \A n : ~In(senders'[c], n) /\ ~In(receivers'[c], n)
        /\ Distinct(senders'[c]) /\ Distinct(receivers'[c])
    BY <1>8 DEF In, Distinct
  <2> QED BY <1>8, <2>3, <2>4 DEF ListInv, In, Distinct
<1>11. ListedInv'
  <2> SUFFICES ASSUME NEW g \in Fibers, Waits(g)' PROVE ListedAt(g)'
    BY DEF ListedInv
  <2>1. g # f
    BY <1>8 DEF Waits
  <2>2. Same(g) /\ Waits(g) /\ ListedAt(g)
    BY <1>4, <1>8, <2>1 DEF Others, Same, Waits, ListedInv
  <2>3. call[g] # None
    BY <1>4, <2>2 DEF LocalInv, LocalAt, CallAt, Waits
  <2>4. KeepsNodes(g)
    BY <1>8 DEF KeepsNodes
  <2> QED BY <1>0, <2>2, <2>3, <2>4, ListedFrame
<1>12. ASSUME NEW k \in DOMAIN detached'[f] PROVE DetachedAt(f, k)'
  <2>1. PICK n : n = detached'[f][k] /\ In(detached'[f], n)
    BY DEF In
  <2>2. PICK op \in {"send", "receive"} :
          /\ n \in Nodes /\ n.fiber \in Fibers \ {f} /\ Waiter(n, op, c)
          /\ op = "receive" => In(receivers[c], n)
    BY <1>5, <1>6, <2>1
  <2>3. PICK g \in Fibers : g = n.fiber /\ g # f
    BY <2>2
  <2>4. Same(g) /\ Waits(g) /\ n.call = calls[g] /\ OfArm(n, op, c)
        /\ state[g][n.arm] = "none" /\ (~n.context => wakes[g] = 0)
    BY <1>8, <2>2, <2>3 DEF Others, Waiter
  <2>5. ~n.context => pc[g] = "parked"
    <3>1. PlainAt(g) /\ call[g].form \in {"plain", "select"}
      BY <2>4, WaitFacts
    <3>2. n.context = (call[g].form = "select")
      BY <2>3, <2>4 DEF OfArm
    <3>3. n.context <=> call[g].form = "select"
      BY <3>2, Zenon
    <3> QED BY <2>4, <3>1, <3>3 DEF PlainAt
  <2>6. op = "receive" /\ Live(n)' => queue[c] = <<>>
    <3> SUFFICES ASSUME op = "receive", Live(n)' PROVE queue[c] = <<>>
      OBVIOUS
    <3>1. Live(n)
      BY <2>3, <2>4, LiveFrame
    <3>2. SomeLive(receivers[c])
      BY <1>0, <2>2, <3>1, SomeLiveNow
    <3> QED BY <1>0, <3>2 DEF MeetInv
  <2>7. OfArm(n, op, c)' /\ calls'[g] \in Nat /\ n.call = calls'[g]
        /\ Waits(g)' /\ pc'[g] = pc[g] /\ state'[g] = state[g] /\ wakes'[g] = wakes[g]
    BY <1>0, <2>3, <2>4 DEF OfArm, Same, Arms, Waits, TypeInv, CallTypes
  <2>8. pc'[g] \in {"idle", "return", "parked", "unwait"} /\ n.call <= calls'[g]
    BY <2>7 DEF Waits
  <2> QED BY <1>3, <1>8, <2>1, <2>2, <2>3, <2>4, <2>5, <2>6, <2>7, <2>8 DEF DetachedAt
<1>13. ASSUME NEW h \in Fibers, h # f, NEW k \in DOMAIN detached[h]
       PROVE  DetachedAt(h, k)'
  <2>1. Same(h) /\ DetachedAt(h, k)
    BY <1>4, <1>8, <1>13 DEF Others, DetachedInv
  <2>2. CASE detached[h][k].fiber # f
    BY <1>0, <1>3, <1>8, <2>1, <2>2, DetachedType, DetachedFrame DEF Others
  <2>3. CASE detached[h][k].fiber = f
    <3> PICK n : n = detached[h][k]
      OBVIOUS
    <3>1. n.fiber = f /\ n.call <= calls[f] /\ n.call # calls[f] /\ n.context
      BY <1>0, <2>1, <2>3 DEF DetachedAt
    <3> QED BY <1>3, <1>6, <1>13, <3>1 DEF DetachedAt
  <2> QED BY <2>2, <2>3
<1>14. DetachedInv'
  <2>1. ASSUME NEW h \in Fibers, h # f, Closes(h)' PROVE Closes(h) /\ Chan(h)' = Chan(h)
    BY <1>8, <2>1 DEF Others, Same, Closes, Chan, Arms
  <2>2. ASSUME NEW h \in Fibers, Closes(h) PROVE closed[Chan(h)]
    BY <1>4, <2>2 DEF LocalInv, LocalAt, CloseAt
  <2>3. ASSUME NEW h \in Fibers, NEW g \in Fibers, Closes(h)', Closes(g)',
               Chan(h)' = Chan(g)'
        PROVE  h = g
    <3>1. CASE h # f /\ g # f
      BY <1>4, <2>1, <2>3, <3>1 DEF DetachedInv
    <3>2. CASE h = f /\ g # f
      BY <1>8, <2>1, <2>2, <2>3, <3>2
    <3>3. CASE h # f /\ g = f
      BY <1>8, <2>1, <2>2, <2>3, <3>3
    <3> QED BY <3>1, <3>2, <3>3
  <2>4. ASSUME NEW h \in Fibers
        PROVE  Distinct(detached'[h]) /\ \A k \in DOMAIN detached'[h] : DetachedAt(h, k)'
    <3>1. CASE h = f
      BY <1>6, <1>12, <3>1
    <3>2. CASE h # f
      BY <1>4, <1>6, <1>13, <3>2 DEF DetachedInv
    <3> QED BY <3>1, <3>2
  <2> QED BY <2>3, <2>4 DEF DetachedInv, Distinct
<1>15. LockInv'
  <2>1. KeepsLock(f)
    BY <1>3 DEF KeepsLock, Unlocked
  <2> QED BY <1>0, <1>4, <1>8, <2>1, OthersStay, LockFrame
<1>16. NoneRevived /\ Shrinks(senders) /\ Shrinks(receivers)
  <2>1. NoneRevived
    BY <1>0, <1>3, <1>4, <1>8, NotRevived
  <2> QED BY <1>8, <2>1 DEF Shrinks, In
<1>17. TriedInv'
  <2> SUFFICES ASSUME NEW g \in Fibers PROVE TriedOf(g)'
    BY DEF TriedInv
  <2>1. CASE g = f
    BY <1>8, <2>1 DEF TriedOf
  <2>2. CASE g # f
    <3>1. \A d \in Channels : lock[d] = g =>
            lock'[d] = g /\ closed'[d] = closed[d] /\ queue'[d] = queue[d]
      BY <1>0, <1>3, <1>8, <2>2 DEF Unlocked
    <3>2. KeepsTried(g)
      BY <1>0, <1>7, <1>16, <3>1, KeepsTriedFacts
    <3> QED BY <1>0, <1>4, <1>8, <2>2, <3>2, TriedFrame DEF Others, Same, TriedInv
  <2> QED BY <2>1, <2>2
<1>18. MeetInv'
  BY <1>0, <1>3, <1>7, <1>16, MeetFrame
<1> QED BY <1>7, <1>9, <1>10, <1>11, <1>14, <1>15, <1>17, <1>18 DEF ChannelInv

(* The nodes a close has still to visit are those of its channel. *)
LEMMA VisitFacts ==
  ASSUME ChannelInv, NEW h \in Fibers, NEW k \in DOMAIN detached[h]
  PROVE  /\ Closes(h) /\ closed[Chan(h)] /\ Chan(h) \in Channels
         /\ DetachedAt(h, k) /\ detached[h] \in Seq(Nodes)
         /\ detached[h][k] \in Nodes /\ detached[h][k].fiber \in Fibers
         /\ detached[h][k].call = calls[detached[h][k].fiber] =>
              detached[h][k].fiber # h
<1>1. /\ TypeInv /\ DetachedInv /\ CallAt(h) /\ CloseAt(h)
      /\ detached[h] # <<>>
  BY DEF ChannelInv, LocalInv, LocalAt
<1>2. Closes(h) /\ closed[Chan(h)] /\ call[h].form = "close" /\ arm[h] = 1
  BY <1>1 DEF CallAt, CloseAt
<1>3. Chan(h) \in Channels
  <2>1. 1 \in DOMAIN Arms(h) /\ Arms(h)[1].op = "close" /\ call[h] # None
    <3>1. call[h] # None
      BY <1>1, <1>2 DEF CallAt, Closes
    <3> QED BY <1>1, <1>2, <3>1, ArmFacts
  <2> QED BY <1>1, <1>2, <2>1, AnArm DEF Chan
<1>4. DetachedAt(h, k)
  BY <1>1 DEF DetachedInv
<1>5. /\ detached[h] \in Seq(Nodes) /\ detached[h][k] \in Nodes
      /\ detached[h][k].fiber \in Fibers
  BY <1>1, DetachedType
<1>6. detached[h][k].call = calls[detached[h][k].fiber] => detached[h][k].fiber # h
  BY <1>2, <1>4 DEF DetachedAt, Closes
<1> QED BY <1>2, <1>3, <1>4, <1>5, <1>6

LEMMA VisitWaits ==
  ASSUME ChannelInv, NEW h \in Fibers, NEW k \in DOMAIN detached[h],
         NEW n, n = detached[h][k], NEW g, g = n.fiber,
         n.call = calls[g], Waits(g)
  PROVE  /\ n.arm \in DOMAIN Arms(g) /\ n.arm \in DOMAIN state[g]
         /\ Arms(g)[n.arm].channel = Chan(h)
         /\ Arms(g)[n.arm].op \in {"send", "receive"}
         /\ n.context <=> call[g].form = "select"
         /\ n = Node(g, n.arm)
<1>1. DetachedAt(h, k) /\ n \in Nodes /\ g \in Fibers
  BY VisitFacts
<1>2. PICK op \in {"send", "receive"} : OfArm(n, op, Chan(h))
  BY <1>1 DEF DetachedAt
<1>3. /\ n.arm \in DOMAIN Arms(g) /\ Arms(g)[n.arm] = [op |-> op, channel |-> Chan(h)]
      /\ n.context = (call[g].form = "select")
  BY <1>2 DEF OfArm
<1>4. n.context <=> call[g].form = "select"
  BY <1>3, Zenon
<1>5. n.arm \in DOMAIN state[g]
  BY <1>1, <1>3, RunFacts DEF Waits
<1>6. n = Node(g, n.arm)
  BY <1>1, <1>3, WaiterIsNode
<1> QED BY <1>3, <1>4, <1>5, <1>6

(* No two of them are the same, nor is one of them on a list. *)
LEMMA VisitOnce ==
  ASSUME ChannelInv, NEW h \in Fibers, NEW k \in DOMAIN detached[h],
         NEW f \in Fibers, NEW l \in DOMAIN detached[f],
         NEW n, n = detached[h][k], NEW m, m = detached[f][l], NEW g,
         n.fiber = g, m.fiber = g, n.call = calls[g], m.call = calls[g],
         Waits(g), n.arm = m.arm
  PROVE  h = f /\ k = l
<1>1. /\ Closes(h) /\ Closes(f) /\ Chan(h) = Chan(f) /\ n = m
  BY VisitFacts, VisitWaits
<1>2. h = f /\ Distinct(detached[f])
  BY <1>1 DEF ChannelInv, DetachedInv
<1> QED BY <1>1, <1>2 DEF Distinct

LEMMA OneArm ==
  ASSUME ChannelInv, NEW g \in Fibers, Waits(g), call[g].form # "select",
         NEW i \in DOMAIN Arms(g), NEW j \in DOMAIN Arms(g)
  PROVE  i = j
<1>1. call[g].form = "plain" /\ call[g] # None /\ TypeInv
  BY WaitFacts, RunFacts DEF Waits
<1>2. DOMAIN Arms(g) = 1..Len(Arms(g)) /\ Len(Arms(g)) = 1
  BY <1>1, ArmFacts
<1> QED BY <1>2

(* What remains to be shown of a visit. *)
LEMMA VisitStep ==
  ASSUME ChannelInv, NEW f \in Fibers, Closes(f), Closes(f)',
         UNCHANGED <<closed, queue, senders, receivers, lock, call, arm, calls,
                     timer, outcome>>,
         \A g \in Fibers : g # f => Still(g),
         TypeInv', LocalInv', DetachedInv', NoneRevived,
         \A g \in Fibers : \A i : i \in DOMAIN state[g] /\ state'[g][i] = "none" =>
           state[g][i] = "none",
         \A d \in Channels, n \in Nodes :
           In(senders[d], n) \/ In(receivers[d], n) =>
             /\ state'[n.fiber][n.arm] = "none"
             /\ ~n.context => wakes'[n.fiber] = 0
  PROVE  ChannelInv'
<1>0. /\ TypeInv /\ LocalInv /\ ListInv /\ ListedInv /\ LockInv /\ TriedInv /\ MeetInv
      /\ Shrinks(senders) /\ Shrinks(receivers)
  BY DEF ChannelInv, Shrinks
<1>1. ListInv'
  <2>1. ASSUME NEW d \in Channels, NEW n \in Nodes, NEW op, Waiter(n, op, d),
               In(senders[d], n) \/ In(receivers[d], n)
        PROVE  Waiter(n, op, d)'
    <3>1. n.fiber \in Fibers /\ n.fiber # f
      BY <2>1 DEF Waiter, Waits, Closes, Nodes
    <3>2. Still(n.fiber)
      BY <3>1
    <3> QED BY <2>1, <3>2 DEF Waiter, OfArm, Still, Waits, Arms
  <2> QED BY <1>0, <2>1 DEF ListInv, In, Distinct
<1>2. ListedInv'
  <2> SUFFICES ASSUME NEW g \in Fibers, Waits(g)' PROVE ListedAt(g)'
    BY DEF ListedInv
  <2>1. g # f
    BY DEF Waits, Closes
  <2>2. Still(g) /\ Waits(g) /\ ListedAt(g)
    BY <1>0, <2>1 DEF Still, Waits, ListedInv
  <2>3. /\ Arms(g)' = Arms(g) /\ (\A i : Node(g, i)' = Node(g, i))
        /\ DOMAIN state[g] = DOMAIN Arms(g)
    BY <1>0, <2>2 DEF Arms, Node, Still, Waits, LocalInv, LocalAt, CallAt
  <2> QED BY <2>2, <2>3 DEF ListedAt, In, Still
<1>3. LockInv'
  <2>1. Bystanders(f)
    BY DEF Bystanders, Still
  <2>2. KeepsLock(f)
    BY <1>0, HoldsNone DEF KeepsLock, Closes
  <2> QED BY <1>0, <2>1, <2>2, LockFrame
<1>4. TriedInv'
  <2> SUFFICES ASSUME NEW g \in Fibers PROVE TriedOf(g)'
    BY DEF TriedInv
  <2>1. CASE g = f
    BY <2>1 DEF TriedOf, Closes
  <2>2. CASE g # f
    <3>1. KeepsTried(g)
      BY <1>0, KeepsTriedFacts
    <3> QED BY <1>0, <2>2, <3>1, TriedFrame DEF Still, TriedInv
  <2> QED BY <2>1, <2>2
<1>5. MeetInv'
  BY <1>0, MeetFrame
<1> QED BY <1>1, <1>2, <1>3, <1>4, <1>5 DEF ChannelInv

LEMMA CloseMarkStep ==
  ASSUME ChannelInv, NEW f \in Fibers, CloseMark(f)
  PROVE  ChannelInv'
<1>0. /\ TypeInv /\ LocalInv /\ ListInv /\ DetachedInv
      /\ CallAt(f) /\ CloseAt(f) /\ LocalAt(f)
      /\ pc[f] = "closing" /\ detached[f] # <<>> /\ detached[f] \in Seq(Nodes)
      /\ Distinct(detached[f]) /\ DOMAIN state[f] = DOMAIN Arms(f)
  BY RunFacts DEF CloseMark, LocalAt, DetachedInv, TypeInv, CallTypes
<1>1. PICK n \in Nodes : n = Head(detached[f]) /\ n = detached[f][1] /\ 1 \in DOMAIN detached[f]
  BY <1>0, TailFacts
<1>2. /\ state' = Mark({n}, "closed") /\ pc' = [pc EXCEPT ![f] = "close wake"]
      /\ UNCHANGED <<closed, queue, senders, receivers, lock, call, arm, calls, data,
                     select, activated, wakes, timer, detached, outcome>>
  BY <1>1 DEF CloseMark, Goto, shared
<1>3. /\ state' \in [Fibers -> Seq(DeliveryStates)]
      /\ \A g \in Fibers :
           /\ DOMAIN state'[g] = DOMAIN state[g]
           /\ \A i \in DOMAIN state[g] :
                state'[g][i] = IF n.fiber = g /\ n.call = calls[g] /\ n.arm = i
                                 THEN "closed" ELSE state[g][i]
           /\ (n.fiber = g /\ n.call = calls[g]) \/ state'[g] = state[g]
  <2>1. "closed" \in DeliveryStates
    BY DEF DeliveryStates
  <2>2. PICK T : T = {n}
    OBVIOUS
  <2>3. state' = Mark(T, "closed")
    BY <1>2, <2>2
  <2>4. /\ state' \in [Fibers -> Seq(DeliveryStates)]
        /\ \A g \in Fibers :
             /\ DOMAIN state'[g] = DOMAIN state[g]
             /\ \A i \in DOMAIN state[g] :
                  state'[g][i] =
                    IF \E m \in T : m.fiber = g /\ m.call = calls[g] /\ m.arm = i
                      THEN "closed" ELSE state[g][i]
             /\ (\A m \in T : m.fiber = g => m.call # calls[g]) => state'[g] = state[g]
    BY <1>0, <2>1, <2>3, MarkFacts
  <2> QED BY <2>2, <2>4
<1>4. /\ Closes(f) /\ closed[Chan(f)] /\ DetachedAt(f, 1)
      /\ n.call = calls[n.fiber] => n.fiber # f
  BY <1>1, VisitFacts
<1>5. TypeInv'
  <2>1. ListTypes' /\ WaitingTypes'
    BY <1>0, <1>2, <1>3 DEF TypeInv, ListTypes, WaitingTypes
  <2>2. CallTypes'
    <3>1. "close wake" \in Steps
      BY DEF Steps
    <3> QED BY <1>0, <1>2, <3>1 DEF TypeInv, CallTypes
  <2> QED BY <2>1, <2>2 DEF TypeInv
<1>6. /\ pc'[f] = "close wake" /\ Arms(f)' = Arms(f) /\ Chan(f)' = Chan(f)
      /\ state'[f] = state[f]
      /\ \A g \in Fibers : Unwoken(g) /\ (g # f => Still(g))
  BY <1>0, <1>2, <1>3, <1>4 DEF Arms, Chan, Unwoken, Still, TypeInv, CallTypes
<1>7. LocalInv'
  <2>1. ASSUME NEW g \in Fibers, g # f PROVE LocalAt(g)'
    <3>1. pc[g] \notin {"return", "parked", "unwait"} => state'[g] = state[g]
      <4> SUFFICES ASSUME pc[g] \notin {"return", "parked", "unwait"},
                          state'[g] # state[g]
                   PROVE  FALSE
        OBVIOUS
      <4>1. n.fiber = g /\ n.call = calls[g]
        BY <1>3
      <4>2. pc[g] = "idle"
        BY <1>1, <1>4, <4>1 DEF DetachedAt
      <4>3. state[g] = <<>>
        BY <1>0, <4>2 DEF LocalInv, LocalAt, CallAt
      <4>4. state'[g] \in Seq(DeliveryStates) /\ DOMAIN state'[g] = {}
        BY <1>3, <4>3
      <4> QED BY <4>3, <4>4, NoElements
    <3>2. \A i \in DOMAIN state[g] : state[g][i] # "none" => state'[g][i] # "none"
      BY <1>3
    <3> QED BY <1>0, <1>2, <1>3, <1>6, <2>1, <3>1, <3>2, DeliveredLocal DEF LocalInv
  <2>2. CallAt(f)'
    BY <1>0, <1>2, <1>6 DEF CallAt, Waits, Closes
  <2>3. LocalAt(f)'
    BY <1>0, <1>2, <1>4, <1>6, <2>2 DEF LocalAt, CloseAt, PlainAt, SelectAt, Waits
  <2> QED BY <2>1, <2>3 DEF LocalInv
<1>8. NoneRevived
  BY <1>2 DEF NoneRevived, Live
<1>9. ASSUME NEW h \in Fibers, NEW k \in DOMAIN detached[h] PROVE DetachedAt(h, k)'
  <2>1. PICK m \in Nodes : m = detached[h][k]
    BY VisitFacts
  <2>2. PICK g \in Fibers : g = m.fiber
    BY <2>1 DEF Nodes
  <2>3. DetachedAt(h, k) /\ Closes(h)
    BY VisitFacts
  <2>4. /\ m.call <= calls[g]
        /\ m.call = calls[g] => pc[g] \in {"idle", "return", "parked", "unwait"}
        /\ m.call = calls[g] /\ Waits(g) =>
             /\ \/ OfArm(m, "send", Chan(h))
                \/ OfArm(m, "receive", Chan(h)) /\ (Live(m) => queue[Chan(h)] = <<>>)
             /\ state[g][m.arm] = IF k = 1 /\ pc[h] = "close wake" THEN "closed"
                                  ELSE "none"
        /\ ~m.context => m.call = calls[g] /\ pc[g] = "parked" /\ wakes[g] = 0
    BY <2>1, <2>2, <2>3 DEF DetachedAt
  <2>5. /\ detached'[h][k] = m /\ Chan(h)' = Chan(h) /\ calls' = calls
        /\ wakes' = wakes /\ queue' = queue /\ Live(m)' = Live(m)
        /\ \A p, d : OfArm(m, p, d)' = OfArm(m, p, d)
    BY <1>2, <2>1 DEF Chan, Arms, Live, OfArm
  <2>6. m.call = calls[g] => g # f /\ pc'[g] = pc[g]
    BY <1>0, <1>6, <2>4 DEF Still
  <2>7. m.call = calls[g] /\ Waits(g) =>
          state'[g][m.arm] = IF k = 1 /\ pc'[h] = "close wake" THEN "closed" ELSE "none"
    <3> SUFFICES ASSUME m.call = calls[g], Waits(g)
                 PROVE  state'[g][m.arm] = IF k = 1 /\ pc'[h] = "close wake"
                                             THEN "closed" ELSE "none"
      OBVIOUS
    <3>1. m.arm \in DOMAIN state[g]
      BY <2>1, <2>2, VisitWaits
    <3>2. CASE n.fiber = g /\ n.call = calls[g] /\ n.arm = m.arm
      <4>1. h = f /\ k = 1
        BY <1>1, <2>1, <2>2, <3>2, VisitOnce
      <4> QED BY <1>3, <1>6, <3>1, <3>2, <4>1
    <3>3. CASE ~(n.fiber = g /\ n.call = calls[g] /\ n.arm = m.arm)
      <4>1. state'[g][m.arm] = state[g][m.arm]
        BY <1>3, <3>1, <3>3
      <4>2. h # f => pc'[h] = pc[h]
        BY <1>6 DEF Still
      <4>3. h = f => k # 1
        BY <1>1, <2>1, <2>2, <3>3
      <4> QED BY <2>4, <4>1, <4>2, <4>3
    <3> QED BY <3>2, <3>3
  <2>8. Waits(g)' /\ m.call = calls[g] => Waits(g)
    BY <2>6 DEF Waits
  <2>9. ~m.context => m.call = calls[g] /\ pc'[g] = "parked" /\ wakes[g] = 0
    BY <2>4, <2>6
  <2> QED BY <2>2, <2>4, <2>5, <2>6, <2>7, <2>8, <2>9 DEF DetachedAt
<1>10. DetachedInv'
  <2>1. \A h \in Fibers : Closes(h)' = Closes(h) /\ Chan(h)' = Chan(h)
    <3> TAKE h \in Fibers
    <3>1. Closes(f)' = Closes(f) /\ Chan(f)' = Chan(f)
      BY <1>4, <1>6 DEF Closes
    <3>2. h # f => Closes(h)' = Closes(h) /\ Chan(h)' = Chan(h)
      BY <1>6 DEF Closes, Still, Chan, Arms
    <3> QED BY <3>1, <3>2
  <2> QED BY <1>0, <1>2, <1>9, <2>1 DEF DetachedInv, Distinct
<1>11. ASSUME NEW d \in Channels, NEW m \in Nodes, In(senders[d], m) \/ In(receivers[d], m)
       PROVE  state'[m.fiber][m.arm] = "none" /\ (~m.context => wakes'[m.fiber] = 0)
  <2>1. PICK op \in {"send", "receive"} :
          Waiter(m, op, d) /\ ~closed[d] /\ m.fiber \in Fibers
    <3>1. ListOf("send", d, senders[d]) /\ ListOf("receive", d, receivers[d])
      BY DEF ListOf
    <3> QED BY <1>11, <3>1, OnList
  <2>2. /\ m.arm \in DOMAIN Arms(m.fiber) /\ Arms(m.fiber)[m.arm].channel = d
        /\ m.arm \in DOMAIN state[m.fiber] /\ Waits(m.fiber)
        /\ state[m.fiber][m.arm] = "none" /\ (~m.context => wakes[m.fiber] = 0)
    BY <1>0, <2>1 DEF Waiter, OfArm, LocalInv, LocalAt, CallAt, Waits
  <2>3. ~(n.fiber = m.fiber /\ n.call = calls[m.fiber] /\ n.arm = m.arm)
    <3> SUFFICES ASSUME n.fiber = m.fiber, n.call = calls[m.fiber], n.arm = m.arm
                 PROVE  FALSE
      OBVIOUS
    <3>1. Arms(m.fiber)[n.arm].channel = Chan(f)
      BY <1>1, <2>2, VisitWaits
    <3> QED BY <1>4, <2>1, <2>2, <3>1
  <2> QED BY <1>2, <1>3, <2>1, <2>2, <2>3
<1>12. /\ Closes(f)' /\ \A g \in Fibers : \A i : i \in DOMAIN state[g] /\ state'[g][i] = "none" =>
                          state[g][i] = "none"
  BY <1>3, <1>6 DEF Closes
<1> QED BY <1>2, <1>4, <1>5, <1>6, <1>7, <1>8, <1>10, <1>11, <1>12, VisitStep

LEMMA CloseWakeStep ==
  ASSUME ChannelInv, NEW f \in Fibers, CloseWake(f)
  PROVE  ChannelInv'
<1>0. /\ TypeInv /\ LocalInv /\ ListInv /\ DetachedInv
      /\ CallAt(f) /\ CloseAt(f) /\ LocalAt(f)
      /\ pc[f] = "close wake" /\ detached[f] # <<>> /\ detached[f] \in Seq(Nodes)
      /\ Distinct(detached[f]) /\ DOMAIN state[f] = DOMAIN Arms(f)
  <2>1. /\ TypeInv /\ LocalInv /\ ListInv /\ DetachedInv /\ pc[f] = "close wake"
        /\ CallAt(f) /\ LocalAt(f) /\ DOMAIN state[f] = DOMAIN Arms(f)
    BY RunFacts DEF CloseWake
  <2>2. CloseAt(f) /\ detached[f] # <<>>
    BY <2>1 DEF LocalAt, CloseAt, Closes
  <2> QED BY <2>1, <2>2 DEF DetachedInv, TypeInv, CallTypes
<1>1. PICK n \in Nodes : n = Head(detached[f]) /\ n = detached[f][1] /\ 1 \in DOMAIN detached[f]
  BY <1>0, TailFacts
<1>2. /\ pc' = [pc EXCEPT ![f] = "closing"]
      /\ detached' = [detached EXCEPT ![f] = Tail(detached[f])]
      /\ UNCHANGED <<closed, queue, senders, receivers, lock, call, arm, calls,
                     state, data, timer, outcome>>
      /\ IF Live(n) THEN /\ Trigger(n)
                         /\ wakes' = [wakes EXCEPT ![n.fiber] = wakes[n.fiber] + 1]
         ELSE UNCHANGED <<select, activated, wakes>>
  BY <1>1 DEF CloseWake, Goto, shared
<1>3. /\ Closes(f) /\ closed[Chan(f)] /\ DetachedAt(f, 1)
      /\ n.call = calls[n.fiber] => n.fiber # f
  BY <1>1, VisitFacts
<1> PICK w \in Fibers : w = n.fiber
  BY <1>1 DEF Nodes
(* The node that wakes a fiber is marked, and of a call that waits. *)
<1>4. Live(n) =>
        /\ n.call = calls[w] /\ Waits(w) /\ w # f
        /\ n.arm \in DOMAIN Arms(w) /\ Arms(w)[n.arm].channel = Chan(f)
        /\ Arms(w)[n.arm].op # "timeout" /\ state[w][n.arm] = "closed"
        /\ n.context <=> call[w].form = "select"
        /\ IF call[w].form = "select" THEN select[w] = "active" ELSE wakes[w] = 0
  <2> SUFFICES ASSUME Live(n)
               PROVE  /\ n.call = calls[w] /\ Waits(w) /\ w # f
                      /\ n.arm \in DOMAIN Arms(w) /\ Arms(w)[n.arm].channel = Chan(f)
                      /\ Arms(w)[n.arm].op # "timeout" /\ state[w][n.arm] = "closed"
                      /\ n.context <=> call[w].form = "select"
                      /\ IF call[w].form = "select" THEN select[w] = "active"
                         ELSE wakes[w] = 0
    OBVIOUS
  <2>1. /\ n.call = calls[w] /\ pc[w] = "parked"
        /\ IF n.context THEN select[w] = "active" ELSE wakes[w] = 0
    <3>1. CASE n.context
      <4>1. n.call = calls[w] /\ select[w] = "active"
        BY <3>1 DEF Live
      <4> QED BY <1>0, <3>1, <4>1 DEF LocalInv, LocalAt, CallAt
    <3>2. CASE ~n.context
      BY <1>1, <1>3, <3>2 DEF DetachedAt
    <3> QED BY <3>1, <3>2
  <2>2. Waits(w) /\ w # f
    BY <1>0, <2>1 DEF Waits
  <2>3. /\ n.arm \in DOMAIN Arms(w) /\ Arms(w)[n.arm].channel = Chan(f)
        /\ Arms(w)[n.arm].op \in {"send", "receive"}
        /\ n.context <=> call[w].form = "select"
    BY <1>1, <2>1, <2>2, VisitWaits
  <2>4. state[w][n.arm] = "closed"
    BY <1>0, <1>1, <1>3, <2>1, <2>2 DEF DetachedAt
  <2> QED BY <2>1, <2>2, <2>3, <2>4
<1>5. /\ select' \in [Fibers -> {"none", "active", "done"}]
      /\ activated' \in [Fibers -> Nat] /\ wakes' \in [Fibers -> Nat]
      /\ \A g \in Fibers : Unwoken(g) \/ (Live(n) /\ g = w /\ Woken(w, n.arm))
  <2>1. CASE ~Live(n)
    BY <1>0, <1>2, <2>1 DEF Unwoken, TypeInv, WaitingTypes
  <2>2. CASE Live(n)
    <3>1. /\ wakes' \in [Fibers -> Nat] /\ wakes'[w] = wakes[w] + 1
          /\ \A g \in Fibers : g # w => wakes'[g] = wakes[g]
      <4>1. wakes' = [wakes EXCEPT ![w] = wakes[w] + 1] /\ wakes[w] + 1 \in Nat
        <5>1. wakes[w] \in Nat
          BY <1>0 DEF TypeInv, WaitingTypes
        <5>2. wakes' = [wakes EXCEPT ![n.fiber] = wakes[n.fiber] + 1]
          BY <1>2, <2>2
        <5> QED BY <5>1, <5>2
      <4> QED BY <1>0, <4>1 DEF TypeInv, WaitingTypes
    <3>2. state'[w][n.arm] # "none" /\ Trigger(n) /\ n.arm \in Nat
      BY <1>1, <1>2, <1>4, <2>2 DEF Nodes
    <3>3. CASE n.context
      <4>1. /\ select' = [select EXCEPT ![w] = "done"]
            /\ activated' = [activated EXCEPT ![w] = n.arm]
        BY <3>2, <3>3 DEF Trigger
      <4>2. /\ select' \in [Fibers -> {"none", "active", "done"}] /\ select'[w] = "done"
            /\ activated' \in [Fibers -> Nat] /\ activated'[w] = n.arm
            /\ \A g \in Fibers : g # w =>
                 select'[g] = select[g] /\ activated'[g] = activated[g]
        BY <1>0, <3>2, <4>1 DEF TypeInv, WaitingTypes
      <4>3. Woken(w, n.arm)
        BY <1>4, <2>2, <3>1, <3>2, <3>3, <4>2 DEF Woken
      <4> QED BY <1>2, <2>2, <3>1, <4>2, <4>3 DEF Unwoken
    <3>4. CASE ~n.context
      <4>1. UNCHANGED <<select, activated>>
        BY <3>2, <3>4 DEF Trigger
      <4>2. Woken(w, n.arm)
        BY <1>4, <2>2, <3>1, <3>2, <3>4, <4>1 DEF Woken
      <4> QED BY <1>0, <1>2, <2>2, <3>1, <4>1, <4>2 DEF Unwoken, TypeInv, WaitingTypes
    <3> QED BY <3>3, <3>4
  <2> QED BY <2>1, <2>2
<1>6. /\ Tail(detached[f]) \in Seq(Nodes) /\ Distinct(Tail(detached[f]))
      /\ \A k \in DOMAIN Tail(detached[f]) :
           /\ k + 1 \in DOMAIN detached[f] /\ k + 1 # 1
           /\ Tail(detached[f])[k] = detached[f][k + 1]
  BY <1>0, TailFacts
<1>7. TypeInv'
  <2>1. ListTypes' /\ WaitingTypes'
    BY <1>0, <1>2, <1>5 DEF TypeInv, ListTypes, WaitingTypes
  <2>2. CallTypes'
    <3>1. "closing" \in Steps
      BY DEF Steps
    <3> QED BY <1>0, <1>2, <1>6, <3>1 DEF TypeInv, CallTypes
  <2> QED BY <2>1, <2>2 DEF TypeInv
<1>8. /\ pc'[f] = "closing" /\ Arms(f)' = Arms(f) /\ Chan(f)' = Chan(f)
      /\ Unwoken(f) /\ detached'[f] = Tail(detached[f])
      /\ \A g \in Fibers : g # f => Still(g)
  <2>1. Unwoken(f)
    BY <1>4, <1>5
  <2> QED BY <1>0, <1>2, <2>1 DEF Arms, Chan, Still, TypeInv, CallTypes
<1>9. LocalInv'
  <2>1. ASSUME NEW g \in Fibers, g # f PROVE LocalAt(g)'
    <3>1. Unwoken(g) \/ \E i \in DOMAIN Arms(g) : Woken(g, i)
      BY <1>4, <1>5
    <3> QED BY <1>0, <1>2, <1>8, <2>1, <3>1, DeliveredLocal DEF LocalInv
  <2>2. CallAt(f)'
    BY <1>0, <1>2, <1>8 DEF CallAt, Waits, Closes, Unwoken
  <2>3. LocalAt(f)'
    BY <1>0, <1>2, <1>3, <1>8, <2>2 DEF LocalAt, CloseAt, PlainAt, SelectAt, Waits
  <2> QED BY <2>1, <2>3 DEF LocalInv
<1>10. NoneRevived
  <2>1. \A g \in Fibers : select'[g] = "active" => select[g] = "active"
    BY <1>4, <1>5 DEF Unwoken, Woken
  <2> SUFFICES ASSUME NEW m \in Nodes, m.context, m.call = calls'[m.fiber],
                      select'[m.fiber] = "active"
               PROVE  m.call = calls[m.fiber] /\ select[m.fiber] = "active"
    BY DEF NoneRevived, Live
  <2> QED BY <1>2, <2>1 DEF Nodes
(* A plain call waits with one node, which is not the one that woke it. *)
<1>11. ASSUME NEW g \in Fibers, Waits(g), call[g].form # "select",
              NEW i \in DOMAIN Arms(g), wakes'[g] # wakes[g]
       PROVE  Live(n) /\ g = w /\ n.arm = i /\ Arms(g)[i].channel = Chan(f)
  <2>1. Live(n) /\ g = w
    BY <1>5, <1>11 DEF Unwoken
  <2>2. n.arm = i
    BY <1>4, <1>11, <2>1, OneArm
  <2> QED BY <1>4, <2>1, <2>2
<1>12. ASSUME NEW h \in Fibers, NEW k \in DOMAIN detached[h],
              NEW l \in DOMAIN detached'[h], detached'[h][l] = detached[h][k],
              h = f => k # 1, h # f => l = k
       PROVE  DetachedAt(h, l)'
  <2>1. PICK m \in Nodes : m = detached[h][k]
    BY VisitFacts
  <2>2. PICK g \in Fibers : g = m.fiber
    BY <2>1 DEF Nodes
  <2>3. DetachedAt(h, k) /\ Closes(h)
    BY VisitFacts
  <2>4. /\ m.call <= calls[g]
        /\ m.call = calls[g] => pc[g] \in {"idle", "return", "parked", "unwait"}
        /\ m.call = calls[g] /\ Waits(g) =>
             /\ \/ OfArm(m, "send", Chan(h))
                \/ OfArm(m, "receive", Chan(h)) /\ (Live(m) => queue[Chan(h)] = <<>>)
             /\ state[g][m.arm] = IF k = 1 /\ pc[h] = "close wake" THEN "closed"
                                  ELSE "none"
        /\ ~m.context => m.call = calls[g] /\ pc[g] = "parked" /\ wakes[g] = 0
    BY <2>1, <2>2, <2>3 DEF DetachedAt
  <2>5. /\ detached'[h][l] = m /\ Chan(h)' = Chan(h) /\ calls' = calls
        /\ state' = state /\ queue' = queue /\ (Live(m)' => Live(m))
        /\ \A p, d : OfArm(m, p, d)' = OfArm(m, p, d)
    BY <1>2, <1>10, <1>12, <2>1 DEF Chan, Arms, OfArm, NoneRevived
  <2>6. m.call = calls[g] => g # f /\ pc'[g] = pc[g]
    BY <1>0, <1>8, <2>4 DEF Still
  <2>7. m.call = calls[g] /\ Waits(g) =>
          state'[g][m.arm] = IF l = 1 /\ pc'[h] = "close wake" THEN "closed" ELSE "none"
    <3>1. h = f => pc'[h] = "closing"
      BY <1>8
    <3>2. h # f => pc'[h] = pc[h]
      BY <1>8 DEF Still
    <3> QED BY <1>12, <2>4, <2>5, <3>1, <3>2
  <2>8. Waits(g)' /\ m.call = calls[g] => Waits(g)
    BY <2>6 DEF Waits
  <2>9. ~m.context => m.call = calls[g] /\ pc'[g] = "parked" /\ wakes'[g] = 0
    <3> SUFFICES ASSUME ~m.context, wakes'[g] # wakes[g] PROVE FALSE
      BY <2>4, <2>6
    <3>1. m.call = calls[g] /\ Waits(g)
      BY <2>4 DEF Waits
    <3>2. m.arm \in DOMAIN Arms(g) /\ call[g].form # "select"
      BY <2>1, <2>2, <3>1, VisitWaits
    <3>3. g = w /\ n.arm = m.arm /\ n.call = calls[g]
      BY <1>4, <1>11, <3>1, <3>2
    <3>4. h = f /\ k = 1
      <4>1. /\ m = detached[h][k] /\ n = detached[f][1] /\ 1 \in DOMAIN detached[f]
            /\ m.fiber = g /\ n.fiber = g /\ m.call = calls[g] /\ n.call = calls[g]
            /\ m.arm = n.arm /\ Waits(g)
        BY <1>1, <2>1, <2>2, <3>1, <3>3
      <4> QED BY <4>1, VisitOnce
    <3> QED BY <1>12, <3>4
  <2> QED BY <2>2, <2>4, <2>5, <2>6, <2>7, <2>8, <2>9 DEF DetachedAt
<1>13. DetachedInv'
  <2>1. \A h \in Fibers : Closes(h)' = Closes(h) /\ Chan(h)' = Chan(h)
    <3> TAKE h \in Fibers
    <3>1. Closes(f)' = Closes(f) /\ Chan(f)' = Chan(f)
      BY <1>3, <1>8 DEF Closes
    <3>2. h # f => Closes(h)' = Closes(h) /\ Chan(h)' = Chan(h)
      BY <1>8 DEF Closes, Still, Chan, Arms
    <3> QED BY <3>1, <3>2
  <2>2. ASSUME NEW h \in Fibers
        PROVE  Distinct(detached'[h]) /\ \A k \in DOMAIN detached'[h] : DetachedAt(h, k)'
    <3>1. CASE h = f
      <4>1. ASSUME NEW k \in DOMAIN detached'[f] PROVE DetachedAt(f, k)'
        <5>1. /\ k + 1 \in DOMAIN detached[f] /\ k + 1 # 1
              /\ detached'[f][k] = detached[f][k + 1]
          BY <1>6, <1>8
        <5> QED BY <1>12, <5>1
      <4> QED BY <1>6, <1>8, <3>1, <4>1
    <3>2. CASE h # f
      <4>1. detached'[h] = detached[h] /\ Distinct(detached[h])
        BY <1>0, <1>8, <3>2 DEF Still, DetachedInv
      <4> QED BY <1>12, <3>2, <4>1
    <3> QED BY <3>1, <3>2
  <2> QED BY <1>0, <2>1, <2>2 DEF DetachedInv, Distinct
<1>14. ASSUME NEW d \in Channels, NEW m \in Nodes, In(senders[d], m) \/ In(receivers[d], m)
       PROVE  state'[m.fiber][m.arm] = "none" /\ (~m.context => wakes'[m.fiber] = 0)
  <2>1. PICK op \in {"send", "receive"} :
          Waiter(m, op, d) /\ ~closed[d] /\ m.fiber \in Fibers
    <3>1. ListOf("send", d, senders[d]) /\ ListOf("receive", d, receivers[d])
      BY DEF ListOf
    <3> QED BY <1>14, <3>1, OnList
  <2>2. /\ m.arm \in DOMAIN Arms(m.fiber) /\ Arms(m.fiber)[m.arm].channel = d
        /\ Waits(m.fiber) /\ m.context = (call[m.fiber].form = "select")
        /\ state[m.fiber][m.arm] = "none" /\ (~m.context => wakes[m.fiber] = 0)
    BY <2>1 DEF Waiter, OfArm
  <2>3. m.context <=> call[m.fiber].form = "select"
    BY <2>2, Zenon
  <2>4. ~m.context => wakes'[m.fiber] = wakes[m.fiber]
    BY <1>3, <1>11, <2>1, <2>2, <2>3
  <2> QED BY <1>2, <2>2, <2>4
<1>15. Closes(f)'
  BY <1>8 DEF Closes
<1> QED BY <1>2, <1>3, <1>7, <1>8, <1>9, <1>10, <1>13, <1>14, <1>15, VisitStep

-----------------------------------------------------------------------------
(* The invariant of the channel. *)

LEMMA InitInv == Init => ChannelInv
<1> SUFFICES ASSUME Init PROVE ChannelInv
  OBVIOUS
<1>1. TypeInv
  <2>1. <<>> \in Seq(Nodes) /\ <<>> \in Seq(Ids) /\ <<>> \in Seq(DeliveryStates)
    OBVIOUS
  <2>2. ListTypes
    BY <2>1 DEF Init, ListTypes
  <2>3. CallTypes
    BY <2>1 DEF Init, CallTypes, Steps, Outcomes, NoOutcome, DeliveryStates
  <2>4. WaitingTypes
    BY <2>1 DEF Init, WaitingTypes
  <2> QED BY <2>2, <2>3, <2>4 DEF TypeInv
<1>2. \A f \in Fibers :
        /\ pc[f] = "idle" /\ call[f] = None /\ state[f] = <<>> /\ data[f] = None
        /\ select[f] = "none" /\ activated[f] = 0 /\ wakes[f] = 0 /\ timer[f] = 0
        /\ detached[f] = <<>>
  BY DEF Init
<1>3. LocalInv
  <2> SUFFICES ASSUME NEW f \in Fibers PROVE LocalAt(f)
    BY DEF LocalInv
  <2>1. DOMAIN state[f] = {}
    BY <1>2
  <2>2. CallAt(f)
    BY <1>2, <2>1 DEF CallAt, Waits, Closes
  <2> QED BY <1>2, <2>2 DEF LocalAt, CloseAt, PlainAt, SelectAt, Waits, Closes
<1>4. \A c \in Channels : /\ senders[c] = <<>> /\ receivers[c] = <<>> /\ queue[c] = <<>>
                          /\ lock[c] = None
  BY DEF Init
<1>5. ListInv
  BY <1>4 DEF ListInv, In, Distinct
<1>6. ListedInv /\ TriedInv
  BY <1>2 DEF ListedInv, TriedInv, TriedOf, Waits
<1>7. DetachedInv
  <2>0. ASSUME NEW f \in Fibers  PROVE DOMAIN detached[f] = {} /\ ~Closes(f)
    <3>1. detached[f] = << >> /\ pc[f] = "idle"
      BY <1>2
    <3>2. DOMAIN detached[f] = {}
      BY <3>1
    <3>3. ~Closes(f)
      BY <3>1 DEF Closes
    <3> QED BY <3>2, <3>3
  <2>1. \A f \in Fibers : DOMAIN detached[f] = {} /\ ~Closes(f)
    BY <2>0
  <2> QED BY <2>1 DEF DetachedInv, Distinct
<1>8. LockInv
  BY <1>4 DEF LockInv
<1>9. MeetInv
  <2>1. \A c \in Channels : Capacity[c] \in Nat
    BY ChannelAssumption
  <2> QED BY <1>4, <2>1 DEF MeetInv, SomeLive, In
<1> QED BY <1>1, <1>3, <1>5, <1>6, <1>7, <1>8, <1>9 DEF ChannelInv

LEMMA StutterStep ==
  ASSUME ChannelInv, UNCHANGED vars
  PROVE  ChannelInv'
<1>0. UNCHANGED <<closed, queue, senders, receivers, lock, pc, call, arm, calls, state,
                  data, select, activated, timer, wakes, detached, outcome>>
  BY DEF vars, shared, waiting
<1>1. TypeInv'
  BY <1>0 DEF ChannelInv, TypeInv, ListTypes, CallTypes, WaitingTypes
<1>2. /\ TypeInv /\ LocalInv /\ ListInv /\ ListedInv /\ DetachedInv
      /\ LockInv /\ TriedInv /\ MeetInv /\ \A g \in Fibers : Same(g)
  BY <1>0 DEF ChannelInv, Same
<1>8. LocalInv'
  BY <1>0, <1>2, LocalFrame DEF LocalInv
<1>3. ListInv'
  BY <1>0 DEF ChannelInv, ListInv, In, Waiter, OfArm, Arms, Waits, Distinct
<1>4. ListedInv'
  BY <1>0 DEF ChannelInv, ListedInv, ListedAt, In, Node, Arms, Waits
<1>5. DetachedInv'
  <2>1. ASSUME NEW h \in Fibers, NEW k \in DOMAIN detached[h] PROVE DetachedAt(h, k)'
    <3>1. DetachedAt(h, k) /\ detached[h][k].fiber \in Fibers
      BY <1>2, DetachedType DEF DetachedInv
    <3> QED BY <1>0, <1>2, <3>1, DetachedFrame
  <2> QED BY <1>0, <1>2, <2>1 DEF DetachedInv, Distinct, Closes, Chan, Arms
<1>6. LockInv' /\ TriedInv'
  <2>1. LockInv'
    BY <1>0, <1>2 DEF LockInv, ChannelsOf, Arms
  <2>2. NoneRevived /\ Shrinks(senders) /\ Shrinks(receivers)
    BY <1>0 DEF NoneRevived, Live, Shrinks
  <2>3. ASSUME NEW g \in Fibers PROVE TriedOf(g)'
    <3>1. KeepsTried(g)
      BY <1>0, <1>1, <1>2, <2>2, KeepsTriedFacts
    <3> QED BY <1>2, <3>1, TriedFrame DEF Same, TriedInv
  <2> QED BY <2>1, <2>3 DEF TriedInv
<1>7. MeetInv'
  BY <1>0 DEF ChannelInv, MeetInv, SomeLive, Live, In
<1> QED BY <1>1, <1>3, <1>4, <1>5, <1>6, <1>7, <1>8 DEF ChannelInv

LEMMA InductiveStep == ChannelInv /\ [Next]_vars => ChannelInv'
<1> SUFFICES ASSUME ChannelInv, [Next]_vars PROVE ChannelInv'
  OBVIOUS
<1>1. ASSUME NEW f \in Fibers, NEW c \in Calls, Begin(f, c) PROVE ChannelInv'
  BY <1>1, BeginStep
<1>2. ASSUME NEW f \in Fibers, Step(f) PROVE ChannelInv'
  <2>1. CASE Lock(f)           BY <2>1, LockStep
  <2>2. CASE ExecuteSend(f)    BY <2>2, ExecuteSendStep
  <2>3. CASE ExecuteReceive(f) BY <2>3, ExecuteReceiveStep
  <2>4. CASE ExecuteTimeout(f) BY <2>4, ExecuteTimeoutStep
  <2>5. CASE NotReady(f)       BY <2>5, NotReadyStep
  <2>6. CASE Wait(f)           BY <2>6, WaitStep
  <2>7. CASE Resume(f)         BY <2>7, ResumeStep
  <2>8. CASE Unwait(f)         BY <2>8, UnwaitStep
  <2>9. CASE UnwaitTimeout(f)  BY <2>9, UnwaitTimeoutStep
  <2>10. CASE Result(f)        BY <2>10, ResultStep
  <2>11. CASE Return(f)        BY <2>11, ReturnStep
  <2>12. CASE ExecuteClose(f)  BY <2>12, ExecuteCloseStep
  <2>13. CASE CloseMark(f)     BY <2>13, CloseMarkStep
  <2>14. CASE CloseWake(f)     BY <2>14, CloseWakeStep
  <2>15. CASE CloseDone(f)     BY <2>15, CloseDoneStep
  <2> QED BY <1>2, <2>1, <2>2, <2>3, <2>4, <2>5, <2>6, <2>7, <2>8, <2>9, <2>10, <2>11,
             <2>12, <2>13, <2>14, <2>15 DEF Step
<1>3. ASSUME NEW f \in Fibers, Expire(f) PROVE ChannelInv'
  BY <1>3, ExpireStep
<1>4. CASE UNCHANGED vars
  BY <1>4, StutterStep
<1> QED BY <1>1, <1>2, <1>3, <1>4 DEF Next

-----------------------------------------------------------------------------
(* What senders, receivers, closes, timeouts and selects may rely on.      *)

(* The types, what each step of a call says of it, where its nodes are,    *)
(* what a close has still to visit, what the locks protect and what a call *)
(* has tried in vain (send_internal, receive_internal, select_impl, close, *)
(* time_expired) hold together, whatever the fibers interleave.            *)
THEOREM ChannelInvariant == Spec => []ChannelInv
<1>1. Init => ChannelInv
  BY InitInv
<1>2. ChannelInv /\ [Next]_vars => ChannelInv'
  BY InductiveStep
<1> QED BY <1>1, <1>2, PTL DEF Spec

(* A fiber is enqueued once, and only while it is suspended: of a sender,  *)
(* a receiver, a close and a timeout that race for a waiting call, one     *)
(* wins its context (SelectContext.try_trigger), or takes its node.        *)
THEOREM EnqueuedOnce == Spec => []WokenOnce
<1>1. ChannelInv => WokenOnce
  <2> SUFFICES ASSUME ChannelInv, NEW f \in Fibers
               PROVE  wakes[f] = 0 \/ (wakes[f] = 1 /\ pc[f] = "parked")
    BY DEF WokenOnce
  <2>1. CASE pc[f] = "parked"
    <3>1. PlainAt(f) /\ SelectAt(f) /\ Waits(f)
      BY <2>1, WaitFacts DEF Waits
    <3> QED BY <2>1, <3>1 DEF PlainAt, SelectAt
  <2>2. CASE pc[f] # "parked"
    BY <2>2 DEF ChannelInv, LocalInv, LocalAt, CallAt
  <2> QED BY <2>1, <2>2
<1> QED BY <1>1, ChannelInvariant, PTL

(* No send, receive or select raises "BUG: Fiber was awaken without        *)
(* channel delivery state set" or "BUG: ... no action was activated".      *)
THEOREM AwakenedForAReason == Spec => []WokenForAReason
<1>1. ChannelInv => WokenForAReason
  <2> SUFFICES ASSUME ChannelInv, NEW f \in Fibers
               PROVE  /\ pc[f] = "return" => outcome[f].state # "none"
                      /\ pc[f] = "parked" /\ wakes[f] > 0 =>
                           IF call[f].form = "plain" THEN state[f][1] # "none"
                           ELSE /\ activated[f] # 0
                                /\ Arms(f)[activated[f]].op # "timeout" =>
                                     state[f][activated[f]] # "none"
    BY DEF WokenForAReason
  <2>1. pc[f] = "return" => outcome[f].state # "none"
    BY DEF ChannelInv, LocalInv, LocalAt, CallAt
  <2>2. ASSUME pc[f] = "parked", wakes[f] > 0
        PROVE  IF call[f].form = "plain" THEN state[f][1] # "none"
               ELSE /\ activated[f] # 0
                    /\ Arms(f)[activated[f]].op # "timeout" =>
                         state[f][activated[f]] # "none"
    <3>1. /\ PlainAt(f) /\ SelectAt(f) /\ Waits(f) /\ wakes[f] \in Nat
          /\ DOMAIN Arms(f) = 1..Len(Arms(f)) /\ Len(Arms(f)) \in Nat
      BY <2>2, WaitFacts, RunFacts DEF Waits
    <3> QED BY <2>2, <3>1 DEF PlainAt, SelectAt
  <2> QED BY <2>1, <2>2
<1> QED BY <1>1, ChannelInvariant, PTL

(* A node that a channel or a close still holds is of a call that waits:   *)
(* the stack frame of a plain send or receive outlives its node, and       *)
(* unwait_impl deletes a node only from the list it is on.                 *)
THEOREM NodesOutlived == Spec => []NoDanglingNode
<1> DEFINE OfWaiter(n) == n.call = calls[n.fiber] /\ pc[n.fiber] \in {"parked", "unwait"}
<1>1. ASSUME ChannelInv, NEW n \in Nodes, NEW op, NEW c, Waiter(n, op, c)
      PROVE  OfWaiter(n) /\ (n.context \/ (pc[n.fiber] = "parked" /\ wakes[n.fiber] = 0))
  <2>1. n.fiber \in Fibers /\ Waits(n.fiber)
    BY <1>1 DEF Waiter, Nodes
  <2>2. PlainAt(n.fiber) /\ call[n.fiber].form \in {"plain", "select"}
    BY <1>1, <2>1, WaitFacts
  <2>3. n.context = (call[n.fiber].form = "select")
    BY <1>1 DEF Waiter, OfArm
  <2>4. n.context <=> call[n.fiber].form = "select"
    BY <2>3, Zenon
  <2> QED BY <1>1, <2>1, <2>2, <2>4 DEF Waiter, Waits, PlainAt
<1>2. ASSUME ChannelInv, NEW c \in Channels, NEW n \in Values(senders[c]) \cup Values(receivers[c])
      PROVE  OfWaiter(n) /\ (n.context \/ (pc[n.fiber] = "parked" /\ wakes[n.fiber] = 0))
  <2>1. In(senders[c], n) \/ In(receivers[c], n)
    BY <1>2 DEF Values, In
  <2>2. ListOf("send", c, senders[c]) /\ ListOf("receive", c, receivers[c])
    BY DEF ListOf
  <2>3. \E op : n \in Nodes /\ Waiter(n, op, c)
    BY <1>2, <2>1, <2>2, OnList
  <2> HIDE DEF OfWaiter
  <2> QED BY <1>1, <1>2, <2>3
<1>3. ASSUME ChannelInv, NEW f \in Fibers, NEW n \in Values(detached[f])
      PROVE  n.context \/ (OfWaiter(n) /\ pc[n.fiber] = "parked" /\ wakes[n.fiber] = 0)
  <2>1. PICK k \in DOMAIN detached[f] : n = detached[f][k]
    BY DEF Values
  <2>2. DetachedAt(f, k)
    BY <1>3, VisitFacts
  <2> QED BY <2>1, <2>2 DEF DetachedAt
<1>4. ASSUME ChannelInv, NEW f \in Fibers, pc[f] = "unwait", arm[f] <= Len(Arms(f)),
             Op(f) # "timeout"
      PROVE  closed[Chan(f)] \/ state[f][arm[f]] # "none" \/ lock[Chan(f)] # None
               \/ Node(f, arm[f]) \in Values(senders[Chan(f)])
                                      \cup Values(receivers[Chan(f)])
  <2>1. /\ ListedAt(f) /\ TypeInv /\ call[f] # None /\ call[f].form = "select"
        /\ arm[f] \in DOMAIN Arms(f)
    BY <1>4, UnwaitFacts
  <2>2. Op(f) \in {"send", "receive"}
    BY <1>4, <2>1, AnArm, ArmFacts DEF Op
  <2>3. /\ state[f][arm[f]] = "none" /\ ~closed[Chan(f)] =>
             In(senders[Chan(f)], Node(f, arm[f])) \/ In(receivers[Chan(f)], Node(f, arm[f]))
    <3>1. arm[f] <= arm[f]
      BY <1>4, UnwaitFacts
    <3> QED BY <2>1, <2>2, <3>1 DEF ListedAt, Op, Chan
  <2> QED BY <2>3 DEF In, Values
<1>5. ChannelInv => NoDanglingNode
  BY <1>2, <1>3, <1>4 DEF NoDanglingNode
<1> QED BY <1>5, ChannelInvariant, PTL

(* Nobody waits for what is there, at any step of the calls: a value and a *)
(* receiver, room in the queue and a sender, a sender and a receiver of    *)
(* different fibers; and none waits on a closed channel.                   *)
THEOREM EveryRendezvous == Spec => []NoMissedRendezvous
<1>1. ChannelInv => NoMissedRendezvous
  <2> SUFFICES ASSUME ChannelInv, NEW c \in Channels
               PROVE  /\ \A r \in Values(receivers[c]) : Live(r) => queue[c] = <<>>
                      /\ \A s \in Values(senders[c]) : Live(s) => Len(queue[c]) = Capacity[c]
                      /\ \A s \in Values(senders[c]), r \in Values(receivers[c]) :
                           Live(s) /\ Live(r) => s.fiber = r.fiber
                      /\ closed[c] => senders[c] = <<>> /\ receivers[c] = <<>>
    BY DEF NoMissedRendezvous
  <2>1. TypeInv /\ ListInv /\ MeetInv
    BY DEF ChannelInv
  <2>2. /\ \A s \in Values(senders[c]) : s \in Nodes /\ In(senders[c], s)
        /\ \A r \in Values(receivers[c]) : r \in Nodes /\ In(receivers[c], r)
    BY <2>1, ListTypesFacts, InEmpty DEF Values, In
  <2>3. /\ \A r \in Values(receivers[c]) : Live(r) => SomeLive(receivers[c])
        /\ \A s \in Values(senders[c]) : Live(s) => SomeLive(senders[c])
    BY <2>1, <2>2, SomeLiveNow
  <2> QED BY <2>1, <2>2, <2>3 DEF MeetInv, ListInv
<1> QED BY <1>1, ChannelInvariant, PTL
=============================================================================
