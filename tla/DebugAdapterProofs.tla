------------------------- MODULE DebugAdapterProofs -------------------------
(* What TLAPS proves of DebugAdapter when a single client is connected,    *)
(* which is what an IDE does, for every program and any requests.          *)
EXTENDS DebugAdapter, SequenceTheorems, TLAPS

Sent == [client : Clients, seq : Nat, request : Requests \cup First]

Written == [seq : Nat, command : Commands \cup {"evaulate"}, asked : Commands,
            success : BOOLEAN]

Reading == {"initialize", "launch", "configure", "repl"}
AtStop == {"repl", "evaluating", "resume"}
Opened == {"initialize", "launch", "configure"}

TypeInv ==
  /\ inbox \in [Clients -> Seq(Sent)] /\ sent \in [Clients -> Nat]
  /\ replies \in [Clients -> Seq(Written)] /\ events \in [Clients -> Nat]
  /\ server \in [Clients -> Opened \cup AtStop \cup {"watch", "dead"}]
  /\ got \in [Clients -> BOOLEAN]
  /\ expressions \in Seq(Sent)
  /\ stops \in Nat

(* How many requests of c the server has read. *)
Read(c) == sent[c] - Len(inbox[c])

(* Requests are read in the order of their seq; an answer is to one that   *)
(* was read, and the expression that waits, one at most, is the last.      *)
OrderInv(c) ==
  /\ Read(c) \in Nat
  /\ \A i \in DOMAIN inbox[c] : inbox[c][i].seq = Read(c) + i
  /\ \A i \in DOMAIN replies[c] : replies[c][i].seq <= Read(c)
  /\ \A i, j \in DOMAIN replies[c] :
       i < j => replies[c][i].seq < replies[c][j].seq
  /\ expressions # <<>> =>
       /\ Len(expressions) = 1 /\ expressions[1].seq = Read(c)
       /\ \A i \in DOMAIN replies[c] : replies[c][i].seq < Read(c)
       /\ server[c] = "evaluating" /\ ~got[c] /\ block = c

(* The fiber leaves the stop only by resume!. *)
StopInv(c) == server[c] \in AtStop => stopped # {}

(* No expression raises: then the program is held while it is stopped, and *)
(* nothing has happened before configurationDone.                          *)
Quiet == \A r \in Requests \cup First : ~r.raises

HoldInv(c) ==
  /\ c \notin hungUp /\ stopped # {} => interp = "hold"
  /\ server[c] \in Opened =>
       /\ ~ready /\ interp = "waiting" /\ stopped = {}
       /\ stops = 0 /\ events[c] = 0
  /\ c \notin hungUp =>
       /\ server[c] \in AtStop => events[c] = stops
       /\ server[c] = "watch" =>
            events[c] = stops - (IF stopped = {} THEN 0 ELSE 1)

-----------------------------------------------------------------------------
LEMMA AppendFacts ==
  ASSUME NEW S, NEW s \in Seq(S), NEW e \in S
  PROVE  /\ Append(s, e) \in Seq(S)
         /\ Len(s) \in Nat /\ DOMAIN s = 1 .. Len(s)
         /\ Len(Append(s, e)) = Len(s) + 1
         /\ DOMAIN Append(s, e) = 1 .. Len(s) + 1
         /\ \A i \in 1 .. Len(s) : Append(s, e)[i] = s[i]
         /\ Append(s, e)[Len(s) + 1] = e
OBVIOUS

LEMMA TailFacts ==
  ASSUME NEW S, NEW s \in Seq(S), s # <<>>
  PROVE  /\ Tail(s) \in Seq(S)
         /\ Len(s) \in Nat \ {0} /\ DOMAIN s = 1 .. Len(s)
         /\ Len(Tail(s)) = Len(s) - 1 /\ DOMAIN Tail(s) = 1 .. Len(s) - 1
         /\ \A i \in 1 .. Len(s) - 1 : Tail(s)[i] = s[i + 1]
         /\ Head(s) = s[1] /\ s[1] \in S
OBVIOUS

LEMMA OnlyOne ==
  ASSUME NEW S, NEW s \in Seq(S), Len(s) = 1
  PROVE  Head(s) = s[1] /\ s[1] \in S /\ Tail(s) = <<>>
<1>1. Tail(s) \in Seq(S) /\ Len(Tail(s)) = 0
  OBVIOUS
<1>2. Tail(s) = <<>>
  BY <1>1, EmptySeq
<1> QED BY <1>2

LEMMA RequestTypes == Requests \cup First \subseteq Request
BY DebugAssumption DEF First

-----------------------------------------------------------------------------
(* Types *)

LEMMA TypeInit == Init => TypeInv
<1> SUFFICES ASSUME Init PROVE TypeInv
  OBVIOUS
<1>1. <<>> \in Seq(Sent) /\ <<>> \in Seq(Written)
  OBVIOUS
<1> QED BY <1>1 DEF Init, TypeInv, Opened

LEMMA ReadType ==
  ASSUME TypeInv, NEW c \in Clients, NEW step, Reads(c, step)
  PROVE  /\ inbox' \in [Clients -> Seq(Sent)] /\ sent' = sent
         /\ Message(c) \in Sent /\ Message(c).request \in Request
         /\ Message(c) = inbox[c][1] /\ server[c] = step
         /\ Len(inbox[c]) \in Nat \ {0}
         /\ Len(inbox'[c]) = Len(inbox[c]) - 1
         /\ DOMAIN inbox'[c] = 1 .. Len(inbox[c]) - 1
         /\ \A i \in 1 .. Len(inbox[c]) - 1 : inbox'[c][i] = inbox[c][i + 1]
         /\ 1 \in DOMAIN inbox[c]
<1>1. inbox[c] \in Seq(Sent) /\ inbox[c] # <<>>
  BY DEF TypeInv, Reads
<1>2. inbox' = [inbox EXCEPT ![c] = Tail(inbox[c])] /\ sent' = sent
      /\ server[c] = step
  BY DEF Reads
<1>3. inbox'[c] = Tail(inbox[c])
  BY <1>2 DEF TypeInv
<1>4. Tail(inbox[c]) \in Seq(Sent) /\ Message(c) \in Sent
  BY <1>1, TailFacts DEF Message
<1>5. inbox' \in [Clients -> Seq(Sent)]
  BY <1>2, <1>4 DEF TypeInv
<1>6. Message(c).request \in Request
  BY <1>4, RequestTypes DEF Sent
<1> QED BY <1>1, <1>2, <1>3, <1>4, <1>5, <1>6, TailFacts DEF Message

LEMMA ReplyType ==
  ASSUME TypeInv, NEW c \in Clients, NEW m \in Sent,
         NEW command \in Commands \cup {"evaulate"}, NEW success \in BOOLEAN,
         replies' = Replied(c, m, command, success)
  PROVE  /\ replies' \in [Clients -> Seq(Written)]
         /\ Len(replies[c]) \in Nat /\ DOMAIN replies[c] = 1 .. Len(replies[c])
         /\ DOMAIN replies'[c] = 1 .. Len(replies[c]) + 1
         /\ \A i \in 1 .. Len(replies[c]) : replies'[c][i] = replies[c][i]
         /\ replies'[c][Len(replies[c]) + 1].seq = m.seq
<1> DEFINE w == [seq |-> m.seq, command |-> command,
                 asked |-> m.request.command, success |-> success]
<1>1. m.seq \in Nat /\ m.request.command \in Commands
  BY RequestTypes DEF Sent, Request
<1>2. w \in Written
  BY <1>1 DEF Written
<1>3. replies[c] \in Seq(Written)
  BY DEF TypeInv
<1>4. replies' = [replies EXCEPT ![c] = Append(replies[c], w)]
  BY DEF Replied
<1>5. replies'[c] = Append(replies[c], w) /\ w.seq = m.seq
  BY <1>4 DEF TypeInv
<1> HIDE DEF w
<1>6. Append(replies[c], w) \in Seq(Written)
  BY <1>2, <1>3, AppendFacts
<1>7. replies' \in [Clients -> Seq(Written)]
  BY <1>4, <1>6 DEF TypeInv
<1>8. /\ Len(replies[c]) \in Nat /\ DOMAIN replies[c] = 1 .. Len(replies[c])
      /\ DOMAIN replies'[c] = 1 .. Len(replies[c]) + 1
      /\ \A i \in 1 .. Len(replies[c]) : replies'[c][i] = replies[c][i]
      /\ replies'[c][Len(replies[c]) + 1] = w
  BY <1>2, <1>3, <1>5, AppendFacts
<1> QED BY <1>5, <1>7, <1>8

-----------------------------------------------------------------------------
(* The order of the answers, of the only client c: what a step does to it  *)
(* depends on whether a request is read, is answered, or neither.          *)

LEMMA OrderFrame ==
  ASSUME NEW c \in Clients, OrderInv(c), UNCHANGED <<inbox, sent, replies>>,
         \/ expressions' = <<>>
         \/ UNCHANGED <<expressions, server, got, block>>
  PROVE  OrderInv(c)'
BY DEF OrderInv, Read

LEMMA ReadOrder ==
  ASSUME TypeInv, NEW c \in Clients, OrderInv(c), NEW step, Reads(c, step)
  PROVE  /\ inbox' \in [Clients -> Seq(Sent)] /\ server[c] = step
         /\ Message(c) \in Sent /\ Message(c).seq = Read(c) + 1
         /\ Read(c) \in Nat /\ Read(c)' = Read(c) + 1
         /\ \A i \in DOMAIN inbox'[c] : inbox'[c][i].seq = Read(c)' + i
         /\ \A i \in DOMAIN replies[c] :
              replies[c][i].seq \in Nat /\ replies[c][i].seq <= Read(c)
<1>1. /\ inbox' \in [Clients -> Seq(Sent)] /\ sent' = sent
      /\ server[c] = step /\ Message(c) \in Sent
      /\ Message(c) = inbox[c][1] /\ 1 \in DOMAIN inbox[c]
      /\ Len(inbox[c]) \in Nat \ {0}
      /\ Len(inbox'[c]) = Len(inbox[c]) - 1
      /\ DOMAIN inbox'[c] = 1 .. Len(inbox[c]) - 1
      /\ \A i \in 1 .. Len(inbox[c]) - 1 : inbox'[c][i] = inbox[c][i + 1]
  BY ReadType
<1>2. DOMAIN inbox[c] = 1 .. Len(inbox[c]) /\ sent[c] \in Nat
  BY DEF TypeInv
<1>3. Read(c) \in Nat /\ Read(c)' = Read(c) + 1
  BY <1>1, <1>2 DEF Read, OrderInv
<1>4. \A i \in DOMAIN inbox[c] : inbox[c][i].seq = Read(c) + i
  BY DEF OrderInv
<1>5. ASSUME NEW i \in DOMAIN inbox'[c]
      PROVE  inbox'[c][i].seq = Read(c)' + i
  <2>1. i \in Nat /\ i + 1 \in DOMAIN inbox[c] /\ inbox'[c][i] = inbox[c][i + 1]
    BY <1>1, <1>2
  <2>2. inbox'[c][i].seq = Read(c) + (i + 1)
    BY <1>4, <2>1
  <2> QED BY <1>3, <2>1, <2>2
<1>6. Message(c).seq = Read(c) + 1
  BY <1>1, <1>4
<1>7. \A i \in DOMAIN replies[c] :
        replies[c][i].seq \in Nat /\ replies[c][i].seq <= Read(c)
  <2>1. \A i \in DOMAIN replies[c] : replies[c][i] \in Written
    BY DEF TypeInv
  <2> QED BY <2>1 DEF OrderInv, Written
<1> QED BY <1>1, <1>3, <1>5, <1>6, <1>7

LEMMA OrderRead ==
  ASSUME TypeInv, NEW c \in Clients, OrderInv(c), NEW step \in Reading,
         Reads(c, step), UNCHANGED <<replies, expressions>>
  PROVE  OrderInv(c)' /\ inbox' \in [Clients -> Seq(Sent)]
<1>1. /\ inbox' \in [Clients -> Seq(Sent)] /\ server[c] = step
      /\ Read(c) \in Nat /\ Read(c)' = Read(c) + 1
      /\ \A i \in DOMAIN inbox'[c] : inbox'[c][i].seq = Read(c)' + i
      /\ \A i \in DOMAIN replies[c] :
           replies[c][i].seq \in Nat /\ replies[c][i].seq <= Read(c)
  BY ReadOrder
<1>2. expressions = <<>>
  BY <1>1 DEF OrderInv, Reading
<1>3. \A i \in DOMAIN replies[c] : replies[c][i].seq <= Read(c)'
  BY <1>1
<1> QED BY <1>1, <1>2, <1>3 DEF OrderInv

LEMMA OrderReply ==
  ASSUME TypeInv, NEW c \in Clients, OrderInv(c), NEW step \in Reading,
         Reads(c, step), expressions' = expressions,
         NEW command \in Commands, NEW success \in BOOLEAN,
         Reply(c, command, success)
  PROVE  /\ OrderInv(c)' /\ inbox' \in [Clients -> Seq(Sent)]
         /\ replies' \in [Clients -> Seq(Written)]
<1>1. /\ inbox' \in [Clients -> Seq(Sent)] /\ server[c] = step
      /\ Message(c) \in Sent /\ Message(c).seq = Read(c) + 1
      /\ Read(c) \in Nat /\ Read(c)' = Read(c) + 1
      /\ \A i \in DOMAIN inbox'[c] : inbox'[c][i].seq = Read(c)' + i
      /\ \A i \in DOMAIN replies[c] :
           replies[c][i].seq \in Nat /\ replies[c][i].seq <= Read(c)
  BY ReadOrder
<1>2. /\ replies' \in [Clients -> Seq(Written)]
      /\ Len(replies[c]) \in Nat /\ DOMAIN replies[c] = 1 .. Len(replies[c])
      /\ DOMAIN replies'[c] = 1 .. Len(replies[c]) + 1
      /\ \A i \in 1 .. Len(replies[c]) : replies'[c][i] = replies[c][i]
      /\ replies'[c][Len(replies[c]) + 1].seq = Message(c).seq
  BY <1>1, ReplyType DEF Reply
<1>3. expressions = <<>>
  BY <1>1 DEF OrderInv, Reading
<1>4. \A i \in DOMAIN replies'[c] :
        \/ i \in DOMAIN replies[c] /\ replies'[c][i] = replies[c][i]
        \/ i = Len(replies[c]) + 1 /\ replies'[c][i].seq = Read(c) + 1
  BY <1>1, <1>2
<1>5. ASSUME NEW i \in DOMAIN replies'[c]
      PROVE  replies'[c][i].seq <= Read(c)'
  <2>1. CASE i \in DOMAIN replies[c] /\ replies'[c][i] = replies[c][i]
    <3>1. replies'[c][i].seq \in Nat /\ replies'[c][i].seq <= Read(c)
      BY <1>1, <2>1
    <3> QED BY <1>1, <3>1
  <2>2. CASE replies'[c][i].seq = Read(c) + 1
    BY <1>1, <2>2
  <2> QED BY <1>4, <2>1, <2>2
<1>6. ASSUME NEW i \in DOMAIN replies'[c], NEW j \in DOMAIN replies'[c], i < j
      PROVE  replies'[c][i].seq < replies'[c][j].seq
  <2>1. i \in DOMAIN replies[c] /\ replies'[c][i] = replies[c][i]
    BY <1>2, <1>6
  <2>2. CASE j \in DOMAIN replies[c]
    BY <1>2, <1>6, <2>1, <2>2 DEF OrderInv
  <2>3. CASE j \notin DOMAIN replies[c]
    BY <1>1, <1>4, <2>1, <2>3
  <2> QED BY <2>2, <2>3
<1> QED BY <1>1, <1>2, <1>3, <1>5, <1>6 DEF OrderInv

LEMMA OrderSend ==
  ASSUME TypeInv, NEW c \in Clients, OrderInv(c),
         NEW r \in Requests \cup First, Send(c, r)
  PROVE  /\ OrderInv(c)'
         /\ inbox' \in [Clients -> Seq(Sent)] /\ sent' \in [Clients -> Nat]
<1> DEFINE m == [client |-> c, seq |-> sent[c] + 1, request |-> r]
<1>1. inbox[c] \in Seq(Sent) /\ sent[c] \in Nat
  BY DEF TypeInv
<1>2. m \in Sent /\ m.seq = sent[c] + 1
  BY <1>1 DEF Sent
<1>3. inbox' = [inbox EXCEPT ![c] = Append(inbox[c], m)]
      /\ sent' = [sent EXCEPT ![c] = sent[c] + 1]
  BY DEF Send
<1> HIDE DEF m
<1>4. inbox'[c] = Append(inbox[c], m) /\ sent'[c] = sent[c] + 1
  BY <1>3 DEF TypeInv
<1>5. /\ inbox' \in [Clients -> Seq(Sent)] /\ sent' \in [Clients -> Nat]
  <2>1. Append(inbox[c], m) \in Seq(Sent)
    BY <1>1, <1>2, AppendFacts
  <2> QED BY <1>1, <1>3, <2>1 DEF TypeInv
<1>6. /\ Len(inbox[c]) \in Nat /\ DOMAIN inbox[c] = 1 .. Len(inbox[c])
      /\ Len(inbox'[c]) = Len(inbox[c]) + 1
      /\ DOMAIN inbox'[c] = 1 .. Len(inbox[c]) + 1
      /\ \A i \in 1 .. Len(inbox[c]) : inbox'[c][i] = inbox[c][i]
      /\ inbox'[c][Len(inbox[c]) + 1] = m
  BY <1>1, <1>2, <1>4, AppendFacts
<1>7. Read(c)' = Read(c) /\ Read(c) + Len(inbox[c]) = sent[c]
  BY <1>1, <1>4, <1>6 DEF Read
<1>8. \A i \in DOMAIN inbox'[c] : inbox'[c][i].seq = Read(c)' + i
  <2>1. \A i \in DOMAIN inbox[c] : inbox[c][i].seq = Read(c) + i
    BY DEF OrderInv
  <2>2. \A i \in DOMAIN inbox'[c] :
          \/ i \in DOMAIN inbox[c] /\ inbox'[c][i] = inbox[c][i]
          \/ i = Len(inbox[c]) + 1 /\ inbox'[c][i] = m
    BY <1>6
  <2>3. Read(c) \in Nat
    BY DEF OrderInv
  <2>4. m.seq = Read(c) + (Len(inbox[c]) + 1)
    BY <1>2, <1>6, <1>7, <2>3
  <2> QED BY <1>7, <2>1, <2>2, <2>4
<1>9. UNCHANGED <<replies, expressions, server, got, block>>
  BY DEF Send, data, history
<1> QED BY <1>5, <1>7, <1>8, <1>9 DEF OrderInv

LEMMA OrderEvaluate ==
  ASSUME TypeInv, NEW c \in Clients, OrderInv(c), Evaluate(c),
         Parses(c, "evaluate")
  PROVE  OrderInv(c)' /\ inbox' \in [Clients -> Seq(Sent)]
         /\ expressions' \in Seq(Sent)
<1>1. /\ inbox' \in [Clients -> Seq(Sent)] /\ server[c] = "repl"
      /\ Message(c) \in Sent /\ Message(c).seq = Read(c) + 1
      /\ Read(c) \in Nat /\ Read(c)' = Read(c) + 1
      /\ \A i \in DOMAIN inbox'[c] : inbox'[c][i].seq = Read(c)' + i
      /\ \A i \in DOMAIN replies[c] :
           replies[c][i].seq \in Nat /\ replies[c][i].seq <= Read(c)
  <2>1. Reads(c, "repl")
    BY DEF Evaluate
  <2> QED BY <2>1, ReadOrder
<1>2. /\ block' = c /\ expressions' = Append(expressions, Message(c))
      /\ got' = [got EXCEPT ![c] = FALSE]
      /\ server' = [server EXCEPT ![c] = "evaluating"]
      /\ replies' = replies
  BY DEF Evaluate, Goto, history
<1>3. expressions = <<>> /\ server'[c] = "evaluating" /\ ~got'[c]
  BY <1>1, <1>2 DEF OrderInv, TypeInv
<1>4. /\ expressions' \in Seq(Sent) /\ Len(expressions') = 1
      /\ expressions'[1] = Message(c)
  <2>1. expressions \in Seq(Sent) /\ Len(expressions) = 0
    BY <1>3 DEF TypeInv
  <2> QED BY <1>1, <1>2, <2>1, AppendFacts
<1>5. \A i \in DOMAIN replies[c] :
        replies[c][i].seq <= Read(c)' /\ replies[c][i].seq < Read(c)'
  BY <1>1
<1> QED BY <1>1, <1>2, <1>3, <1>4, <1>5 DEF OrderInv

(* The value of the only expression, and its answer. *)
LEMMA OrderValue ==
  ASSUME TypeInv, NEW c \in Clients, OrderInv(c), EvaluateValue
  PROVE  OrderInv(c)' /\ replies' \in [Clients -> Seq(Written)]
         /\ block = c /\ expressions' = <<>>
<1>1. /\ expressions # <<>> /\ Len(expressions) = 1 /\ block = c
      /\ expressions[1].seq = Read(c) /\ Read(c) \in Nat
      /\ \A i \in DOMAIN replies[c] : replies[c][i].seq < Read(c)
  BY DEF EvaluateValue, OrderInv
<1>2. Head(expressions) = expressions[1] /\ expressions[1] \in Sent
      /\ Tail(expressions) = <<>>
  BY <1>1, OnlyOne DEF TypeInv
<1>3. /\ replies' = Replied(c, expressions[1], "evaulate", TRUE)
      /\ expressions' = <<>> /\ UNCHANGED <<inbox, sent>>
  BY <1>1, <1>2 DEF EvaluateValue, clientVars
<1>4. /\ replies' \in [Clients -> Seq(Written)]
      /\ Len(replies[c]) \in Nat /\ DOMAIN replies[c] = 1 .. Len(replies[c])
      /\ DOMAIN replies'[c] = 1 .. Len(replies[c]) + 1
      /\ \A i \in 1 .. Len(replies[c]) : replies'[c][i] = replies[c][i]
      /\ replies'[c][Len(replies[c]) + 1].seq = Read(c)
  BY <1>1, <1>2, <1>3, ReplyType
<1>5. \A i \in DOMAIN replies[c] : replies[c][i].seq \in Nat
  <2>1. \A i \in DOMAIN replies[c] : replies[c][i] \in Written
    BY DEF TypeInv
  <2> QED BY <2>1 DEF Written
<1>0. \A i \in DOMAIN replies'[c] :
        \/ i \in DOMAIN replies[c] /\ replies'[c][i] = replies[c][i]
        \/ i = Len(replies[c]) + 1 /\ replies'[c][i].seq = Read(c)
  BY <1>4
<1>6. \A i \in DOMAIN replies'[c] : replies'[c][i].seq <= Read(c)
  BY <1>0, <1>1, <1>5
<1>7. ASSUME NEW i \in DOMAIN replies'[c], NEW j \in DOMAIN replies'[c], i < j
      PROVE  replies'[c][i].seq < replies'[c][j].seq
  <2>1. i \in DOMAIN replies[c] /\ replies'[c][i] = replies[c][i]
    BY <1>4, <1>7
  <2>2. CASE j \in DOMAIN replies[c]
    BY <1>4, <1>7, <2>1, <2>2 DEF OrderInv
  <2>3. CASE j \notin DOMAIN replies[c]
    BY <1>0, <1>1, <2>1, <2>3
  <2> QED BY <2>2, <2>3
<1> QED BY <1>1, <1>3, <1>4, <1>6, <1>7 DEF OrderInv, Read

-----------------------------------------------------------------------------
(* One step of the server or the interpreter *)

Inv(c) == TypeInv /\ OrderInv(c) /\ StopInv(c)

LEMMA NextOfOne ==
  ASSUME NEW c, Clients = {c}, Next
  PROVE  \/ \E r \in Requests \cup First : Send(c, r)
         \/ HangUp(c) \/ Serve(c) \/ Interpret
BY DEF Next

(* The fiber goes elsewhere, reading a request or not, answering it or not,*)
(* and nothing is evaluated.                                               *)
LEMMA InvGoto ==
  ASSUME NEW c, Clients = {c}, Inv(c), OrderInv(c)',
         inbox' \in [Clients -> Seq(Sent)], sent' = sent,
         replies' \in [Clients -> Seq(Written)],
         UNCHANGED <<got, expressions, stops>>,
         \/ events' = events
         \/ events' = [events EXCEPT ![c] = @ + 1],
         NEW step \in Opened \cup AtStop \cup {"watch", "dead"},
         Goto(c, step) \/ UNCHANGED server,
         stopped' = stopped \/ (step = "watch" /\ Goto(c, step)),
         step \in AtStop /\ Goto(c, step) => stopped # {}
  PROVE  Inv(c)'
<1>1. server' \in [Clients -> Opened \cup AtStop \cup {"watch", "dead"}]
  BY DEF Inv, TypeInv, Goto
<1>2. events' \in [Clients -> Nat]
  BY DEF Inv, TypeInv
<1>3. TypeInv'
  BY <1>1, <1>2 DEF Inv, TypeInv
<1>4. server'[c] = step \/ server'[c] = server[c]
  BY DEF Inv, TypeInv, Goto
<1>5. Goto(c, step) => server'[c] = step
  BY DEF Inv, TypeInv, Goto
<1>6. StopInv(c)'
  BY <1>4, <1>5 DEF Inv, StopInv, AtStop
<1> QED BY <1>3, <1>6 DEF Inv

LEMMA InvReceive ==
  ASSUME NEW c, Clients = {c}, Inv(c),
         ReceiveInitialize(c) \/ ReceiveLaunch(c) \/ ConfigurationDone(c)
  PROVE  Inv(c)'
<1>0. c \in Clients /\ TypeInv /\ OrderInv(c)
  BY DEF Inv
<1>1. PICK step \in Reading, command \in Commands, success \in BOOLEAN,
           next \in {"launch", "configure", "watch"} :
        /\ Reads(c, step) /\ Reply(c, command, success) /\ Goto(c, next)
        /\ UNCHANGED <<got, expressions, stopped>>
  <2>1. ASSUME NEW step, Reads(c, step) PROVE Command(c) \in Commands
    BY <1>0, <2>1, ReadType DEF Command, Request
  <2>2. CASE ReceiveInitialize(c)
    BY <2>1, <2>2 DEF ReceiveInitialize, Reading, data
  <2>3. CASE ReceiveLaunch(c)
    <3>1. (Command(c) \in {"launch", "attach"}) \in BOOLEAN
      OBVIOUS
    <3> QED BY <2>1, <2>3, <3>1 DEF ReceiveLaunch, Reading, data
  <2>4. CASE ConfigurationDone(c)
    BY <2>4 DEF ConfigurationDone, Reading, Commands
  <2> QED BY <2>2, <2>3, <2>4
<1>2. OrderInv(c)' /\ inbox' \in [Clients -> Seq(Sent)]
      /\ replies' \in [Clients -> Seq(Written)]
  BY <1>0, <1>1, OrderReply
<1>3. sent' = sent /\ events' = events /\ stops' = stops
  BY <1>1 DEF Reads, Reply
<1> QED BY <1>1, <1>2, <1>3, InvGoto DEF Opened, AtStop

LEMMA InvBreakpoints ==
  ASSUME NEW c, Clients = {c}, Inv(c), Configure(c) \/ ReplBreakpoints(c)
  PROVE  Inv(c)'
<1>0. c \in Clients /\ TypeInv /\ OrderInv(c)
  BY DEF Inv
<1>1. PICK step \in Reading : Reads(c, step)
  BY DEF Configure, ReplBreakpoints, Reading
<1>2. CASE /\ SetBreakpoints(c) /\ Reply(c, "setBreakpoints", TRUE)
           /\ UNCHANGED <<server, got>>
  <2>1. UNCHANGED <<expressions, stopped>>
    BY <1>2 DEF SetBreakpoints
  <2>2. OrderInv(c)' /\ inbox' \in [Clients -> Seq(Sent)]
        /\ replies' \in [Clients -> Seq(Written)]
    BY <1>0, <1>1, <1>2, <2>1, OrderReply DEF Commands
  <2>3. sent' = sent /\ events' = events /\ stops' = stops
    BY <1>1, <1>2 DEF Reads, Reply
  <2>4. "dead" \in Opened \cup AtStop \cup {"watch", "dead"} /\ "dead" \notin AtStop
    BY DEF AtStop
  <2> QED BY <1>2, <2>1, <2>2, <2>3, <2>4, InvGoto
<1>3. CASE Die(c)
  <2>1. /\ UNCHANGED <<expressions, stopped, got, replies, events, stops>>
        /\ Goto(c, "dead")
    BY <1>3 DEF Die, data, history
  <2>2. OrderInv(c)' /\ inbox' \in [Clients -> Seq(Sent)]
    BY <1>0, <1>1, <2>1, OrderRead
  <2>3. sent' = sent /\ replies' \in [Clients -> Seq(Written)]
    BY <1>0, <1>1, <2>1 DEF Reads, TypeInv
  <2> QED BY <2>1, <2>2, <2>3, InvGoto DEF AtStop
<1> QED BY <1>2, <1>3 DEF Configure, ReplBreakpoints

LEMMA InvContinue ==
  ASSUME NEW c, Clients = {c}, Inv(c), Continue(c) \/ Invalid(c)
  PROVE  Inv(c)'
<1>0. c \in Clients /\ TypeInv /\ OrderInv(c)
  BY DEF Inv
<1>1. Reads(c, "repl") /\ "repl" \in Reading
  BY DEF Continue, Invalid, Reading
<1>2. sent' = sent /\ server[c] = "repl" /\ stopped # {}
  BY <1>1 DEF Reads, Inv, StopInv, AtStop
<1>3. CASE /\ Reply(c, "continue", TRUE) /\ Goto(c, "resume")
           /\ UNCHANGED <<data, got>>
  <2>1. UNCHANGED <<expressions, stopped, got, events, stops>>
    BY <1>3 DEF data, Reply
  <2>2. OrderInv(c)' /\ inbox' \in [Clients -> Seq(Sent)]
        /\ replies' \in [Clients -> Seq(Written)]
    BY <1>0, <1>1, <1>3, <2>1, OrderReply DEF Commands
  <2> QED BY <1>2, <1>3, <2>1, <2>2, InvGoto DEF AtStop
<1>4. CASE Die(c) \/ UNCHANGED <<data, history, server, got>>
  <2>1. /\ UNCHANGED <<expressions, stopped, got, replies, events, stops>>
        /\ Goto(c, "dead") \/ UNCHANGED server
    BY <1>4 DEF Die, data, history
  <2>2. OrderInv(c)' /\ inbox' \in [Clients -> Seq(Sent)]
    BY <1>0, <1>1, <2>1, OrderRead
  <2>3. replies' \in [Clients -> Seq(Written)]
    BY <1>0, <2>1 DEF TypeInv
  <2> QED BY <1>2, <2>1, <2>2, <2>3, InvGoto DEF AtStop
<1> QED BY <1>3, <1>4 DEF Continue, Invalid

LEMMA InvEvaluate ==
  ASSUME NEW c, Clients = {c}, Inv(c), Evaluate(c)
  PROVE  Inv(c)'
<1>0. c \in Clients /\ TypeInv /\ OrderInv(c)
  BY DEF Inv
<1>1. Reads(c, "repl") /\ "repl" \in Reading
  BY DEF Evaluate, Reading
<1>2. sent' = sent /\ server[c] = "repl" /\ stopped # {}
  BY <1>1 DEF Reads, Inv, StopInv, AtStop
<1>3. CASE Parses(c, "evaluate")
  <2>1. OrderInv(c)' /\ inbox' \in [Clients -> Seq(Sent)]
        /\ expressions' \in Seq(Sent)
    BY <1>0, <1>3, OrderEvaluate
  <2>2. /\ UNCHANGED <<stopped, replies, events, stops>>
        /\ got' = [got EXCEPT ![c] = FALSE]
        /\ server' = [server EXCEPT ![c] = "evaluating"]
    BY <1>3 DEF Evaluate, history, Goto
  <2>3. TypeInv'
    BY <1>0, <1>2, <2>1, <2>2 DEF TypeInv, AtStop
  <2> QED BY <1>2, <2>1, <2>2, <2>3 DEF Inv, StopInv
<1>4. CASE ~Parses(c, "evaluate")
  <2>1. /\ UNCHANGED <<expressions, stopped, got, replies, events, stops>>
        /\ Goto(c, "dead")
    BY <1>4 DEF Evaluate, Die, data, history
  <2>2. OrderInv(c)' /\ inbox' \in [Clients -> Seq(Sent)]
    BY <1>0, <1>1, <2>1, OrderRead
  <2>3. replies' \in [Clients -> Seq(Written)]
    BY <1>0, <2>1 DEF TypeInv
  <2> QED BY <1>2, <2>1, <2>2, <2>3, InvGoto DEF AtStop
<1> QED BY <1>3, <1>4

(* Nothing is read: expressions wait in `evaluating` only, and are there   *)
(* until their value or its lack is known.                                 *)
LEMMA InvWait ==
  ASSUME NEW c, Clients = {c}, Inv(c),
         EndOfStream(c) \/ Watch(c) \/ Answered(c) \/ Resume(c)
  PROVE  Inv(c)'
<1>0. c \in Clients /\ TypeInv /\ OrderInv(c)
  BY DEF Inv
<1>1. UNCHANGED <<inbox, sent, replies, expressions, got, stops>>
  BY DEF EndOfStream, Watch, Answered, Resume, clientVars, data, history
<1>2. expressions = <<>>
  BY <1>0 DEF EndOfStream, Watch, Answered, Resume, OrderInv
<1>3. OrderInv(c)'
  BY <1>0, <1>1, <1>2, OrderFrame
<1>4. PICK step \in {"dead", "repl", "watch"} :
        /\ Goto(c, step)
        /\ step = "repl" => stopped # {}
        /\ stopped' = stopped \/ step = "watch"
        /\ events' = events \/ events' = [events EXCEPT ![c] = @ + 1]
  BY <1>0 DEF EndOfStream, Watch, Answered, Resume, data, history, Inv,
     StopInv, AtStop
<1>5. inbox' \in [Clients -> Seq(Sent)] /\ replies' \in [Clients -> Seq(Written)]
  BY <1>0, <1>1 DEF TypeInv
<1> QED BY <1>1, <1>3, <1>4, <1>5, InvGoto DEF AtStop

LEMMA InvWriteFails ==
  ASSUME NEW c, Clients = {c}, Inv(c), WriteFails(c)
  PROVE  Inv(c)'
<1>0. c \in Clients /\ TypeInv /\ OrderInv(c)
  BY DEF Inv
<1>1. /\ UNCHANGED <<replies, expressions, got, stops, events, stopped>>
      /\ Goto(c, "dead")
  BY DEF WriteFails, SetBreakpoints, data, history
<1>2. replies' \in [Clients -> Seq(Written)]
  BY <1>0, <1>1 DEF TypeInv
<1>3. OrderInv(c)' /\ inbox' \in [Clients -> Seq(Sent)] /\ sent' = sent
  <2>1. CASE \E step \in Reading : Reads(c, step)
    BY <1>0, <1>1, <2>1, OrderRead DEF Reads
  <2>2. CASE server[c] = "watch" /\ UNCHANGED clientVars
    <3>1. expressions = <<>>
      BY <1>0, <2>2 DEF OrderInv
    <3> QED BY <1>0, <1>1, <2>2, <3>1, OrderFrame DEF clientVars, TypeInv
  <2> QED BY <2>1, <2>2 DEF WriteFails, Reading
<1> QED BY <1>1, <1>2, <1>3, InvGoto DEF AtStop

LEMMA InvClient ==
  ASSUME NEW c, Clients = {c}, Inv(c),
         (\E r \in Requests \cup First : Send(c, r)) \/ HangUp(c)
  PROVE  Inv(c)'
<1>0. c \in Clients /\ TypeInv /\ OrderInv(c)
  BY DEF Inv
<1>1. UNCHANGED <<replies, events, stops, expressions, block, stopped, server,
                  got>>
  BY DEF Send, HangUp, data, history
<1>2. OrderInv(c)' /\ inbox' \in [Clients -> Seq(Sent)]
      /\ sent' \in [Clients -> Nat]
  <2>1. CASE HangUp(c)
    BY <1>0, <1>1, <2>1, OrderFrame DEF HangUp, TypeInv
  <2>2. CASE \E r \in Requests \cup First : Send(c, r)
    BY <1>0, <2>2, OrderSend
  <2> QED BY <2>1, <2>2
<1> QED BY <1>0, <1>1, <1>2 DEF Inv, TypeInv, StopInv

LEMMA InvInterpret ==
  ASSUME NEW c, Clients = {c}, Inv(c), Interpret
  PROVE  Inv(c)'
<1>0. c \in Clients /\ TypeInv /\ OrderInv(c)
  BY DEF Inv
<1>1. CASE Start \/ Leave
  <2>1. UNCHANGED <<inbox, sent, replies, events, stops, expressions, block,
                    stopped, server, got>>
    BY <1>1 DEF Start, Leave, clientVars, data, history
  <2>2. OrderInv(c)'
    BY <1>0, <2>1, OrderFrame
  <2> QED BY <1>0, <2>1, <2>2 DEF Inv, TypeInv, StopInv
<1>2. CASE Emit
  <2>1. /\ UNCHANGED <<inbox, sent, replies, events, expressions, block,
                       server, got>>
        /\ \/ UNCHANGED <<stops, stopped>>
           \/ stops' = stops + 1 /\ \E b : stopped' = {b}
    <3> DEFINE Hit == CHOOSE b \in BreakpointsAt(Program[ip]) :
                        \A d \in BreakpointsAt(Program[ip]) : b.id <= d.id
    <3>1. /\ UNCHANGED <<inbox, sent, replies, events, expressions, block,
                         server, got>>
          /\ \/ UNCHANGED <<stops, stopped>>
             \/ stops' = stops + 1 /\ stopped' = {Hit}
      BY <1>2, Zenon DEF Emit, clientVars
    <3> QED BY <3>1, Zenon
  <2>2. OrderInv(c)'
    BY <1>0, <2>1, OrderFrame
  <2>3. stops' \in Nat
    BY <1>0, <2>1 DEF TypeInv
  <2>4. stopped # {} => stopped' # {}
    BY <2>1
  <2> QED BY <1>0, <2>1, <2>2, <2>3, <2>4 DEF Inv, TypeInv, StopInv
<1>3. CASE EvaluateRaises \/ EvaluateNothing
  <2>1. /\ UNCHANGED <<inbox, sent, replies, events, stops, stopped, block,
                       server, got>>
        /\ expressions # <<>> /\ expressions' = Tail(expressions)
    BY <1>3 DEF EvaluateRaises, EvaluateNothing, clientVars, history
  <2>2. Len(expressions) = 1 /\ expressions \in Seq(Sent)
    BY <1>0, <2>1 DEF OrderInv, TypeInv
  <2>3. expressions' = <<>>
    BY <2>1, <2>2, OnlyOne
  <2>4. OrderInv(c)'
    BY <1>0, <2>1, <2>3, OrderFrame
  <2>5. expressions' \in Seq(Sent)
    BY <2>3
  <2> QED BY <1>0, <2>1, <2>4, <2>5 DEF Inv, TypeInv, StopInv
<1>4. CASE EvaluateValue
  <2>1. OrderInv(c)' /\ replies' \in [Clients -> Seq(Written)]
        /\ block = c /\ expressions' = <<>>
    BY <1>0, <1>4, OrderValue
  <2>2. /\ UNCHANGED <<inbox, sent, events, stops, stopped, server>>
        /\ got' = [got EXCEPT ![c] = TRUE]
    BY <1>4, <2>1 DEF EvaluateValue, clientVars
  <2>3. expressions' \in Seq(Sent)
    BY <2>1
  <2> QED BY <1>0, <2>1, <2>2, <2>3 DEF Inv, TypeInv, StopInv
<1> QED BY <1>1, <1>2, <1>3, <1>4 DEF Interpret

LEMMA InvStep ==
  ASSUME NEW c, Clients = {c}
  PROVE  Inv(c) /\ [Next]_vars => Inv(c)'
<1> SUFFICES ASSUME Inv(c), [Next]_vars PROVE Inv(c)'
  OBVIOUS
<1>1. CASE UNCHANGED vars
  <2>1. OrderInv(c)'
    BY <1>1, OrderFrame DEF Inv, vars, clientVars, data, history
  <2> QED BY <1>1, <2>1
          DEF Inv, TypeInv, StopInv, vars, clientVars, data, history
<1>2. CASE (\E r \in Requests \cup First : Send(c, r)) \/ HangUp(c)
  BY <1>2, InvClient
<1>3. CASE Interpret
  BY <1>3, InvInterpret
<1>4. CASE Serve(c)
  BY <1>4, InvReceive, InvBreakpoints, InvContinue, InvEvaluate, InvWait,
     InvWriteFails DEF Serve
<1> QED BY <1>1, <1>2, <1>3, <1>4, NextOfOne

LEMMA InvInit ==
  ASSUME NEW c, Clients = {c}
  PROVE  Init => Inv(c)
<1> SUFFICES ASSUME Init PROVE Inv(c)
  OBVIOUS
<1>1. inbox[c] = <<>> /\ sent[c] = 0 /\ replies[c] = <<>> /\ expressions = <<>>
      /\ server[c] = "initialize"
  BY DEF Init
<1>2. OrderInv(c)
  BY <1>1 DEF OrderInv, Read
<1> QED BY <1>1, <1>2, TypeInit DEF Inv, StopInv, AtStop

LEMMA Invariant ==
  ASSUME NEW c, Clients = {c}
  PROVE  Spec => []Inv(c)
BY InvInit, InvStep, PTL DEF Spec

-----------------------------------------------------------------------------
(* With one client, requests are answered in the order they were sent and  *)
(* none twice, whatever is evaluated and wherever the client hangs up.     *)
THEOREM OneClientInOrder ==
  ASSUME NEW c, Clients = {c}
  PROVE  Spec => []AnsweredInOrder
<1>1. Inv(c) => AnsweredInOrder
  BY DEF Inv, OrderInv, AnsweredInOrder
<1> QED BY <1>1, Invariant, PTL

(* With one client, no expression is left to a later stop.                 *)
THEOREM OneClientNoneStale ==
  ASSUME NEW c, Clients = {c}
  PROVE  Spec => []NoStaleExpression
<1>1. Inv(c) => NoStaleExpression
  BY DEF Inv, OrderInv, StopInv, AtStop, NoStaleExpression
<1> QED BY <1>1, Invariant, PTL

-----------------------------------------------------------------------------
(* Without an expression that raises, the program is held at a stop.       *)

LEMMA HoldServe ==
  ASSUME NEW c, Clients = {c}, Inv(c), HoldInv(c), Serve(c)
  PROVE  HoldInv(c)'
<1>0. c \in Clients /\ TypeInv
  BY DEF Inv
<1> USE DEF HoldInv, Opened, AtStop
<1>1. interp' = interp /\ hungUp' = hungUp /\ stops' = stops
  BY DEF Serve, EndOfStream, ReceiveInitialize, ReceiveLaunch,
     ConfigurationDone, Configure, Watch, Evaluate, Answered, Continue, Resume,
     ReplBreakpoints, Invalid, WriteFails, Reads, Reply, Die, SetBreakpoints,
     clientVars, history
<1>2. CASE ReceiveInitialize(c) \/ ReceiveLaunch(c) \/ Configure(c)
  <2>1. /\ server[c] \in Opened
        /\ server'[c] \in {"launch", "configure", "dead"}
        /\ UNCHANGED <<ready, stopped, events>>
    BY <1>0, <1>2
       DEF ReceiveInitialize, ReceiveLaunch, Configure, Reads, Reply, Die,
       Goto, SetBreakpoints, data, history, TypeInv
  <2> QED BY <1>1, <2>1
<1>3. CASE ConfigurationDone(c)
  <2>1. /\ server[c] \in Opened /\ server'[c] = "watch"
        /\ UNCHANGED <<stopped, events>>
    BY <1>0, <1>3 DEF ConfigurationDone, Reads, Reply, Goto, TypeInv
  <2> QED BY <1>1, <2>1
<1>4. CASE Watch(c)
  <2>1. /\ server[c] = "watch" /\ server'[c] = "repl" /\ stopped # {}
        /\ UNCHANGED <<ready, stopped>> /\ events'[c] = events[c] + 1
    BY <1>0, <1>4 DEF Watch, Goto, data, TypeInv
  <2>2. events[c] \in Nat /\ stops \in Nat
    BY <1>0 DEF TypeInv
  <2> QED BY <1>1, <2>1, <2>2
<1>5. CASE Evaluate(c) \/ Answered(c) \/ Continue(c) \/ ReplBreakpoints(c)
           \/ Invalid(c)
  <2>1. /\ server[c] \in AtStop /\ server'[c] \in AtStop \cup {"dead"}
        /\ UNCHANGED <<ready, stopped, events>>
    BY <1>0, <1>5
       DEF Evaluate, Answered, Continue, ReplBreakpoints, Invalid, Reads,
       Reply, Die, Goto, SetBreakpoints, data, history, TypeInv
  <2> QED BY <1>1, <2>1
<1>6. CASE Resume(c)
  <2>1. /\ server[c] = "resume" /\ server'[c] = "watch" /\ stopped' = {}
        /\ UNCHANGED <<ready, events>>
    BY <1>0, <1>6 DEF Resume, Goto, history, TypeInv
  <2>2. events[c] \in Nat
    BY <1>0 DEF TypeInv
  <2> QED BY <1>1, <2>1, <2>2
<1>7. CASE EndOfStream(c) \/ WriteFails(c)
  <2>1. /\ server'[c] = "dead" /\ c \in hungUp
    BY <1>0, <1>7 DEF EndOfStream, WriteFails, Goto, TypeInv
  <2> QED BY <1>1, <2>1
<1> QED BY <1>2, <1>3, <1>4, <1>5, <1>6, <1>7 DEF Serve

LEMMA HoldInterpret ==
  ASSUME NEW c, Clients = {c}, Quiet, Inv(c), HoldInv(c), Interpret
  PROVE  HoldInv(c)'
<1>0. c \in Clients /\ TypeInv
  BY DEF Inv
<1>1. UNCHANGED <<hungUp, events, server, ready>>
  BY DEF Interpret, Start, Emit, Leave, EvaluateRaises, EvaluateValue,
     EvaluateNothing, clientVars, data, history
<1>2. CASE Start
  <2>1. UNCHANGED <<stopped, stops>> /\ interp = "waiting" /\ ready
    BY <1>2 DEF Start, data, history
  <2> QED BY <1>1, <2>1 DEF HoldInv
<1>3. CASE Emit
  <2>1. interp = "emit" /\ interp' = "hold"
    BY <1>3 DEF Emit
  <2>2. server[c] \notin Opened
    BY <2>1 DEF HoldInv
  <2>3. \/ stopped' # {} /\ stops' = stops + 1
        \/ UNCHANGED <<stopped, stops>>
    BY <1>3 DEF Emit
  <2>4. c \notin hungUp => stopped = {} /\ server[c] \notin AtStop
    BY <2>1 DEF HoldInv, Inv, StopInv
  <2>5. events[c] \in Nat /\ stops \in Nat
    BY <1>0 DEF TypeInv
  <2> QED BY <1>1, <2>1, <2>2, <2>3, <2>4, <2>5 DEF HoldInv
<1>4. CASE Leave
  <2>1. UNCHANGED <<stopped, stops>> /\ stopped = {} /\ interp = "hold"
    BY <1>4 DEF Leave, data, history
  <2> QED BY <1>1, <2>1 DEF HoldInv
<1>5. CASE EvaluateRaises
  <2>1. /\ UNCHANGED <<stopped, stops>> /\ interp = "hold"
        /\ expressions # <<>>
        /\ Head(expressions).request.raises \/ block \in hungUp
    BY <1>5 DEF EvaluateRaises, history
  <2>2. block = c /\ Len(expressions) = 1
    BY <2>1 DEF Inv, OrderInv
  <2>3. Head(expressions) \in Sent
    BY <1>0, <2>2, OnlyOne DEF TypeInv
  <2>4. c \in hungUp
    BY <2>1, <2>2, <2>3 DEF Quiet, Sent
  <2> QED BY <1>1, <2>1, <2>4 DEF HoldInv
<1>6. CASE EvaluateValue \/ EvaluateNothing
  <2>1. UNCHANGED <<stopped, stops, interp>>
    BY <1>6 DEF EvaluateValue, EvaluateNothing, history
  <2> QED BY <1>1, <2>1 DEF HoldInv
<1> QED BY <1>2, <1>3, <1>4, <1>5, <1>6 DEF Interpret

LEMMA HoldStep ==
  ASSUME NEW c, Clients = {c}, Quiet
  PROVE  Inv(c) /\ HoldInv(c) /\ [Next]_vars => HoldInv(c)'
<1> SUFFICES ASSUME Inv(c), HoldInv(c), [Next]_vars PROVE HoldInv(c)'
  OBVIOUS
<1>1. CASE UNCHANGED vars
  BY <1>1 DEF HoldInv, vars, clientVars, data, history
<1>2. CASE (\E r \in Requests \cup First : Send(c, r)) \/ HangUp(c)
  <2>1. /\ UNCHANGED <<interp, ready, stopped, stops, events, server>>
        /\ hungUp \subseteq hungUp'
    BY <1>2 DEF Send, HangUp, data, history
  <2> QED BY <2>1 DEF HoldInv
<1>3. CASE Interpret
  BY <1>3, HoldInterpret
<1>4. CASE Serve(c)
  BY <1>4, HoldServe
<1> QED BY <1>1, <1>2, <1>3, <1>4, NextOfOne

LEMMA HoldInvariant ==
  ASSUME NEW ide, Clients = {ide}, Quiet
  PROVE  Spec => [](Inv(ide) /\ HoldInv(ide))
<1>1. Init => HoldInv(ide)
  BY DEF Init, HoldInv, AtStop
<1>2. Init => Inv(ide)
  BY InvInit
<1>3. Inv(ide) /\ [Next]_vars => Inv(ide)'
  BY InvStep
<1>4. Inv(ide) /\ HoldInv(ide) /\ [Next]_vars => HoldInv(ide)'
  BY HoldStep
<1> QED BY <1>1, <1>2, <1>3, <1>4, PTL DEF Spec

(* With one client and without an expression that raises, each stop of the *)
(* program is one stopped event, sent before the first answer at the stop. *)
THEOREM OneClientStopsReported ==
  ASSUME NEW ide, Clients = {ide}, Quiet
  PROVE  Spec => []EveryStopReported
<1>1. HoldInv(ide) => EveryStopReported
  BY DEF HoldInv, AtStop, EveryStopReported
<1> QED BY <1>1, HoldInvariant, PTL

(* Under the same conditions the program executes no node from the stopped *)
(* event until continue, unless the client hangs up.                       *)
THEOREM OneClientHeld ==
  ASSUME NEW ide, Clients = {ide}, Quiet
  PROVE  Spec => HeldWhileStopped
<1>1. Inv(ide) /\ HoldInv(ide) /\ [Next]_vars =>
        [ip' # ip => \A c \in Clients :
           server[c] \in {"repl", "evaluating"} => c \in hungUp]_vars
  <2> SUFFICES ASSUME Inv(ide), HoldInv(ide), Next, ip' # ip,
                      server[ide] \in {"repl", "evaluating"}
               PROVE  ide \in hungUp
    OBVIOUS
  <2>1. stopped # {}
    BY DEF Inv, StopInv, AtStop
  <2>2. Interpret
    BY NextOfOne DEF Send, HangUp, Serve, EndOfStream, ReceiveInitialize,
       ReceiveLaunch, ConfigurationDone, Configure, Watch, Evaluate, Answered,
       Continue, Resume, ReplBreakpoints, Invalid, WriteFails
  <2>3. EvaluateRaises
    BY <2>1, <2>2 DEF Interpret, Start, Emit, Leave, EvaluateValue,
       EvaluateNothing
  <2>4. /\ expressions # <<>>
        /\ Head(expressions).request.raises \/ block \in hungUp
    BY <2>3 DEF EvaluateRaises
  <2>5. block = ide /\ Len(expressions) = 1 /\ expressions \in Seq(Sent)
    BY <2>4 DEF Inv, OrderInv, TypeInv
  <2>6. Head(expressions) \in Sent
    BY <2>5, OnlyOne
  <2> QED BY <2>4, <2>5, <2>6 DEF Quiet, Sent
<1>2. Spec =>
        [][ip' # ip => \A c \in Clients :
             server[c] \in {"repl", "evaluating"} => c \in hungUp]_vars
  BY <1>1, HoldInvariant, PTL DEF Spec
<1> QED BY <1>2 DEF HeldWhileStopped
=============================================================================
