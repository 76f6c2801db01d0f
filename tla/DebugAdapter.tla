---------------------------- MODULE DebugAdapter ----------------------------
(***************************************************************************)
(* The debugger embedded in the interpreter: the server of                 *)
(* interpreter/debug_adapter_protocol/adapter.cr, one fiber per client,    *)
(* and the interpreter, whose on_emit block in repl.cr looks for a         *)
(* breakpoint before every node and holds the program while it is stopped. *)
(* They share the class variables of Data and run on one thread: a step is *)
(* what a fiber does from one sleep, read or write to the next.            *)
(*                                                                         *)
(* A request carries its command and the type its arguments parse as       *)
(* ("absent" parses as any type, "other" as none; every object parses as   *)
(* InitializeRequestArguments).  Breakpoints are those of the one source   *)
(* file that is debugged; a response is its command and request_seq.       *)
(***************************************************************************)
EXTENDS Naturals, Sequences, FiniteSets

CONSTANTS
  Clients,       \* the connections the server accepts
  Nobody,        \* nil
  Program,       \* the line of each node, in the order of execution
  Requests,      \* what a client may send after Opening
  Opening,       \* the requests every client sends first
  MaxRequests,   \* bound: requests each client sends
  MaxInFlight    \* bound: requests sent and not read yet

Commands == {"initialize", "launch", "attach", "setBreakpoints",
             "configurationDone", "evaluate", "continue", "threads"}

Request == [command : Commands,
            args : {"absent", "other", "breakpoints", "evaluate", "continue"},
            lines : Seq(Nat),      \* of setBreakpoints
            raises : BOOLEAN]      \* does the expression of evaluate raise?

ASSUME DebugAssumption ==
  /\ Nobody \notin Clients
  /\ Program \in Seq(Nat)
  /\ Requests \subseteq Request /\ Opening \in Seq(Request)
  /\ MaxRequests \in Nat /\ MaxInFlight \in Nat

VARIABLES
  inbox,        \* inbox[c]: requests of c the server has not read
  sent,         \* sent[c]: how many requests c sent, the last one's seq
  hungUp,       \* clients that closed their connection
  replies,      \* history: the responses written to each client
  events,       \* history: how many stopped events each client got
  server,       \* server[c]: where the fiber of c is
  got,          \* got[c]: got_message of the evaluate c waits for
  breakpoints,  \* @@breakpoints of the file: id and line
  bpCount,      \* @@breakpoint_count
  expressions,  \* @@expressions: evaluate requests, oldest first
  block,        \* @@on_expression_value: the client its closure answers
  stopped,      \* @@stopped_breakpoint
  ready,        \* @@ready
  interp, ip,   \* the interpreter's step and its next node
  stops         \* history: how often stop! was called

clientVars == <<inbox, sent, hungUp>>
data == <<breakpoints, bpCount, expressions, block, stopped, ready>>
history == <<replies, events, stops>>
vars == <<clientVars, data, history, server, got, interp, ip>>

Init ==
  /\ inbox = [c \in Clients |-> <<>>]
  /\ sent = [c \in Clients |-> 0]
  /\ hungUp = {}
  /\ replies = [c \in Clients |-> <<>>]
  /\ events = [c \in Clients |-> 0]
  /\ server = [c \in Clients |-> "initialize"]
  /\ got = [c \in Clients |-> FALSE]
  /\ breakpoints = {} /\ bpCount = 0
  /\ expressions = <<>> /\ block = Nobody
  /\ stopped = {} /\ ready = FALSE
  /\ interp = "waiting" /\ ip = 1
  /\ stops = 0

Goto(c, step) == server' = [server EXCEPT ![c] = step]

-----------------------------------------------------------------------------
(* The client *)

Send(c, r) ==
  /\ interp # "done" /\ c \notin hungUp
  /\ sent[c] < MaxRequests /\ Len(inbox[c]) < MaxInFlight
  /\ sent[c] < Len(Opening) => r = Opening[sent[c] + 1]
  /\ sent' = [sent EXCEPT ![c] = @ + 1]
  /\ inbox' = [inbox EXCEPT ![c] =
                 Append(@, [client |-> c, seq |-> sent[c] + 1, request |-> r])]
  /\ UNCHANGED <<hungUp, data, history, server, got, interp, ip>>

HangUp(c) ==
  /\ interp # "done" /\ c \notin hungUp /\ sent[c] >= Len(Opening)
  /\ hungUp' = hungUp \cup {c}
  /\ UNCHANGED <<inbox, sent, data, history, server, got, interp, ip>>

-----------------------------------------------------------------------------
(* The fiber of a client: handle_client *)

(* parse_dap returns the next message. *)
Reads(c, step) ==
  /\ interp # "done"
  /\ server[c] = step /\ inbox[c] # <<>>
  /\ inbox' = [inbox EXCEPT ![c] = Tail(@)]
  /\ UNCHANGED <<sent, hungUp>>

Message(c) == Head(inbox[c])
Command(c) == Message(c).request.command
Parses(c, type) == Message(c).request.args \in {type, "absent"}

Replied(c, m, command, success) ==
  [replies EXCEPT ![c] = Append(@, [seq |-> m.seq, command |-> command,
                                    asked |-> m.request.command,
                                    success |-> success])]

Reply(c, command, success) ==
  /\ replies' = Replied(c, Message(c), command, success)
  /\ UNCHANGED <<events, stops>>

(* At the end of the stream `not_nil!` raises, and so does from_json on    *)
(* arguments of another type: the fiber is gone, the socket left open.     *)
EndOfStream(c) ==
  /\ interp # "done" /\ c \in hungUp /\ inbox[c] = <<>>
  /\ server[c] \in {"initialize", "launch", "configure", "repl"}
  /\ Goto(c, "dead")
  /\ UNCHANGED <<clientVars, data, history, got, interp, ip>>

Die(c) == Goto(c, "dead") /\ UNCHANGED <<data, history, got>>

ReceiveInitialize(c) ==
  /\ Reads(c, "initialize")
  /\ Reply(c, Command(c), TRUE)
  /\ Goto(c, "launch")
  /\ UNCHANGED <<data, got, interp, ip>>

(* A launch, an attach or an error: the fiber goes on all the same. *)
ReceiveLaunch(c) ==
  /\ Reads(c, "launch")
  /\ Reply(c, Command(c), Command(c) \in {"launch", "attach"})
  /\ Goto(c, "configure")
  /\ UNCHANGED <<data, got, interp, ip>>

(* The breakpoints of the file are replaced, with new ids. *)
SetBreakpoints(c) ==
  LET lines == Message(c).request.lines
  IN  /\ IF Message(c).request.args = "absent"
           THEN UNCHANGED <<breakpoints, bpCount>>
           ELSE /\ breakpoints' = {[id |-> bpCount + i, line |-> lines[i]] :
                                     i \in DOMAIN lines}
                /\ bpCount' = bpCount + Len(lines)
      /\ UNCHANGED <<expressions, block, stopped, ready>>

(* receive_configuration_request: configurationDone ends it; the guard     *)
(* against other commands only sends an error when the message is no       *)
(* request either, so a request of any command is parsed as setBreakpoints.*)
ConfigurationDone(c) ==
  /\ Reads(c, "configure") /\ Command(c) = "configurationDone"
  /\ Reply(c, "configurationDone", TRUE)
  /\ ready' = TRUE
  /\ Goto(c, "watch")
  /\ UNCHANGED <<breakpoints, bpCount, expressions, block, stopped, got,
                 interp, ip>>

Configure(c) ==
  /\ Reads(c, "configure") /\ Command(c) # "configurationDone"
  /\ IF Parses(c, "breakpoints")
       THEN /\ SetBreakpoints(c)
            /\ Reply(c, "setBreakpoints", TRUE)
            /\ UNCHANGED <<server, got>>
       ELSE Die(c)
  /\ UNCHANGED <<interp, ip>>

(* subscription_loop: nothing is read until the program has stopped. *)
Watch(c) ==
  /\ interp # "done" /\ server[c] = "watch" /\ stopped # {}
  /\ events' = [events EXCEPT ![c] = @ + 1]
  /\ Goto(c, "repl")
  /\ UNCHANGED <<clientVars, data, replies, stops, got, interp, ip>>

(* Faulty variant of Evaluate: the fiber does not wait for the value. *)
EvaluateUnwaited(c) ==
  /\ Reads(c, "repl") /\ Command(c) = "evaluate" /\ Parses(c, "evaluate")
  /\ block' = c
  /\ expressions' = Append(expressions, Message(c))
  /\ UNCHANGED <<breakpoints, bpCount, stopped, ready, history, server, got,
                 interp, ip>>

(* The loop of handle_stopped_breakpoint. *)
Evaluate(c) ==
  /\ Reads(c, "repl") /\ Command(c) = "evaluate"
  /\ IF Parses(c, "evaluate")
       THEN /\ block' = c
            /\ expressions' = Append(expressions, Message(c))
            /\ got' = [got EXCEPT ![c] = FALSE]
            /\ Goto(c, "evaluating")
            /\ UNCHANGED <<breakpoints, bpCount, stopped, ready, history>>
       ELSE Die(c)
  /\ UNCHANGED <<interp, ip>>

(* `while !got_message` *)
Answered(c) ==
  /\ interp # "done" /\ server[c] = "evaluating" /\ got[c]
  /\ Goto(c, "repl")
  /\ UNCHANGED <<clientVars, data, history, got, interp, ip>>

Continue(c) ==
  /\ Reads(c, "repl") /\ Command(c) = "continue"
  /\ IF Parses(c, "continue")
       THEN /\ Reply(c, "continue", TRUE)
            /\ Goto(c, "resume")
            /\ UNCHANGED <<data, got>>
       ELSE Die(c)
  /\ UNCHANGED <<interp, ip>>

(* Faulty variant of Resume: without resume!. *)
ResumeForgotten(c) ==
  /\ interp # "done" /\ server[c] = "resume"
  /\ Goto(c, "watch")
  /\ UNCHANGED <<clientVars, data, history, got, interp, ip>>

Resume(c) ==
  /\ interp # "done" /\ server[c] = "resume"
  /\ stopped' = {}
  /\ Goto(c, "watch")
  /\ UNCHANGED <<clientVars, breakpoints, bpCount, expressions, block, ready,
                 history, got, interp, ip>>

ReplBreakpoints(c) ==
  /\ Reads(c, "repl") /\ Command(c) = "setBreakpoints"
  /\ IF Parses(c, "breakpoints")
       THEN /\ SetBreakpoints(c)
            /\ Reply(c, "setBreakpoints", TRUE)
            /\ UNCHANGED <<server, got>>
       ELSE Die(c)
  /\ UNCHANGED <<interp, ip>>

(* "invalid repl state": any other request is dropped without an answer. *)
Invalid(c) ==
  /\ Reads(c, "repl")
  /\ Command(c) \notin {"evaluate", "continue", "setBreakpoints"}
  /\ UNCHANGED <<data, history, server, got, interp, ip>>

(* Writing to a client that hung up raises, at the latest from the second  *)
(* write on: the fiber is gone before what it does after the write, that   *)
(* is before ready! and resume!, but the breakpoints are already replaced. *)
WriteFails(c) ==
  /\ c \in hungUp
  /\ \/ /\ Reads(c, "initialize") \/ Reads(c, "launch")
        /\ UNCHANGED data
     \/ /\ \/ Reads(c, "configure") /\ Command(c) # "configurationDone"
           \/ Reads(c, "repl") /\ Command(c) = "setBreakpoints"
        /\ Parses(c, "breakpoints")
        /\ SetBreakpoints(c)
     \/ /\ \/ Reads(c, "configure") /\ Command(c) = "configurationDone"
           \/ Reads(c, "repl") /\ Command(c) = "continue"
        /\ UNCHANGED data
     \/ /\ interp # "done" /\ server[c] = "watch" /\ stopped # {}
        /\ UNCHANGED <<clientVars, data>>
  /\ Goto(c, "dead")
  /\ UNCHANGED <<history, got, interp, ip>>

-----------------------------------------------------------------------------
(* The interpreter: run_file, then the on_emit block before each node *)

Start ==
  /\ interp = "waiting" /\ ready
  /\ interp' = IF Program = <<>> THEN "done" ELSE "emit"
  /\ UNCHANGED <<clientVars, data, history, server, got, ip>>

BreakpointsAt(line) == {b \in breakpoints : b.line = line}

(* has_breakpoint? and stop! *)
Emit ==
  /\ interp = "emit"
  /\ IF BreakpointsAt(Program[ip]) # {}
       THEN /\ stopped' = {CHOOSE b \in BreakpointsAt(Program[ip]) :
                             \A d \in BreakpointsAt(Program[ip]) : b.id <= d.id}
            /\ stops' = stops + 1
       ELSE UNCHANGED <<stopped, stops>>
  /\ interp' = "hold"
  /\ UNCHANGED <<clientVars, breakpoints, bpCount, expressions, block, ready,
                 replies, events, server, got, ip>>

(* The node is executed; after the last one run_file exits the process. *)
Advance ==
  /\ ip' = ip + 1
  /\ interp' = IF ip = Len(Program) THEN "done" ELSE "emit"

(* Faulty variant of Leave: the loop ends when nothing is to evaluate. *)
LeaveIdle ==
  /\ interp = "hold" /\ expressions = <<>>
  /\ Advance
  /\ UNCHANGED <<clientVars, data, history, server, got>>

(* The loop ends once the program is not stopped. *)
Leave ==
  /\ interp = "hold" /\ stopped = {}
  /\ Advance
  /\ UNCHANGED <<clientVars, data, history, server, got>>

(* What an expression raises, or the write of its value to a client that   *)
(* hung up, is rescued outside the loop: the block ends, no value is sent, *)
(* and the interpreter goes on to the next node.                           *)
EvaluateRaises ==
  /\ interp = "hold" /\ stopped # {} /\ expressions # <<>>
  /\ Head(expressions).request.args # "absent"
  /\ Head(expressions).request.raises \/ block \in hungUp
  /\ expressions' = Tail(expressions)
  /\ Advance
  /\ UNCHANGED <<clientVars, breakpoints, bpCount, block, stopped, ready,
                 history, server, got>>

(* Faulty variants of EvaluateValue: the request stays first in line; the  *)
(* fiber that waits is not told.                                           *)
EvaluateValueAgain ==
  /\ interp = "hold" /\ stopped # {} /\ expressions # <<>>
  /\ Head(expressions).request.args # "absent"
  /\ ~Head(expressions).request.raises
  /\ Len(replies[block]) < 2 * MaxRequests
  /\ replies' = Replied(block, Head(expressions), "evaulate", TRUE)
  /\ got' = [got EXCEPT ![block] = TRUE]
  /\ UNCHANGED <<clientVars, data, events, stops, server, interp, ip>>

EvaluateValueUntold ==
  /\ interp = "hold" /\ stopped # {} /\ expressions # <<>>
  /\ Head(expressions).request.args # "absent"
  /\ ~Head(expressions).request.raises
  /\ expressions' = Tail(expressions)
  /\ replies' = Replied(block, Head(expressions), "evaulate", TRUE)
  /\ UNCHANGED <<clientVars, breakpoints, bpCount, block, stopped, ready,
                 events, stops, server, got, interp, ip>>

(* The value goes to whoever registered the block last. *)
EvaluateValue ==
  /\ interp = "hold" /\ stopped # {} /\ expressions # <<>>
  /\ Head(expressions).request.args # "absent"
  /\ ~Head(expressions).request.raises
  /\ expressions' = Tail(expressions)
  /\ replies' = Replied(block, Head(expressions), "evaulate", TRUE)
  /\ got' = [got EXCEPT ![block] = TRUE]
  /\ UNCHANGED <<clientVars, breakpoints, bpCount, block, stopped, ready,
                 events, stops, server, interp, ip>>

(* A request without arguments is shifted and forgotten. *)
EvaluateNothing ==
  /\ interp = "hold" /\ stopped # {} /\ expressions # <<>>
  /\ Head(expressions).request.args = "absent"
  /\ expressions' = Tail(expressions)
  /\ UNCHANGED <<clientVars, breakpoints, bpCount, block, stopped, ready,
                 history, server, got, interp, ip>>

-----------------------------------------------------------------------------
Serve(c) ==
  \/ EndOfStream(c) \/ ReceiveInitialize(c) \/ ReceiveLaunch(c)
  \/ ConfigurationDone(c) \/ Configure(c) \/ Watch(c) \/ Evaluate(c)
  \/ Answered(c) \/ Continue(c) \/ Resume(c) \/ ReplBreakpoints(c)
  \/ Invalid(c) \/ WriteFails(c)

Interpret ==
  Start \/ Emit \/ Leave \/ EvaluateRaises \/ EvaluateValue \/ EvaluateNothing

First == {Opening[i] : i \in DOMAIN Opening}

Next ==
  \/ \E c \in Clients : \/ \E r \in Requests \cup First : Send(c, r)
                        \/ HangUp(c)
                        \/ Serve(c)
  \/ Interpret

Spec == Init /\ [][Next]_vars

(* All fibers sleep between their steps, so each runs again. *)
Fairness == WF_vars(Interpret) /\ \A c \in Clients : WF_vars(Serve(c))

FairSpec == Spec /\ Fairness

-----------------------------------------------------------------------------
(* From the stopped event until the answer to continue, the program does   *)
(* not execute a single node, whichever requests the client sends in       *)
(* between, unless it hangs up.  This is so only as long as no expression  *)
(* raises: what one raises is rescued behind the loop that holds the       *)
(* program (repl.cr:66), which goes on although the client sent no         *)
(* continue and is told nothing (EvaluateRaises).                          *)
HeldWhileStopped ==
  [][ip' # ip => \A c \in Clients :
       server[c] \in {"repl", "evaluating"} => c \in hungUp]_vars

(* Every stop of the program is one stopped event for a connected client,  *)
(* sent before any request is answered at that stop; as long as no         *)
(* expression raises, for then the program may stop again while the fiber  *)
(* of the client still waits for the value.                                *)
EveryStopReported ==
  \A c \in Clients \ hungUp :
    /\ server[c] \in {"repl", "evaluating", "resume"} => events[c] = stops
    /\ server[c] = "watch" => events[c] = stops - (IF stopped = {} THEN 0 ELSE 1)

(* No expression is left over when the program goes on: it would be        *)
(* evaluated at a later stop, in another scope.                            *)
NoStaleExpression == stopped = {} => expressions = <<>>

(* Requests are answered in the order they were sent and none twice,       *)
(* though evaluate is answered by another fiber than the rest.             *)
AnsweredInOrder ==
  \A c \in Clients : \A i, j \in DOMAIN replies[c] :
    i < j => replies[c][i].seq < replies[c][j].seq

(* An expression can be evaluated from a breakpoint: the connected client  *)
(* that asks with one that raises nothing gets an answer, and its fiber    *)
(* attends to the next request.                                            *)
EvaluateAnswered ==
  \A c \in Clients :
    (\E i \in DOMAIN expressions :
       LET e == expressions[i]
       IN  e.client = c /\ e.request.args # "absent" /\ ~e.request.raises)
      ~> server[c] = "repl" \/ c \in hungUp
=============================================================================
