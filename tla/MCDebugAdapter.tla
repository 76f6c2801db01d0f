--------------------------- MODULE MCDebugAdapter ---------------------------
(* Instances of DebugAdapter for TLC: a program and what the IDE sends.    *)
EXTENDS DebugAdapter

Plain(command, args) ==
  [command |-> command, args |-> args, lines |-> <<>>, raises |-> FALSE]

SetLines(lines) == [Plain("setBreakpoints", "breakpoints") EXCEPT !.lines = lines]

OpenSession == <<Plain("initialize", "other"), Plain("launch", "other")>>

(* The second line has two nodes and is executed again after the third. *)
Looping == <<1, 2, 2, 3, 2>>

Value == Plain("evaluate", "evaluate")

(* What an IDE sends, and requests without the arguments they need.  No    *)
(* expression raises: see HeldWhileStopped.                                *)
SomeRequests ==
  {SetLines(<<2>>), SetLines(<<3, 1>>), Plain("configurationDone", "absent"),
   Value, Plain("evaluate", "absent"), Plain("continue", "continue"),
   Plain("threads", "absent")}
=============================================================================
