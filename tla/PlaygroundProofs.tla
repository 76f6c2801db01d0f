-------------------------- MODULE PlaygroundProofs --------------------------
(* What TLAPS proves of Playground, for all pages, any number of changes   *)
(* and of runs, and all values that programs report.                       *)
EXTENDS Playground, FiniteSetTheorems, TLAPS

Requests == [type : {"run", "stop", "format"}, tag : Nat,
             value : Code \cup {None}]

Answers ==
  [type : {"run", "output", "value", "runtime-exception", "exit",
           "exception", "bug", "format"},
   tag : Nat, value : Code \cup {None, 0, 1} \cup BOOLEAN \cup Messages]

Indicators == [isError : BOOLEAN, colour : {"off", "teal", "red"},
               last : BOOLEAN, stray : Nat]

TypeInv ==
  /\ page \in Pages /\ stored \in Code \cup {None}
  /\ text \in Code /\ edits \in Nat /\ runTag \in Nat
  /\ toServer \in Seq(Requests) /\ toClient \in Seq(Answers)
  /\ \A i \in DOMAIN toServer :
       toServer[i].type = "format" => toServer[i].value \in Code
  /\ \A i \in DOMAIN toClient :
       toClient[i].type = "format" => toClient[i].value \in Code
  /\ indicator \in Indicators
  /\ inspector # None =>
       inspector = [tag |-> inspector.tag, values |-> inspector.values]

(* A page that lost its connection starts nothing, and nothing is under    *)
(* way without one.  The stop button is that of a connected, running page. *)
ConnectionInv ==
  /\ ws \in {"connecting", "open", "closed"}
  /\ ws = "closed" => lost
  /\ ws # "open" => toServer = <<>> /\ toClient = <<>>
  /\ buttons = "stop" => isRunning /\ ws = "open"

(* Nothing is ahead of the page, a request to run is of the run that shows *)
(* the stop button, and there is no other program than that of this run.   *)
TagInv ==
  /\ \A i \in DOMAIN toServer :
       /\ toServer[i].tag <= runTag
       /\ toServer[i].type = "run" =>
            buttons = "stop" /\ toServer[i].tag = runTag
       /\ buttons = "stop" /\ toServer[i].type = "format" =>
            toServer[i].tag # runTag
  /\ \A i \in DOMAIN toClient : toClient[i].tag <= runTag
  /\ alive \subseteq {runTag}
  /\ alive # {} => isRunning /\ ws # "connecting"
  /\ alive # {} /\ ws = "open" => buttons = "stop"

(* The three places where the end of the run that shows the stop button    *)
(* can be; it is in just one of them.                                      *)
Ends(m) == m.type \in FinishTypes /\ m.tag = runTag

NoRequest == \A i \in DOMAIN toServer : toServer[i].type # "run"
OneRequest ==
  \E i \in DOMAIN toServer :
    \A j \in DOMAIN toServer : toServer[j].type = "run" <=> j = i

NoEnd == \A i \in DOMAIN toClient : ~Ends(toClient[i])
OneEnd ==
  \E i \in DOMAIN toClient :
    \A j \in DOMAIN toClient : Ends(toClient[j]) <=> j = i

DueInv ==
  buttons = "stop" =>
    \/ OneRequest /\ alive = {} /\ NoEnd
    \/ NoRequest /\ alive # {} /\ NoEnd
    \/ NoRequest /\ alive = {} /\ OneEnd

(* A request to stop that the program of a run meets is of that run.       *)
StopInv ==
  /\ \A i, j \in DOMAIN toServer :
       i < j /\ toServer[i].type = "run" /\ toServer[j].type = "stop" =>
         toServer[j].tag = runTag
  /\ alive # {} => \A i \in DOMAIN toServer :
                     toServer[i].type = "stop" => toServer[i].tag = runTag

ControlInv == ConnectionInv /\ TagInv /\ DueInv /\ StopInv

control == <<ws, lost, isRunning, runTag, buttons, toServer, toClient, alive>>

-----------------------------------------------------------------------------
(* Sequences, index by index *)

LEMMA AppendFacts ==
  ASSUME NEW S, NEW s \in Seq(S), NEW e \in S
  PROVE  /\ Append(s, e) \in Seq(S)
         /\ DOMAIN s = 1 .. Len(s) /\ Len(s) \in Nat
         /\ DOMAIN Append(s, e) = 1 .. Len(s) + 1
         /\ \A i \in 1 .. Len(s) : Append(s, e)[i] = s[i]
         /\ Append(s, e)[Len(s) + 1] = e
OBVIOUS

LEMMA TailFacts ==
  ASSUME NEW S, NEW s \in Seq(S), s # <<>>
  PROVE  /\ Tail(s) \in Seq(S)
         /\ Len(s) \in Nat \ {0} /\ DOMAIN s = 1 .. Len(s)
         /\ DOMAIN Tail(s) = 1 .. Len(s) - 1
         /\ \A i \in 1 .. Len(s) - 1 : Tail(s)[i] = s[i + 1]
         /\ Head(s) = s[1] /\ s[1] \in S
OBVIOUS

-----------------------------------------------------------------------------
(* Types *)

LEMMA InitialCodeType ==
  ASSUME NEW p \in Pages, NEW s \in Code \cup {None}
  PROVE  InitialCode(p, s) \in Code
BY PlaygroundAssumption DEF InitialCode, PageType, Code, Default, File

LEMMA TypeInit == Init => TypeInv
<1> SUFFICES ASSUME Init PROVE TypeInv
  OBVIOUS
<1>1. text \in Code
  BY InitialCodeType DEF Init
<1>2. toServer \in Seq(Requests) /\ toClient \in Seq(Answers)
  BY DEF Init
<1>3. indicator \in Indicators
  BY DEF Init, Off, Indicators
<1> QED BY <1>1, <1>2, <1>3 DEF Init, TypeInv

(* Whatever is appended by the page. *)
LEMMA SendType ==
  ASSUME TypeInv, NEW type \in {"run", "stop", "format"}, NEW t \in Nat,
         NEW v \in Code \cup {None}, type = "format" => v \in Code,
         toServer' = Append(toServer, Message(type, t, v))
  PROVE  /\ toServer' \in Seq(Requests)
         /\ \A i \in DOMAIN toServer' :
              toServer'[i].type = "format" => toServer'[i].value \in Code
<1>1. Message(type, t, v) \in Requests
  BY DEF Message, Requests
<1>2. /\ toServer' \in Seq(Requests)
      /\ DOMAIN toServer' = 1 .. Len(toServer) + 1 /\ Len(toServer) \in Nat
      /\ DOMAIN toServer = 1 .. Len(toServer)
      /\ \A i \in 1 .. Len(toServer) : toServer'[i] = toServer[i]
      /\ toServer'[Len(toServer) + 1] = Message(type, t, v)
  BY <1>1, AppendFacts DEF TypeInv
<1> QED BY <1>2 DEF TypeInv, Message

(* Whatever is appended by the server. *)
LEMMA AnswerType ==
  ASSUME TypeInv,
         NEW type \in {"run", "output", "value", "runtime-exception", "exit",
                       "exception", "bug", "format"},
         NEW t \in Nat,
         NEW v \in Code \cup {None, 0, 1} \cup BOOLEAN \cup Messages,
         type = "format" => v \in Code,
         Answer(type, t, v)
  PROVE  /\ toClient' \in Seq(Answers)
         /\ \A i \in DOMAIN toClient' :
              toClient'[i].type = "format" => toClient'[i].value \in Code
<1>1. Message(type, t, v) \in Answers
  BY DEF Message, Answers
<1>2. /\ toClient' \in Seq(Answers)
      /\ DOMAIN toClient' = 1 .. Len(toClient) + 1 /\ Len(toClient) \in Nat
      /\ DOMAIN toClient = 1 .. Len(toClient)
      /\ \A i \in 1 .. Len(toClient) : toClient'[i] = toClient[i]
      /\ toClient'[Len(toClient) + 1] = Message(type, t, v)
  BY <1>1, AppendFacts DEF TypeInv, Answer
<1> QED BY <1>2 DEF TypeInv, Message

LEMMA ServedType ==
  ASSUME TypeInv, NEW type, Serves(type)
  PROVE  /\ toServer' \in Seq(Requests) /\ Request \in Requests
         /\ Request.type = "format" => Request.value \in Code
         /\ \A i \in DOMAIN toServer' :
              toServer'[i].type = "format" => toServer'[i].value \in Code
<1>1. toServer \in Seq(Requests) /\ toServer # <<>> /\ toServer' = Tail(toServer)
  BY DEF TypeInv, Serves
<1> QED BY <1>1, TailFacts DEF TypeInv, Request

LEMMA ReceivedType ==
  ASSUME TypeInv, toClient # <<>>, toClient' = Tail(toClient)
  PROVE  /\ toClient' \in Seq(Answers) /\ Head(toClient) \in Answers
         /\ Head(toClient).type = "format" => Value \in Code
         /\ \A i \in DOMAIN toClient' :
              toClient'[i].type = "format" => toClient'[i].value \in Code
<1>1. toClient \in Seq(Answers)
  BY DEF TypeInv
<1> QED BY <1>1, TailFacts DEF TypeInv, Value

LEMMA ScreenType ==
  ASSUME TypeInv, ClearScreen
  PROVE  /\ inspector' = None
         /\ indicator' \in Indicators
BY DEF TypeInv, Indicators, ClearScreen, TurnOff

LEMMA BlinkType ==
  ASSUME TypeInv, BlinkTimer
  PROVE  indicator' \in Indicators
<1>1. PICK i \in Indicators : indicator' = Blink(i)
  <2>1. indicator \in Indicators
    BY DEF TypeInv
  <2>2. CASE indicator' = Blink([indicator EXCEPT !.last = FALSE])
    BY <2>1, <2>2 DEF Indicators
  <2>3. CASE /\ indicator.stray > 0
             /\ indicator' = Blink([indicator EXCEPT !.stray = @ - 1])
    <3>1. indicator.stray - 1 \in Nat
      BY <2>1, <2>3 DEF Indicators
    <3> QED BY <2>1, <2>3, <3>1 DEF Indicators
  <2> QED BY <2>2, <2>3 DEF BlinkTimer
<1> QED BY <1>1 DEF Blink, Indicators

LEMMA RunType ==
  ASSUME TypeInv, NEW s, Run(s),
         UNCHANGED <<page, stored, text, edits, toClient>>
  PROVE  TypeInv'
<1>1. runTag' \in Nat
  BY DEF TypeInv, Run
<1>2. inspector' = None /\ indicator' \in Indicators
  BY ScreenType DEF Run
<1>3. CASE s = "connecting"
  BY <1>1, <1>2, <1>3 DEF Run, TypeInv
<1>4. CASE s # "connecting"
  <2>1. toServer' = Append(toServer, Message("run", runTag + 1, text))
    BY <1>4 DEF Run
  <2>2. /\ toServer' \in Seq(Requests)
        /\ \A i \in DOMAIN toServer' :
             toServer'[i].type = "format" => toServer'[i].value \in Code
    <3>1. runTag + 1 \in Nat /\ text \in Code \cup {None}
      BY DEF TypeInv
    <3> QED BY <2>1, <3>1, SendType
  <2> QED BY <1>1, <1>2, <2>2 DEF TypeInv
<1> QED BY <1>3, <1>4

LEMMA ChangeType ==
  ASSUME TypeInv, NEW v \in Code, Change(v)
  PROVE  text' \in Code /\ stored' \in Code \cup {None}
BY DEF TypeInv, Change

LEMMA TypeStep == TypeInv /\ [Next]_vars => TypeInv'
<1> SUFFICES ASSUME TypeInv, [Next]_vars PROVE TypeInv'
  OBVIOUS
<1>1. CASE Play
  BY <1>1, RunType DEF Play, storage
<1>2. CASE RunTimer
  <2>1. CASE MayRun
    BY <1>2, <2>1, RunType DEF RunTimer, storage
  <2>2. CASE ~MayRun
    BY <1>2, <2>2 DEF RunTimer, storage, screen, TypeInv
  <2> QED BY <2>1, <2>2
<1>3. CASE Open
  <2>1. CASE autorun /\ MayRun
    BY <1>3, <2>1, RunType DEF Open, storage
  <2>2. CASE ~(autorun /\ MayRun)
    BY <1>3, <2>2 DEF Open, storage, screen, TypeInv
  <2> QED BY <2>1, <2>2
<1>4. CASE Close
  BY <1>4 DEF Close, storage, screen, TypeInv
<1>5. CASE OtherCloses
  BY <1>5 DEF OtherCloses, storage, screen, TypeInv
<1>6. CASE Stop
  BY <1>6, SendType DEF Stop, storage, client, screen, TypeInv
<1>7. CASE Format
  <2>1. CASE ws = "open"
    <3>1. /\ toServer' \in Seq(Requests)
          /\ \A i \in DOMAIN toServer' :
               toServer'[i].type = "format" => toServer'[i].value \in Code
      BY <1>7, <2>1, SendType DEF Format, TypeInv
    <3> QED BY <1>7, <3>1, ScreenType DEF Format, storage, TypeInv
  <2>2. CASE ws # "open"
    BY <1>7, <2>2, ScreenType DEF Format, storage, TypeInv
  <2> QED BY <2>1, <2>2
<1>8. CASE Edit
  <2>1. edits + 1 \in Code /\ Emptied \in Code /\ edits' \in Nat
    BY <1>8, PlaygroundAssumption DEF Edit, TypeInv, Code, Emptied
  <2>2. text' \in Code /\ stored' \in Code \cup {None}
    BY <1>8, <2>1, ChangeType DEF Edit
  <2> QED BY <1>8, <2>1, <2>2 DEF Edit, TypeInv
<1>9. CASE ClickEditor \/ CloseLeft \/ BlinkTimer
  BY <1>9, BlinkType
     DEF ClickEditor, CloseLeft, BlinkTimer, storage, client, TypeInv
<1>10. CASE ClickLine
  <2>1. inspector # None /\ \E v : inspector' = [inspector EXCEPT !.values = v]
    BY <1>10 DEF ClickLine
  <2>2. inspector' = [tag |-> inspector'.tag, values |-> inspector'.values]
    BY <2>1 DEF TypeInv
  <2> QED BY <1>10, <2>2 DEF ClickLine, storage, client, TypeInv
<1>11. CASE Reload
  <2>1. stored' \in Code \cup {None}
    BY <1>11 DEF Reload, TypeInv
  <2>2. text' \in Code
    BY <1>11, <2>1, InitialCodeType DEF Reload, TypeInv
  <2>3. toServer' = <<>> /\ toClient' = <<>> /\ runTag' = 0 /\ inspector' = None
    BY <1>11 DEF Reload
  <2>4. toServer' \in Seq(Requests) /\ toClient' \in Seq(Answers)
    BY <2>3
  <2>5. indicator' \in Indicators
    BY <1>11 DEF Reload, Off, Indicators
  <2> QED BY <1>11, <2>1, <2>2, <2>3, <2>4, <2>5 DEF Reload, TypeInv
<1>12. CASE Deliver
  <2>1. toClient # <<>> /\ toClient' = Tail(toClient)
    BY <1>12 DEF Deliver, Discard, ReceiveRun, ReceiveOutput, ReceiveValue,
         ReceiveRuntimeException, ReceiveExit, ReceiveException, ReceiveBug,
         ReceiveFormat, Receives
  <2>2. /\ toClient' \in Seq(Answers)
        /\ Head(toClient).type = "format" => Value \in Code
        /\ \A i \in DOMAIN toClient' :
             toClient'[i].type = "format" => toClient'[i].value \in Code
    BY <2>1, ReceivedType
  <2>3. UNCHANGED <<page, edits, runTag, toServer>>
    BY <1>12 DEF Deliver, Discard, ReceiveRun, ReceiveOutput, ReceiveValue,
         ReceiveRuntimeException, ReceiveExit, ReceiveException, ReceiveBug,
         ReceiveFormat, Receives, storage, client
  <2>4. CASE Discard \/ ReceiveRun \/ ReceiveBug \/ ReceiveRuntimeException
             \/ ReceiveException
    BY <2>2, <2>3, <2>4
       DEF Discard, ReceiveRun, ReceiveBug, ReceiveRuntimeException,
         ReceiveException, Finish, SessionUnchanged, storage, client, screen,
         TypeInv
  <2>5. CASE ReceiveOutput
    <3>1. indicator \in Indicators /\ indicator' = TurnOnWithBlink(indicator)
      BY <2>5 DEF ReceiveOutput, TypeInv
    <3>2. indicator.stray \in Nat /\ indicator.stray + 1 \in Nat
      BY <3>1 DEF Indicators
    <3>3. indicator' \in Indicators
      BY <3>1, <3>2 DEF TurnOnWithBlink, Indicators
    <3> QED BY <2>2, <2>3, <2>5, <3>3
            DEF ReceiveOutput, SessionUnchanged, TypeInv
  <2>6. CASE ReceiveExit
    <3>1. indicator' \in Indicators
      BY <2>6 DEF ReceiveExit, TurnError, Indicators, TypeInv
    <3> QED BY <2>2, <2>3, <2>6, <3>1 DEF ReceiveExit, Finish, TypeInv
  <2>7. CASE ReceiveValue
    <3>1. \/ \E v : inspector' = [tag |-> From, values |-> v]
          \/ inspector # None /\ \E v : inspector' = [inspector EXCEPT !.values = v]
      BY <2>7 DEF ReceiveValue
    <3>2. inspector' = [tag |-> inspector'.tag, values |-> inspector'.values]
      BY <3>1 DEF TypeInv
    <3> QED BY <2>2, <2>3, <2>7, <3>2 DEF ReceiveValue, SessionUnchanged, TypeInv
  <2>8. CASE ReceiveFormat
    <3>1. text' \in Code /\ stored' \in Code \cup {None}
      BY <2>2, <2>8, ChangeType DEF ReceiveFormat, Receives
    <3> QED BY <2>2, <2>3, <2>8, <3>1 DEF ReceiveFormat, TypeInv
  <2> QED BY <1>12, <2>4, <2>5, <2>6, <2>7, <2>8 DEF Deliver
<1>13. CASE Serve
  <2>1. PICK type \in {"run", "stop", "format"} : Serves(type)
    BY <1>13 DEF Serve, CompileFails, Execute, StopRequest, FormatRequest
  <2>2. /\ toServer' \in Seq(Requests) /\ Request \in Requests
        /\ Request.type = "format" => Request.value \in Code
        /\ \A i \in DOMAIN toServer' :
             toServer'[i].type = "format" => toServer'[i].value \in Code
    BY <2>1, ServedType
  <2>3. Request.tag \in Nat
    BY <2>2 DEF Requests
  <2>4. /\ toClient' \in Seq(Answers)
        /\ \A i \in DOMAIN toClient' :
             toClient'[i].type = "format" => toClient'[i].value \in Code
    <3>1. CASE CompileFails
      BY <3>1, <2>3, AnswerType DEF CompileFails
    <3>2. CASE Execute
      BY <3>2, <2>3, AnswerType DEF Execute
    <3>3. CASE StopRequest
      BY <3>3 DEF StopRequest, TypeInv
    <3>4. CASE FormatRequest
      <4>1. Request.value \in Code
        BY <2>2, <3>4 DEF FormatRequest, Serves
      <4> QED BY <3>4, <2>3, <4>1, AnswerType DEF FormatRequest
    <3> QED BY <1>13, <3>1, <3>2, <3>3, <3>4 DEF Serve
  <2> QED BY <2>1, <2>2, <2>4 DEF Serves, storage, client, screen, TypeInv
<1>14. ASSUME NEW t \in Tags, Report(t) PROVE TypeInv'
  <2>1. t \in Nat
    BY PlaygroundAssumption DEF Tags
  <2>2. /\ toClient' \in Seq(Answers)
        /\ \A i \in DOMAIN toClient' :
             toClient'[i].type = "format" => toClient'[i].value \in Code
    BY <1>14, <2>1, AnswerType DEF Report
  <2> QED BY <1>14, <2>2 DEF Report, storage, client, screen, TypeInv
<1>15. ASSUME NEW t \in Tags, Exit(t) PROVE TypeInv'
  <2>1. t \in Nat
    BY PlaygroundAssumption DEF Tags
  <2>2. /\ toClient' \in Seq(Answers)
        /\ \A i \in DOMAIN toClient' :
             toClient'[i].type = "format" => toClient'[i].value \in Code
    BY <1>15, <2>1, AnswerType DEF Exit
  <2> QED BY <1>15, <2>2 DEF Exit, storage, client, screen, TypeInv
<1>16. CASE UNCHANGED vars
  BY <1>16 DEF vars, storage, client, screen, TypeInv
<1> QED
  BY <1>1, <1>2, <1>3, <1>4, <1>5, <1>6, <1>7, <1>8, <1>9, <1>10, <1>11,
     <1>12, <1>13, <1>14, <1>15, <1>16 DEF Next, User

LEMMA TypeInvariant == Spec => []TypeInv
BY TypeInit, TypeStep, PTL DEF Spec

-----------------------------------------------------------------------------
(* The code that a reload brings *)

(* The storage of this tab is changed along with the text. *)
LEMMA ChangeKeepsCode ==
  ASSUME TypeInv, CodeKept, NEW v \in Code, Change(v), page' = page
  PROVE  CodeKept'
<1>1. v # None
  BY PlaygroundAssumption
<1> QED BY <1>1 DEF Change, CodeKept, InitialCode

LEMMA CodeKeptStep == TypeInv /\ CodeKept /\ [Next]_vars => CodeKept'
<1> SUFFICES ASSUME TypeInv, CodeKept, [Next]_vars PROVE CodeKept'
  OBVIOUS
<1>1. CASE Play \/ RunTimer \/ Open \/ Close \/ OtherCloses \/ Format
  BY <1>1 DEF Play, RunTimer, Open, Close, OtherCloses, Format, storage,
     CodeKept
<1>2. CASE Stop \/ ClickEditor \/ ClickLine \/ CloseLeft \/ BlinkTimer
  BY <1>2 DEF Stop, ClickEditor, ClickLine, CloseLeft, BlinkTimer, storage,
     client, CodeKept
<1>3. CASE Edit
  <2>1. edits + 1 \in Code /\ Emptied \in Code
    BY <1>3, PlaygroundAssumption DEF Edit, TypeInv, Code, Emptied
  <2> QED BY <1>3, <2>1, ChangeKeepsCode DEF Edit
<1>4. CASE Reload
  BY <1>4 DEF Reload, CodeKept, InitialCode
<1>5. CASE Deliver
  <2>1. CASE ReceiveFormat
    <3>1. Value \in Code
      BY <2>1, ReceivedType DEF ReceiveFormat, Receives
    <3> QED BY <2>1, <3>1, ChangeKeepsCode DEF ReceiveFormat, Receives
  <2>2. CASE ~ReceiveFormat
    BY <1>5, <2>2
       DEF Deliver, Discard, ReceiveRun, ReceiveOutput, ReceiveValue,
         ReceiveRuntimeException, ReceiveExit, ReceiveException, ReceiveBug,
         Receives, SessionUnchanged, Finish, storage, client, CodeKept
  <2> QED BY <2>1, <2>2
<1>6. CASE Serve
  BY <1>6 DEF Serve, CompileFails, Execute, StopRequest, FormatRequest,
     Serves, storage, client, CodeKept
<1>7. CASE \E t \in Tags : Report(t) \/ Exit(t)
  BY <1>7 DEF Report, Exit, storage, client, CodeKept
<1>8. CASE UNCHANGED vars
  BY <1>8 DEF vars, storage, client, CodeKept
<1> QED
  BY <1>1, <1>2, <1>3, <1>4, <1>5, <1>6, <1>7, <1>8 DEF Next, User

(* What was typed or formatted comes back with a reload, of a page that    *)
(* has a storage, whatever the session does meanwhile; except an empty     *)
(* text, after which a reload starts over (application.js:18-21, 39-48).   *)
THEOREM ReloadBringsCode == Spec => []CodeKept
<1>1. Init => CodeKept
  BY DEF Init, CodeKept, InitialCode
<1> QED BY <1>1, TypeInvariant, CodeKeptStep, PTL DEF Spec

-----------------------------------------------------------------------------
(* What is on the screen *)

LEMMA ClearedIsCurrent ==
  ASSUME TypeInv, ClearScreen PROVE ShownIsCurrent'
BY DEF TypeInv, Indicators, ClearScreen, TurnOff, ShownIsCurrent

LEMMA ShownStep ==
  TypeInv /\ ShownIsCurrent /\ [Next]_vars => ShownIsCurrent'
<1> SUFFICES ASSUME TypeInv, ShownIsCurrent, [Next]_vars PROVE ShownIsCurrent'
  OBVIOUS
<1>1. CASE Play
  BY <1>1, ClearedIsCurrent DEF Play, Run
<1>2. CASE RunTimer
  BY <1>2, ClearedIsCurrent DEF RunTimer, Run, screen, ShownIsCurrent
<1>3. CASE Open
  BY <1>3, ClearedIsCurrent DEF Open, Run, screen, ShownIsCurrent
<1>4. CASE Format
  BY <1>4, ClearedIsCurrent DEF Format
<1>5. CASE Close \/ OtherCloses \/ Stop
  BY <1>5 DEF Close, OtherCloses, Stop, client, screen, ShownIsCurrent
<1>6. CASE Edit
  BY <1>6 DEF Edit, Change, HideErrors, ShownIsCurrent
<1>7. CASE ClickEditor \/ CloseLeft
  BY <1>7 DEF ClickEditor, CloseLeft, HideErrors, client, ShownIsCurrent
<1>8. CASE ClickLine
  <2>1. inspector'.tag = inspector.tag /\ inspector # None
    BY <1>8 DEF ClickLine, TypeInv
  <2> QED BY <1>8, <2>1 DEF ClickLine, client, ShownIsCurrent
<1>9. CASE BlinkTimer
  <2>1. indicator'.colour = "red" => indicator.colour = "red"
    BY <1>9 DEF BlinkTimer, Blink, TypeInv, Indicators
  <2> QED BY <1>9, <2>1 DEF BlinkTimer, client, ShownIsCurrent
<1>10. CASE Reload
  BY <1>10 DEF Reload, Off, ShownIsCurrent
<1>11. CASE Deliver
  <2>0. runTag' = runTag /\ (~Discard => From = runTag)
    BY <1>11 DEF Deliver, Discard, ReceiveRun, ReceiveOutput, ReceiveValue,
         ReceiveRuntimeException, ReceiveExit, ReceiveException, ReceiveBug,
         ReceiveFormat, Receives, From, client
  <2>1. CASE Discard \/ ReceiveRun \/ ReceiveBug
    BY <2>0, <2>1 DEF Discard, ReceiveRun, ReceiveBug, screen, ShownIsCurrent
  <2>2. CASE ReceiveOutput /\ ~Discard
    <3>1. indicator'.colour = "off"
      BY <2>2 DEF ReceiveOutput, TurnOnWithBlink, TypeInv, Indicators
    <3> QED BY <2>0, <2>2, <3>1 DEF ReceiveOutput, ShownIsCurrent
  <2>3. CASE ReceiveValue /\ ~Discard
    <3>1. inspector'.tag = runTag
      BY <2>0, <2>3 DEF ReceiveValue, TypeInv, ShownIsCurrent
    <3> QED BY <2>0, <2>3, <3>1 DEF ReceiveValue, ShownIsCurrent
  <2>4. CASE (ReceiveRuntimeException \/ ReceiveException) /\ ~Discard
    BY <2>0, <2>4 DEF ReceiveRuntimeException, ReceiveException, ShownIsCurrent
  <2>5. CASE ReceiveExit /\ ~Discard
    <3>1. CASE Value = 0
      BY <2>0, <2>5, <3>1 DEF ReceiveExit, ShownIsCurrent
    <3>2. CASE Value # 0
      <4>1. /\ stdout' = stdout \cup {[tag |-> From, status |-> TRUE]}
            /\ UNCHANGED <<inspector, errors, fullError>>
        BY <2>5, <3>2 DEF ReceiveExit
      <4>2. \A o \in stdout' : o.tag = runTag
        BY <2>0, <2>5, <4>1 DEF ShownIsCurrent
      <4>3. [tag |-> From, status |-> TRUE].status
        OBVIOUS
      <4>4. \E o \in stdout' : o.status
        BY <4>1, <4>3, Zenon
      <4> QED BY <2>0, <4>1, <4>2, <4>4 DEF ShownIsCurrent
    <3> QED BY <3>1, <3>2
  <2>6. CASE ReceiveFormat
    BY <2>0, <2>6 DEF ReceiveFormat, Change, HideErrors, ShownIsCurrent
  <2> QED BY <1>11, <2>1, <2>2, <2>3, <2>4, <2>5, <2>6 DEF Deliver
<1>12. CASE Serve
  BY <1>12 DEF Serve, CompileFails, Execute, StopRequest, FormatRequest,
     Serves, client, screen, ShownIsCurrent
<1>13. CASE \E t \in Tags : Report(t) \/ Exit(t)
  BY <1>13 DEF Report, Exit, client, screen, ShownIsCurrent
<1>14. CASE UNCHANGED vars
  BY <1>14 DEF vars, client, screen, ShownIsCurrent
<1> QED
  BY <1>1, <1>2, <1>3, <1>4, <1>5, <1>6, <1>7, <1>8, <1>9, <1>10, <1>11,
     <1>12, <1>13, <1>14 DEF Next, User

(* Nothing of an old run is on the screen, no inline error without its     *)
(* trace, and no red indicator without the status it stands for.           *)
THEOREM ScreenIsOfLastRun == Spec => []ShownIsCurrent
<1>1. Init => ShownIsCurrent
  BY DEF Init, Off, ShownIsCurrent
<1> QED BY <1>1, TypeInvariant, ShownStep, PTL DEF Spec

-----------------------------------------------------------------------------
(* The messages on the web socket, and the end of a run *)

LEMMA SendFacts ==
  ASSUME TypeInv, NEW type \in {"run", "stop", "format"}, NEW t \in Nat,
         NEW v \in Code \cup {None},
         toServer' = Append(toServer, Message(type, t, v))
  PROVE  /\ Len(toServer) \in Nat /\ DOMAIN toServer = 1 .. Len(toServer)
         /\ DOMAIN toServer' = 1 .. Len(toServer) + 1
         /\ \A i \in 1 .. Len(toServer) : toServer'[i] = toServer[i]
         /\ toServer'[Len(toServer) + 1].type = type
         /\ toServer'[Len(toServer) + 1].tag = t
<1>1. Message(type, t, v) \in Requests
  BY DEF Message, Requests
<1> QED BY <1>1, AppendFacts DEF TypeInv, Message

LEMMA AnswerFacts ==
  ASSUME TypeInv,
         NEW type \in {"run", "output", "value", "runtime-exception", "exit",
                       "exception", "bug", "format"},
         NEW t \in Nat,
         NEW v \in Code \cup {None, 0, 1} \cup BOOLEAN \cup Messages,
         Answer(type, t, v)
  PROVE  /\ Len(toClient) \in Nat /\ DOMAIN toClient = 1 .. Len(toClient)
         /\ DOMAIN toClient' = 1 .. Len(toClient) + 1
         /\ \A i \in DOMAIN toClient' :
              \/ i = Len(toClient) + 1
              \/ i \in DOMAIN toClient /\ toClient'[i] = toClient[i]
         /\ toClient'[Len(toClient) + 1].type = type
         /\ toClient'[Len(toClient) + 1].tag = t
<1>1. Message(type, t, v) \in Answers
  BY DEF Message, Answers
<1>2. /\ Len(toClient) \in Nat /\ DOMAIN toClient = 1 .. Len(toClient)
      /\ DOMAIN toClient' = 1 .. Len(toClient) + 1
      /\ \A i \in 1 .. Len(toClient) : toClient'[i] = toClient[i]
      /\ toClient'[Len(toClient) + 1] = Message(type, t, v)
  BY <1>1, AppendFacts DEF TypeInv, Answer
<1>3. \A i \in 1 .. Len(toClient) + 1 :
        i = Len(toClient) + 1 \/ i \in 1 .. Len(toClient)
  BY <1>2
<1>4. /\ Message(type, t, v).type = type
      /\ Message(type, t, v).tag = t
  BY DEF Message
<1>5. toClient'[Len(toClient) + 1].type = type
      /\ toClient'[Len(toClient) + 1].tag = t
  BY <1>2, <1>4
<1>6. \A i \in DOMAIN toClient' :
        \/ i = Len(toClient) + 1
        \/ i \in DOMAIN toClient /\ toClient'[i] = toClient[i]
  BY <1>2, <1>3
<1> QED BY <1>2, <1>5, <1>6

LEMMA ServeFacts ==
  ASSUME TypeInv, NEW type, Serves(type)
  PROVE  /\ Len(toServer) \in Nat \ {0} /\ DOMAIN toServer = 1 .. Len(toServer)
         /\ DOMAIN toServer' = 1 .. Len(toServer) - 1
         /\ \A i \in DOMAIN toServer' :
              i \in Nat /\ i + 1 \in DOMAIN toServer
              /\ toServer'[i] = toServer[i + 1]
         /\ Request = toServer[1] /\ Request \in Requests /\ Request.type = type
         /\ UNCHANGED <<ws, lost, isRunning, runTag, buttons>> /\ ws = "open"
<1>1. toServer \in Seq(Requests) /\ toServer # <<>> /\ toServer' = Tail(toServer)
  BY DEF TypeInv, Serves
<1> QED BY <1>1, TailFacts DEF Serves, Request, client

LEMMA ReceiveFacts ==
  ASSUME TypeInv, toClient # <<>>, toClient' = Tail(toClient)
  PROVE  /\ Len(toClient) \in Nat \ {0} /\ DOMAIN toClient = 1 .. Len(toClient)
         /\ DOMAIN toClient' = 1 .. Len(toClient) - 1
         /\ \A i \in 1 .. Len(toClient) - 1 : toClient'[i] = toClient[i + 1]
         /\ Head(toClient) = toClient[1] /\ toClient[1] \in Answers
<1>1. toClient \in Seq(Answers)
  BY DEF TypeInv
<1> QED BY <1>1, TailFacts

LEMMA ControlInit == Init => ControlInv
<1> SUFFICES ASSUME Init PROVE ControlInv
  OBVIOUS
<1> QED BY DEF Init, ControlInv, ConnectionInv, TagInv, DueInv, StopInv

LEMMA ControlFrame == ControlInv /\ UNCHANGED control => ControlInv'
BY DEF control, ControlInv, ConnectionInv, TagInv, DueInv, StopInv, OneRequest,
   NoRequest, OneEnd, NoEnd, Ends

(* A new run: nothing of an earlier one can end it. *)
LEMMA ControlRun ==
  ASSUME TypeInv, ControlInv, MayRun, Run(ws'),
         ws' = ws \/ (ws = "connecting" /\ ws' = "open"),
         UNCHANGED <<lost, toClient, alive>>
  PROVE  ControlInv'
<1>1. /\ ws' \in {"connecting", "open"} /\ ~isRunning /\ isRunning'
      /\ buttons # "stop" /\ alive = {} /\ alive' = {} /\ NoRequest
      /\ runTag \in Nat /\ runTag' = runTag + 1
  BY DEF MayRun, Run, ControlInv, ConnectionInv, TagInv, NoRequest, TypeInv
<1>2. /\ \A i \in DOMAIN toClient' : toClient'[i].tag <= runTag
      /\ \A i \in DOMAIN toServer : toServer[i].tag <= runTag
  BY DEF ControlInv, TagInv
<1>3. /\ \A i \in DOMAIN toServer : toServer[i].tag \in Nat
      /\ \A i \in DOMAIN toClient : toClient[i].tag \in Nat
  <2>1. /\ \A i \in DOMAIN toServer : toServer[i] \in Requests
        /\ \A i \in DOMAIN toClient : toClient[i] \in Answers
    BY DEF TypeInv
  <2> QED BY <2>1 DEF Requests, Answers
<1>4. CASE ws' = "connecting"
  <2>1. toServer' = <<>> /\ toClient' = <<>> /\ buttons' # "stop"
        /\ toServer = <<>>
    BY <1>1, <1>4 DEF Run, ControlInv, ConnectionInv
  <2> QED BY <1>1, <1>2, <1>4, <2>1
          DEF ControlInv, ConnectionInv, TagInv, DueInv, StopInv
<1>5. CASE ws' # "connecting"
  <2>1. /\ toServer' = Append(toServer, Message("run", runTag + 1, text))
        /\ buttons' = "stop" /\ ws' = "open"
    BY <1>1, <1>5 DEF Run
  <2>2. runTag + 1 \in Nat /\ text \in Code \cup {None}
    BY DEF TypeInv
  <2>3. /\ Len(toServer) \in Nat /\ DOMAIN toServer = 1 .. Len(toServer)
        /\ DOMAIN toServer' = 1 .. Len(toServer) + 1
        /\ \A i \in 1 .. Len(toServer) : toServer'[i] = toServer[i]
        /\ toServer'[Len(toServer) + 1].type = "run"
        /\ toServer'[Len(toServer) + 1].tag = runTag + 1
    BY <2>1, <2>2, SendFacts
  <2>4. ConnectionInv'
    BY <1>1, <2>1 DEF ConnectionInv
  <2>5. TagInv'
    BY <1>1, <1>2, <1>3, <2>1, <2>3 DEF TagInv, NoRequest
  <2>6. OneRequest'
    <3>1. Len(toServer) + 1 \in DOMAIN toServer'
      BY <2>3
    <3>2. \A j \in DOMAIN toServer' :
            toServer'[j].type = "run" <=> j = Len(toServer) + 1
      BY <1>1, <2>3 DEF NoRequest
    <3> QED BY <3>1, <3>2 DEF OneRequest
  <2>7. NoEnd'
    BY <1>1, <1>2, <1>3 DEF NoEnd, Ends
  <2>8. StopInv'
    BY <1>1, <2>3 DEF StopInv, NoRequest
  <2> QED BY <1>1, <2>4, <2>5, <2>6, <2>7, <2>8 DEF ControlInv, DueInv
<1> QED BY <1>4, <1>5

(* A message that does not end the run that shows the stop button. *)
LEMMA ControlReceive ==
  ASSUME TypeInv, ControlInv, toClient # <<>>, toClient' = Tail(toClient),
         ~Ends(Head(toClient)),
         UNCHANGED <<ws, lost, isRunning, runTag, buttons, toServer, alive>>
  PROVE  ControlInv'
<1>1. /\ Len(toClient) \in Nat \ {0} /\ DOMAIN toClient = 1 .. Len(toClient)
      /\ DOMAIN toClient' = 1 .. Len(toClient) - 1
      /\ \A i \in 1 .. Len(toClient) - 1 : toClient'[i] = toClient[i + 1]
      /\ Head(toClient) = toClient[1]
  BY ReceiveFacts
<1>2. ConnectionInv' /\ StopInv'
  BY DEF ControlInv, ConnectionInv, StopInv
<1>3. TagInv'
  BY <1>1 DEF ControlInv, TagInv
<1>4. NoEnd => NoEnd'
  BY <1>1 DEF NoEnd, Ends
<1>5. OneEnd => OneEnd'
  <2> SUFFICES ASSUME OneEnd PROVE OneEnd'
    OBVIOUS
  <2>1. PICK i \in DOMAIN toClient :
          \A j \in DOMAIN toClient : Ends(toClient[j]) <=> j = i
    BY DEF OneEnd
  <2>2. i # 1 /\ i - 1 \in DOMAIN toClient'
    BY <1>1, <2>1
  <2>3. \A j \in DOMAIN toClient' : Ends(toClient'[j]) <=> j = i - 1
    BY <1>1, <2>1
  <2>4. \A j \in DOMAIN toClient' : Ends(toClient[j])' <=> j = i - 1
    BY <2>3 DEF Ends
  <2> QED BY <2>2, <2>4 DEF OneEnd
<1>6. DueInv'
  BY <1>4, <1>5 DEF ControlInv, DueInv, OneRequest, NoRequest
<1> QED BY <1>2, <1>3, <1>6 DEF ControlInv

(* The message that ends it. *)
LEMMA ControlFinish ==
  ASSUME TypeInv, ControlInv, toClient # <<>>, toClient' = Tail(toClient),
         Ends(Head(toClient)), Finish,
         UNCHANGED <<ws, lost, runTag, toServer, alive>>
  PROVE  ControlInv'
<1>1. /\ Len(toClient) \in Nat \ {0} /\ DOMAIN toClient = 1 .. Len(toClient)
      /\ DOMAIN toClient' = 1 .. Len(toClient) - 1
      /\ \A i \in 1 .. Len(toClient) - 1 : toClient'[i] = toClient[i + 1]
      /\ Head(toClient) = toClient[1]
  BY ReceiveFacts
<1>2. ~isRunning' /\ buttons' = "play"
  BY DEF Finish
<1>3. ws = "open"
  BY DEF ControlInv, ConnectionInv
<1>4. ~NoEnd
  BY <1>1 DEF NoEnd
<1>5. alive = {} /\ NoRequest
  BY <1>3, <1>4 DEF ControlInv, TagInv, DueInv, NoRequest
<1>6. ConnectionInv'
  BY <1>2, <1>3 DEF ControlInv, ConnectionInv
<1>7. TagInv'
  BY <1>1, <1>2, <1>5 DEF ControlInv, TagInv, NoRequest
<1>8. DueInv' /\ StopInv'
  BY <1>2, <1>5 DEF DueInv, StopInv, NoRequest
<1> QED BY <1>6, <1>7, <1>8 DEF ControlInv

LEMMA ControlStop == TypeInv /\ ControlInv /\ Stop => ControlInv'
<1> SUFFICES ASSUME TypeInv, ControlInv, Stop PROVE ControlInv'
  OBVIOUS
<1>1. /\ buttons = "stop"
      /\ UNCHANGED <<ws, lost, isRunning, runTag, buttons, toClient, alive>>
      /\ toServer' = Append(toServer, Message("stop", runTag, None))
      /\ runTag \in Nat
  BY DEF Stop, client, server, TypeInv
<1>2. /\ Len(toServer) \in Nat /\ DOMAIN toServer = 1 .. Len(toServer)
      /\ DOMAIN toServer' = 1 .. Len(toServer) + 1
      /\ \A i \in 1 .. Len(toServer) : toServer'[i] = toServer[i]
      /\ toServer'[Len(toServer) + 1].type = "stop"
      /\ toServer'[Len(toServer) + 1].tag = runTag
  BY <1>1, SendFacts
<1>3. ConnectionInv'
  BY <1>1 DEF ControlInv, ConnectionInv
<1>4. TagInv'
  BY <1>1, <1>2 DEF ControlInv, TagInv
<1>5. StopInv'
  BY <1>1, <1>2 DEF ControlInv, StopInv
<1>6. (OneRequest => OneRequest') /\ (NoRequest => NoRequest')
  <2>1. NoRequest => NoRequest'
    BY <1>2 DEF NoRequest
  <2>2. ASSUME OneRequest PROVE OneRequest'
    <3>1. PICK i \in DOMAIN toServer :
            \A j \in DOMAIN toServer : toServer[j].type = "run" <=> j = i
      BY <2>2 DEF OneRequest
    <3>2. i \in DOMAIN toServer'
      BY <1>2
    <3>3. \A j \in DOMAIN toServer' : toServer'[j].type = "run" <=> j = i
      BY <1>2, <3>1
    <3> QED BY <3>2, <3>3 DEF OneRequest
  <2> QED BY <2>1, <2>2
<1>7. (OneEnd => OneEnd') /\ (NoEnd => NoEnd')
  BY <1>1 DEF OneEnd, NoEnd, Ends
<1>8. DueInv'
  BY <1>1, <1>6, <1>7 DEF ControlInv, DueInv
<1> QED BY <1>3, <1>4, <1>5, <1>8 DEF ControlInv

LEMMA ControlFormat == TypeInv /\ ControlInv /\ Format => ControlInv'
<1> SUFFICES ASSUME TypeInv, ControlInv, Format PROVE ControlInv'
  OBVIOUS
<1>1. /\ ~isRunning /\ buttons # "stop" /\ alive = {} /\ runTag \in Nat
      /\ UNCHANGED <<ws, lost, isRunning, runTag, buttons, toClient, alive>>
  BY DEF Format, server, ControlInv, ConnectionInv, TagInv, TypeInv
<1>2. CASE ws = "open"
  <2>1. toServer' = Append(toServer, Message("format", runTag, text))
    BY <1>2 DEF Format
  <2>2. text \in Code \cup {None}
    BY DEF TypeInv
  <2>3. /\ Len(toServer) \in Nat /\ DOMAIN toServer = 1 .. Len(toServer)
        /\ DOMAIN toServer' = 1 .. Len(toServer) + 1
        /\ \A i \in 1 .. Len(toServer) : toServer'[i] = toServer[i]
        /\ toServer'[Len(toServer) + 1].type = "format"
        /\ toServer'[Len(toServer) + 1].tag = runTag
    BY <1>1, <2>1, <2>2, SendFacts
  <2>4. ConnectionInv'
    BY <1>1, <1>2 DEF ControlInv, ConnectionInv
  <2>5. TagInv'
    BY <1>1, <2>3 DEF ControlInv, TagInv
  <2>6. DueInv' /\ StopInv'
    BY <1>1, <2>3 DEF ControlInv, DueInv, StopInv
  <2> QED BY <2>4, <2>5, <2>6 DEF ControlInv
<1>3. CASE ws # "open"
  BY <1>1, <1>3, ControlFrame DEF Format, control
<1> QED BY <1>2, <1>3

LEMMA ControlCompileFails == TypeInv /\ ControlInv /\ CompileFails => ControlInv'
<1> SUFFICES ASSUME TypeInv, ControlInv, CompileFails PROVE ControlInv'
  OBVIOUS
<1>1. /\ Len(toServer) \in Nat \ {0} /\ DOMAIN toServer = 1 .. Len(toServer)
      /\ DOMAIN toServer' = 1 .. Len(toServer) - 1
      /\ \A i \in DOMAIN toServer' :
           i \in Nat /\ i + 1 \in DOMAIN toServer
           /\ toServer'[i] = toServer[i + 1]
      /\ Request = toServer[1] /\ Request \in Requests /\ Request.type = "run"
      /\ UNCHANGED <<ws, lost, isRunning, runTag, buttons>> /\ ws = "open"
  BY ServeFacts DEF CompileFails
<1>2. /\ Request.tag = runTag /\ buttons = "stop" /\ Request.tag \in Nat
      /\ alive' = alive
  BY <1>1 DEF CompileFails, ControlInv, TagInv, Requests
<1>3. OneRequest /\ alive = {} /\ NoEnd
  BY <1>1, <1>2 DEF ControlInv, DueInv, NoRequest
<1>4. PICK type \in {"exception", "bug"} :
        /\ Len(toClient) \in Nat /\ DOMAIN toClient = 1 .. Len(toClient)
        /\ DOMAIN toClient' = 1 .. Len(toClient) + 1
        /\ \A i \in DOMAIN toClient' :
             \/ i = Len(toClient) + 1
             \/ i \in DOMAIN toClient /\ toClient'[i] = toClient[i]
        /\ toClient'[Len(toClient) + 1].type = type
        /\ toClient'[Len(toClient) + 1].tag = Request.tag
  BY <1>2, AnswerFacts DEF CompileFails
<1>5. ConnectionInv'
  BY <1>1 DEF ControlInv, ConnectionInv
<1>6. TagInv'
  BY <1>1, <1>2, <1>4 DEF ControlInv, TagInv
<1>7. StopInv'
  BY <1>1, <1>2, <1>3 DEF ControlInv, StopInv
<1>8. NoRequest'
  BY <1>1, <1>3 DEF OneRequest, NoRequest
<1>9. OneEnd'
  <2>1. Len(toClient) + 1 \in DOMAIN toClient'
    BY <1>4
  <2>2. \A j \in DOMAIN toClient' : Ends(toClient[j])' <=> j = Len(toClient) + 1
    BY <1>1, <1>2, <1>3, <1>4 DEF NoEnd, Ends, FinishTypes
  <2> QED BY <2>1, <2>2 DEF OneEnd
<1> QED BY <1>2, <1>3, <1>5, <1>6, <1>7, <1>8, <1>9 DEF ControlInv, DueInv

LEMMA ControlExecute ==
  TypeInv /\ ControlInv /\ Execute => ControlInv' /\ alive = {}
<1> SUFFICES ASSUME TypeInv, ControlInv, Execute PROVE ControlInv' /\ alive = {}
  OBVIOUS
<1>1. /\ Len(toServer) \in Nat \ {0} /\ DOMAIN toServer = 1 .. Len(toServer)
      /\ DOMAIN toServer' = 1 .. Len(toServer) - 1
      /\ \A i \in DOMAIN toServer' :
           i \in Nat /\ i + 1 \in DOMAIN toServer
           /\ toServer'[i] = toServer[i + 1]
      /\ Request = toServer[1] /\ Request \in Requests /\ Request.type = "run"
      /\ UNCHANGED <<ws, lost, isRunning, runTag, buttons>> /\ ws = "open"
  BY ServeFacts DEF Execute
<1>2. /\ Request.tag = runTag /\ buttons = "stop" /\ Request.tag \in Nat
      /\ alive' = alive \cup {runTag}
  BY <1>1 DEF Execute, ControlInv, TagInv, Requests
<1>3. OneRequest /\ alive = {} /\ NoEnd
  BY <1>1, <1>2 DEF ControlInv, DueInv, NoRequest
<1>4. /\ Len(toClient) \in Nat /\ DOMAIN toClient = 1 .. Len(toClient)
      /\ DOMAIN toClient' = 1 .. Len(toClient) + 1
      /\ \A i \in DOMAIN toClient' :
           \/ i = Len(toClient) + 1
           \/ i \in DOMAIN toClient /\ toClient'[i] = toClient[i]
      /\ toClient'[Len(toClient) + 1].type = "run"
      /\ toClient'[Len(toClient) + 1].tag = Request.tag
  BY <1>2, AnswerFacts DEF Execute
<1>5. ConnectionInv'
  BY <1>1 DEF ControlInv, ConnectionInv
<1>6. TagInv'
  BY <1>1, <1>2, <1>3, <1>4 DEF ControlInv, TagInv, ConnectionInv
<1>7. StopInv'
  BY <1>1, <1>2, <1>3 DEF ControlInv, StopInv
<1>8. NoRequest'
  BY <1>1, <1>3 DEF OneRequest, NoRequest
<1>9. NoEnd'
  BY <1>1, <1>3, <1>4 DEF NoEnd, Ends, FinishTypes
<1> QED BY <1>2, <1>3, <1>5, <1>6, <1>7, <1>8, <1>9 DEF ControlInv, DueInv

(* A request that is not to run is gone. *)
LEMMA ServedNoRun ==
  ASSUME TypeInv, ControlInv, NEW type \in {"stop", "format"}, Serves(type),
         alive' = alive
  PROVE  /\ ConnectionInv' /\ StopInv'
         /\ OneRequest => OneRequest'
         /\ NoRequest => NoRequest'
<1>1. /\ Len(toServer) \in Nat \ {0} /\ DOMAIN toServer = 1 .. Len(toServer)
      /\ DOMAIN toServer' = 1 .. Len(toServer) - 1
      /\ \A i \in DOMAIN toServer' :
           i \in Nat /\ i + 1 \in DOMAIN toServer
           /\ toServer'[i] = toServer[i + 1]
      /\ Request = toServer[1] /\ Request.type # "run"
      /\ UNCHANGED <<ws, lost, isRunning, runTag, buttons>> /\ ws = "open"
  BY ServeFacts
<1>2. ConnectionInv' /\ StopInv'
  BY <1>1 DEF ControlInv, ConnectionInv, StopInv
<1>3. OneRequest => OneRequest'
  <2> SUFFICES ASSUME OneRequest PROVE OneRequest'
    OBVIOUS
  <2>1. PICK i \in DOMAIN toServer :
          \A j \in DOMAIN toServer : toServer[j].type = "run" <=> j = i
    BY DEF OneRequest
  <2>2. i # 1 /\ i - 1 \in DOMAIN toServer'
    BY <1>1, <2>1
  <2>3. \A j \in DOMAIN toServer' : toServer'[j].type = "run" <=> j = i - 1
    BY <1>1, <2>1
  <2> QED BY <2>2, <2>3 DEF OneRequest
<1>4. NoRequest => NoRequest'
  BY <1>1 DEF NoRequest
<1> QED BY <1>2, <1>3, <1>4

LEMMA ControlStopRequest == TypeInv /\ ControlInv /\ StopRequest => ControlInv'
<1> SUFFICES ASSUME TypeInv, ControlInv, StopRequest PROVE ControlInv'
  OBVIOUS
<1>1. alive' = alive /\ toClient' = toClient /\ Serves("stop")
  BY DEF StopRequest
<1>2. /\ ConnectionInv' /\ StopInv'
      /\ OneRequest => OneRequest'
      /\ NoRequest => NoRequest'
  BY <1>1, ServedNoRun
<1>3. /\ Len(toServer) \in Nat \ {0} /\ DOMAIN toServer = 1 .. Len(toServer)
      /\ DOMAIN toServer' = 1 .. Len(toServer) - 1
      /\ \A i \in DOMAIN toServer' :
           i \in Nat /\ i + 1 \in DOMAIN toServer
           /\ toServer'[i] = toServer[i + 1]
      /\ UNCHANGED <<ws, lost, isRunning, runTag, buttons>>
  BY <1>1, ServeFacts
<1>4. TagInv'
  BY <1>1, <1>3 DEF ControlInv, TagInv
<1>5. (OneEnd => OneEnd') /\ (NoEnd => NoEnd')
  BY <1>1, <1>3 DEF OneEnd, NoEnd, Ends
<1> QED BY <1>1, <1>2, <1>3, <1>4, <1>5 DEF ControlInv, DueInv

(* The answer to a request to format is of an earlier run than the one     *)
(* that shows the stop button.                                             *)
LEMMA ControlFormatRequest ==
  TypeInv /\ ControlInv /\ FormatRequest => ControlInv'
<1> SUFFICES ASSUME TypeInv, ControlInv, FormatRequest PROVE ControlInv'
  OBVIOUS
<1>1. alive' = alive /\ Serves("format")
  BY DEF FormatRequest
<1>2. /\ ConnectionInv' /\ StopInv'
      /\ OneRequest => OneRequest'
      /\ NoRequest => NoRequest'
  BY <1>1, ServedNoRun
<1>3. /\ Len(toServer) \in Nat \ {0} /\ DOMAIN toServer = 1 .. Len(toServer)
      /\ DOMAIN toServer' = 1 .. Len(toServer) - 1
      /\ \A i \in DOMAIN toServer' :
           i \in Nat /\ i + 1 \in DOMAIN toServer
           /\ toServer'[i] = toServer[i + 1]
      /\ Request = toServer[1] /\ Request \in Requests
      /\ Request.type = "format"
      /\ UNCHANGED <<ws, lost, isRunning, runTag, buttons>> /\ ws = "open"
  BY <1>1, ServeFacts
<1>4. /\ Request.tag \in Nat /\ Request.tag <= runTag
      /\ buttons = "stop" => Request.tag # runTag
  BY <1>3 DEF ControlInv, TagInv, Requests
<1>5. Request.value \in Code
  BY <1>1, <1>3, ServedType
<1>6. PICK type \in {"format", "exception"} :
        /\ Len(toClient) \in Nat /\ DOMAIN toClient = 1 .. Len(toClient)
        /\ DOMAIN toClient' = 1 .. Len(toClient) + 1
        /\ \A i \in DOMAIN toClient' :
             \/ i = Len(toClient) + 1
             \/ i \in DOMAIN toClient /\ toClient'[i] = toClient[i]
        /\ toClient'[Len(toClient) + 1].type = type
        /\ toClient'[Len(toClient) + 1].tag = Request.tag
  BY <1>4, <1>5, AnswerFacts DEF FormatRequest
<1>7. TagInv'
  BY <1>1, <1>3, <1>4, <1>6 DEF ControlInv, TagInv
<1>8. ASSUME buttons = "stop" PROVE (OneEnd => OneEnd') /\ (NoEnd => NoEnd')
  <2>1. /\ \A i \in DOMAIN toClient :
             i \in DOMAIN toClient' /\ (Ends(toClient[i])' <=> Ends(toClient[i]))
        /\ \A i \in DOMAIN toClient' :
             i \notin DOMAIN toClient => ~Ends(toClient[i])'
    BY <1>3, <1>4, <1>6, <1>8 DEF Ends
  <2>2. NoEnd => NoEnd'
    BY <2>1 DEF NoEnd
  <2>3. ASSUME OneEnd PROVE OneEnd'
    <3>1. PICK i \in DOMAIN toClient :
            \A j \in DOMAIN toClient : Ends(toClient[j]) <=> j = i
      BY <2>3 DEF OneEnd
    <3>2. \A j \in DOMAIN toClient' : Ends(toClient[j])' <=> j = i
      BY <2>1, <3>1
    <3> QED BY <2>1, <3>1, <3>2 DEF OneEnd
  <2> QED BY <2>2, <2>3
<1> QED BY <1>1, <1>2, <1>3, <1>7, <1>8 DEF ControlInv, DueInv

(* A process reports: nothing that ends a run. *)
LEMMA ControlReport ==
  ASSUME TypeInv, ControlInv, NEW t \in Tags, Report(t),
         \A p \in ended : p <= runTag
  PROVE  ControlInv'
<1>1. /\ t \in Nat /\ t <= runTag /\ runTag \in Nat
      /\ UNCHANGED <<ws, lost, isRunning, runTag, buttons, toServer, alive>>
  BY DEF Report, Tags, client, ControlInv, TagInv, TypeInv
<1>2. PICK type \in {"output", "value", "runtime-exception"} :
        /\ Len(toClient) \in Nat /\ DOMAIN toClient = 1 .. Len(toClient)
        /\ DOMAIN toClient' = 1 .. Len(toClient) + 1
        /\ \A i \in DOMAIN toClient' :
             \/ i = Len(toClient) + 1
             \/ i \in DOMAIN toClient /\ toClient'[i] = toClient[i]
        /\ toClient'[Len(toClient) + 1].type = type
        /\ toClient'[Len(toClient) + 1].tag = t
  BY <1>1, AnswerFacts DEF Report
<1>3. ConnectionInv'
  BY <1>1 DEF Report, ControlInv, ConnectionInv
<1>4. TagInv'
  BY <1>1, <1>2 DEF ControlInv, TagInv
<1>5. StopInv'
  BY <1>1 DEF ControlInv, StopInv
<1>6. (OneRequest => OneRequest') /\ (NoRequest => NoRequest')
  BY <1>1 DEF OneRequest, NoRequest
<1>7. /\ \A i \in DOMAIN toClient :
           i \in DOMAIN toClient' /\ (Ends(toClient[i])' <=> Ends(toClient[i]))
      /\ \A i \in DOMAIN toClient' :
           i \notin DOMAIN toClient => ~Ends(toClient[i])'
  BY <1>1, <1>2 DEF Ends, FinishTypes
<1>8. NoEnd => NoEnd'
  BY <1>7 DEF NoEnd
<1>9. ASSUME OneEnd PROVE OneEnd'
  <2>1. PICK i \in DOMAIN toClient :
          \A j \in DOMAIN toClient : Ends(toClient[j]) <=> j = i
    BY <1>9 DEF OneEnd
  <2>2. \A j \in DOMAIN toClient' : Ends(toClient[j])' <=> j = i
    BY <1>7, <2>1
  <2> QED BY <1>7, <2>1, <2>2 DEF OneEnd
<1> QED BY <1>1, <1>3, <1>4, <1>5, <1>6, <1>8, <1>9 DEF ControlInv, DueInv

(* The program of the run that shows the stop button ends. *)
LEMMA ControlExit ==
  ASSUME TypeInv, ControlInv, NEW t \in Tags, Exit(t)
  PROVE  ControlInv'
<1>1. /\ t \in Nat /\ t = runTag /\ runTag \in Nat /\ alive = {t}
      /\ alive' = {} /\ ws = "open" /\ buttons = "stop"
      /\ UNCHANGED <<ws, lost, isRunning, runTag, buttons, toServer>>
  BY DEF Exit, Tags, client, ControlInv, TagInv, TypeInv
<1>2. /\ Len(toClient) \in Nat /\ DOMAIN toClient = 1 .. Len(toClient)
      /\ DOMAIN toClient' = 1 .. Len(toClient) + 1
      /\ \A i \in DOMAIN toClient' :
           \/ i = Len(toClient) + 1
           \/ i \in DOMAIN toClient /\ toClient'[i] = toClient[i]
      /\ toClient'[Len(toClient) + 1].type = "exit"
      /\ toClient'[Len(toClient) + 1].tag = t
  BY <1>1, AnswerFacts DEF Exit
<1>3. NoRequest /\ NoEnd
  BY <1>1 DEF ControlInv, DueInv
<1>4. ConnectionInv'
  BY <1>1 DEF ControlInv, ConnectionInv
<1>5. TagInv'
  BY <1>1, <1>2 DEF ControlInv, TagInv
<1>6. StopInv' /\ NoRequest'
  BY <1>1, <1>3 DEF ControlInv, StopInv, NoRequest
<1>7. OneEnd'
  <2>1. Len(toClient) + 1 \in DOMAIN toClient'
    BY <1>2
  <2>2. \A j \in DOMAIN toClient' : Ends(toClient[j])' <=> j = Len(toClient) + 1
    BY <1>1, <1>2, <1>3 DEF NoEnd, Ends, FinishTypes
  <2> QED BY <2>1, <2>2 DEF OneEnd
<1> QED BY <1>1, <1>4, <1>5, <1>6, <1>7 DEF ControlInv, DueInv

EndedInv == \A p \in ended : p \in Nat /\ p <= runTag

LEMMA EndedStep ==
  TypeInv /\ ControlInv /\ EndedInv /\ [Next]_vars => EndedInv'
<1> SUFFICES ASSUME TypeInv, ControlInv, EndedInv, [Next]_vars PROVE EndedInv'
  OBVIOUS
<1>0. runTag \in Nat
  BY DEF TypeInv
<1>1. CASE Play \/ RunTimer \/ Open \/ Format \/ Close \/ OtherCloses
  BY <1>0, <1>1 DEF Play, RunTimer, Open, Format, Close, OtherCloses, Run,
     server, EndedInv
<1>2. CASE Stop \/ Edit \/ ClickEditor \/ ClickLine \/ CloseLeft \/ BlinkTimer
  BY <1>2 DEF Stop, Edit, ClickEditor, ClickLine, CloseLeft, BlinkTimer,
     server, client, EndedInv
<1>3. CASE Reload
  BY <1>3 DEF Reload, EndedInv
<1>4. CASE Deliver
  BY <1>4 DEF Deliver, Discard, ReceiveRun, ReceiveOutput, ReceiveValue,
     ReceiveRuntimeException, ReceiveExit, ReceiveException, ReceiveBug,
     ReceiveFormat, Receives, server, client, EndedInv
<1>5. CASE Serve
  BY <1>5 DEF Serve, CompileFails, Execute, StopRequest, FormatRequest,
     Serves, client, EndedInv
<1>6. ASSUME NEW t \in Tags, Report(t) \/ Exit(t) PROVE EndedInv'
  <2>1. CASE Report(t)
    <3>1. UNCHANGED <<ended, runTag>>
      BY <2>1 DEF Report, client
    <3> QED BY <3>1 DEF EndedInv
  <2>2. CASE Exit(t)
    <3>1. t \in alive /\ ended' = ended \cup {t} /\ runTag' = runTag
      BY <2>2 DEF Exit, client
    <3>2. alive \subseteq {runTag}
      BY DEF ControlInv, TagInv
    <3>3. t = runTag
      BY <3>1, <3>2
    <3>4. ended' = ended \cup {runTag} /\ runTag' = runTag
      BY <3>1, <3>3
    <3> QED BY <1>0, <3>4 DEF EndedInv
  <2> QED BY <1>6, <2>1, <2>2
<1>7. CASE UNCHANGED vars
  BY <1>7 DEF vars, client, server, EndedInv
<1> QED BY <1>1, <1>2, <1>3, <1>4, <1>5, <1>6, <1>7 DEF Next, User

LEMMA ControlStep ==
  TypeInv /\ ControlInv /\ EndedInv /\ [Next]_vars => ControlInv'
<1> SUFFICES ASSUME TypeInv, ControlInv, EndedInv, [Next]_vars
             PROVE  ControlInv'
  OBVIOUS
<1>1. CASE Play
  BY <1>1, ControlRun DEF Play, server
<1>2. CASE RunTimer
  <2>1. CASE MayRun
    BY <1>2, <2>1, ControlRun DEF RunTimer, server
  <2>2. CASE ~MayRun
    BY <1>2, <2>2, ControlFrame DEF RunTimer, server, control
  <2> QED BY <2>1, <2>2
<1>3. CASE Open
  <2>1. CASE autorun /\ MayRun
    BY <1>3, <2>1, ControlRun DEF Open, server
  <2>2. CASE ~(autorun /\ MayRun)
    <3>1. /\ ws = "connecting" /\ ws' = "open" /\ buttons' = "play"
          /\ toServer' = <<>> /\ toClient' = <<>> /\ toServer = <<>>
          /\ UNCHANGED <<lost, isRunning, runTag, alive>>
      BY <1>3, <2>2 DEF Open, server, ControlInv, ConnectionInv
    <3> QED BY <3>1 DEF ControlInv, ConnectionInv, TagInv, DueInv, StopInv
  <2> QED BY <2>1, <2>2
<1>4. CASE Close
  <2>1. /\ ws' = "closed" /\ lost' /\ buttons' = "disabled"
        /\ toServer' = <<>> /\ toClient' = <<>>
        /\ UNCHANGED <<isRunning, runTag, alive>>
    BY <1>4 DEF Close, server
  <2> QED BY <2>1 DEF ControlInv, ConnectionInv, TagInv, DueInv, StopInv
<1>5. CASE OtherCloses
  <2>1. lost' /\ UNCHANGED <<ws, isRunning, runTag, buttons, toServer,
                             toClient, alive>>
    BY <1>5 DEF OtherCloses, server
  <2> QED BY <2>1 DEF ControlInv, ConnectionInv, TagInv, DueInv, StopInv,
             OneRequest, NoRequest, OneEnd, NoEnd, Ends
<1>6. CASE Stop
  BY <1>6, ControlStop
<1>7. CASE Format
  BY <1>7, ControlFormat
<1>8. CASE Edit \/ ClickEditor \/ ClickLine \/ CloseLeft \/ BlinkTimer
  BY <1>8, ControlFrame
     DEF Edit, ClickEditor, ClickLine, CloseLeft, BlinkTimer, client, server, control
<1>9. CASE Reload
  BY <1>9 DEF Reload, ControlInv, ConnectionInv, TagInv, DueInv, StopInv
<1>10. CASE Deliver
  <2>0. /\ toClient # <<>> /\ toClient' = Tail(toClient)
        /\ UNCHANGED <<ws, lost, runTag, toServer, alive>>
    BY <1>10 DEF Deliver, Discard, ReceiveRun, ReceiveOutput, ReceiveValue,
       ReceiveRuntimeException, ReceiveExit, ReceiveException, ReceiveBug,
       ReceiveFormat, Receives, client, server
  <2>1. CASE Discard \/ ReceiveRun \/ ReceiveOutput \/ ReceiveValue
             \/ ReceiveRuntimeException \/ ReceiveFormat
    <3>1. /\ ~Ends(Head(toClient)) /\ UNCHANGED <<isRunning, buttons>>
      BY <2>1 DEF Discard, ReceiveRun, ReceiveOutput, ReceiveValue,
         ReceiveRuntimeException, ReceiveFormat, Receives, Ends, FinishTypes,
         SessionUnchanged, client
    <3> QED BY <2>0, <3>1, ControlReceive
  <2>2. CASE ReceiveExit \/ ReceiveException \/ ReceiveBug
    <3>1. Ends(Head(toClient)) /\ Finish
      BY <2>2 DEF ReceiveExit, ReceiveException, ReceiveBug, Receives, Ends,
         FinishTypes
    <3> QED BY <2>0, <3>1, ControlFinish
  <2> QED BY <1>10, <2>1, <2>2 DEF Deliver
<1>11. CASE Serve
  BY <1>11, ControlCompileFails, ControlExecute, ControlStopRequest,
     ControlFormatRequest DEF Serve
<1>12. ASSUME NEW t \in Tags, Report(t) \/ Exit(t) PROVE ControlInv'
  BY <1>12, ControlReport, ControlExit DEF EndedInv
<1>13. CASE UNCHANGED vars
  BY <1>13, ControlFrame DEF vars, client, server, control
<1> QED
  BY <1>1, <1>2, <1>3, <1>4, <1>5, <1>6, <1>7, <1>8, <1>9, <1>10, <1>11,
     <1>12, <1>13 DEF Next, User

PlaygroundInv == TypeInv /\ ControlInv /\ EndedInv

LEMMA PlaygroundInvariant == Spec => []PlaygroundInv
<1>1. Init => PlaygroundInv
  BY TypeInit, ControlInit DEF Init, EndedInv, PlaygroundInv
<1>2. PlaygroundInv /\ [Next]_vars => PlaygroundInv'
  BY TypeStep, ControlStep, EndedStep DEF PlaygroundInv
<1> QED BY <1>1, <1>2, PTL DEF Spec

-----------------------------------------------------------------------------
(* While the stop button shows, the end of this run is still to come, and  *)
(* in one place only.                                                      *)
THEOREM StopButtonComesBack == Spec => []AnswerDue
<1>1. PlaygroundInv => AnswerDue
  <2> SUFFICES ASSUME PlaygroundInv, buttons = "stop"
               PROVE  \/ /\ \E i \in Requested : Requested = {i}
                         /\ runTag \notin alive /\ Ending = {}
                      \/ Requested = {} /\ runTag \in alive /\ Ending = {}
                      \/ /\ Requested = {} /\ runTag \notin alive
                         /\ \E i \in Ending : Ending = {i}
    BY DEF AnswerDue
  <2>1. Requested = {i \in DOMAIN toServer : toServer[i].type = "run"}
    BY DEF Requested, PlaygroundInv, ControlInv, TagInv
  <2>2. Ending = {i \in DOMAIN toClient : Ends(toClient[i])}
    BY DEF Ending, Ends
  <2>3. OneRequest => \E i \in Requested : Requested = {i}
    BY <2>1 DEF OneRequest
  <2>4. NoRequest => Requested = {}
    BY <2>1 DEF NoRequest
  <2>5. OneEnd => \E i \in Ending : Ending = {i}
    BY <2>2 DEF OneEnd
  <2>6. NoEnd => Ending = {}
    BY <2>2 DEF NoEnd
  <2>7. alive # {} => runTag \in alive
    BY DEF PlaygroundInv, ControlInv, TagInv
  <2> QED BY <2>3, <2>4, <2>5, <2>6, <2>7 DEF PlaygroundInv, ControlInv, DueInv
<1> QED BY <1>1, PlaygroundInvariant, PTL

(* Though stop names no run, only the program that the user sees running   *)
(* is ever terminated, and only because the user asked for it.             *)
THEOREM OnlyOwnProgramStopped == Spec => StopKillsOwn
<1>1. PlaygroundInv /\ [Next]_vars =>
        [\A t \in killed' \ killed :
           t = runTag /\ Request.type = "stop" /\ Request.tag = t]_vars
  <2> SUFFICES ASSUME PlaygroundInv, Next, NEW t \in killed' \ killed
               PROVE  t = runTag /\ Request.type = "stop" /\ Request.tag = t
    OBVIOUS
  <2>1. CASE Execute
    BY <2>1, ControlExecute DEF Execute, StopProcess, PlaygroundInv
  <2>2. CASE StopRequest
    <3>1. t \in alive
      BY <2>2 DEF StopRequest, StopProcess
    <3>2. t = runTag
      BY <3>1 DEF PlaygroundInv, ControlInv, TagInv
    <3>3. Request = toServer[1] /\ 1 \in DOMAIN toServer /\ Request.type = "stop"
      BY <2>2, ServeFacts DEF StopRequest, PlaygroundInv
    <3> QED BY <3>1, <3>2, <3>3 DEF PlaygroundInv, ControlInv, StopInv
  <2>3. CASE Next /\ ~Execute /\ ~StopRequest
    <3>1. killed' \subseteq killed
      <4>1. CASE Play \/ RunTimer \/ Open \/ Format \/ Close \/ OtherCloses
        BY <4>1 DEF Play, RunTimer, Open, Format, Close, OtherCloses, server
      <4>2. CASE Stop \/ Edit \/ ClickEditor \/ ClickLine \/ CloseLeft \/ BlinkTimer
        BY <4>2 DEF Stop, Edit, ClickEditor, ClickLine, CloseLeft, BlinkTimer, server
      <4>3. CASE Reload
        BY <4>3 DEF Reload
      <4>4. CASE Deliver
        BY <4>4 DEF Deliver, Discard, ReceiveRun, ReceiveOutput,
           ReceiveValue, ReceiveRuntimeException, ReceiveExit,
           ReceiveException, ReceiveBug, ReceiveFormat, Receives, server
      <4>5. CASE CompileFails \/ FormatRequest
        BY <4>5 DEF CompileFails, FormatRequest
      <4>6. CASE \E p \in Tags : Report(p) \/ Exit(p)
        BY <4>6 DEF Report, Exit
      <4> QED BY <2>3, <4>1, <4>2, <4>3, <4>4, <4>5, <4>6 DEF Next, User, Serve
    <3> QED BY <3>1
  <2> QED BY <2>1, <2>2, <2>3
<1> QED BY <1>1, PlaygroundInvariant, PTL DEF Spec, StopKillsOwn

-----------------------------------------------------------------------------
(* The table of a line *)

Types == {m.type : m \in Messages} \cup {None}
Labels == UNION {m.data : m \in {n \in Messages : n.data # None}}

Inspectors ==
  [messages : Seq(Messages), valueType : Types,
   table : [open : BOOLEAN, labels : SUBSET Labels, rows : Nat]]

RowsOf(labels, messages) ==
  {i \in DOMAIN messages : ~RowRaises(labels, messages[i])}

InspectorOK(v) ==
  /\ v \in Inspectors
  /\ v.table.open => v.table.rows = Cardinality(RowsOf(v.table.labels, v.messages))
  /\ v.valueType # None =>
       \A i \in DOMAIN v.messages : v.messages[i].type = v.valueType

(* And only values are on their way as values. *)
TableInv ==
  /\ inspector # None => InspectorOK(inspector.values)
  /\ \A i \in DOMAIN toClient :
       toClient[i].type = "value" => toClient[i].value \in Messages

LEMMA RowsFinite ==
  ASSUME NEW labels, NEW messages \in Seq(Messages)
  PROVE  /\ IsFiniteSet(RowsOf(labels, messages))
         /\ Cardinality(RowsOf(labels, messages)) \in Nat
<1>1. RowsOf(labels, messages) \subseteq 1 .. Len(messages)
  BY DEF RowsOf
<1>2. IsFiniteSet(1 .. Len(messages))
  BY FS_Interval
<1> QED BY <1>1, <1>2, FS_Subset, FS_CardinalityType

(* addMessage adds a row, unless the new value has no parts to show. *)
LEMMA RowsAdded ==
  ASSUME NEW labels, NEW messages \in Seq(Messages), NEW m \in Messages
  PROVE  Cardinality(RowsOf(labels, Append(messages, m))) =
           IF RowRaises(labels, m) THEN Cardinality(RowsOf(labels, messages))
           ELSE Cardinality(RowsOf(labels, messages)) + 1
<1> DEFINE n == Len(messages) + 1
<1>1. /\ DOMAIN Append(messages, m) = 1 .. n
      /\ DOMAIN messages = 1 .. Len(messages) /\ Len(messages) \in Nat
      /\ \A i \in 1 .. Len(messages) : Append(messages, m)[i] = messages[i]
      /\ Append(messages, m)[n] = m
  OBVIOUS
<1>2. CASE RowRaises(labels, m)
  <2>1. RowsOf(labels, Append(messages, m)) = RowsOf(labels, messages)
    BY <1>1, <1>2 DEF RowsOf
  <2> QED BY <1>2, <2>1
<1>3. CASE ~RowRaises(labels, m)
  <2>1. RowsOf(labels, Append(messages, m)) = RowsOf(labels, messages) \cup {n}
    BY <1>1, <1>3 DEF RowsOf
  <2>2. n \notin RowsOf(labels, messages)
    BY <1>1 DEF RowsOf
  <2>3. Cardinality(RowsOf(labels, messages) \cup {n})
          = Cardinality(RowsOf(labels, messages)) + 1
    BY <2>2, RowsFinite, FS_AddElement
  <2> QED BY <1>3, <2>1, <2>3
<1> QED BY <1>2, <1>3

LEMMA MessageAdded ==
  ASSUME NEW v, InspectorOK(v), NEW m \in Messages
  PROVE  InspectorOK(AddMessage(v, m))
<1> DEFINE w == AddMessage(v, m)
<1>1. /\ v.messages \in Seq(Messages) /\ v.valueType \in Types
      /\ v.table \in [open : BOOLEAN, labels : SUBSET Labels, rows : Nat]
      /\ v = [messages |-> v.messages, valueType |-> v.valueType, table |-> v.table]
      /\ v.table = [open |-> v.table.open, labels |-> v.table.labels,
                    rows |-> v.table.rows]
  BY DEF InspectorOK, Inspectors
<1>2. /\ w.messages = Append(v.messages, m)
      /\ w.valueType = IF Len(v.messages) = 0 \/ v.valueType = m.type
                         THEN m.type ELSE None
      /\ w.table = [open |-> v.table.open, labels |-> v.table.labels,
                    rows |-> IF v.table.open /\ ~RowRaises(v.table.labels, m)
                               THEN v.table.rows + 1 ELSE v.table.rows]
      /\ w = [messages |-> w.messages, valueType |-> w.valueType, table |-> w.table]
  BY <1>1 DEF AddMessage
<1> HIDE DEF w
<1>3. w \in Inspectors
  <2>1. w.messages \in Seq(Messages) /\ w.valueType \in Types
    BY <1>1, <1>2 DEF Types
  <2>2. w.table \in [open : BOOLEAN, labels : SUBSET Labels, rows : Nat]
    BY <1>1, <1>2
  <2> QED BY <1>2, <2>1, <2>2 DEF Inspectors
<1>4. ASSUME w.table.open
      PROVE  w.table.rows = Cardinality(RowsOf(w.table.labels, w.messages))
  <2>1. v.table.open /\ w.table.labels = v.table.labels
    BY <1>2, <1>4
  <2>2. v.table.rows = Cardinality(RowsOf(v.table.labels, v.messages))
    BY <2>1 DEF InspectorOK
  <2> QED BY <1>1, <1>2, <2>1, <2>2, RowsAdded
<1>5. ASSUME w.valueType # None, NEW i \in DOMAIN w.messages
      PROVE  w.messages[i].type = w.valueType
  <2>1. w.valueType = m.type
    BY <1>2, <1>5
  <2>2. /\ DOMAIN w.messages = 1 .. Len(v.messages) + 1
        /\ DOMAIN v.messages = 1 .. Len(v.messages) /\ Len(v.messages) \in Nat
        /\ \A j \in 1 .. Len(v.messages) : w.messages[j] = v.messages[j]
        /\ w.messages[Len(v.messages) + 1] = m
    BY <1>1, <1>2
  <2>3. CASE i = Len(v.messages) + 1
    BY <2>1, <2>2, <2>3
  <2>4. CASE i \in 1 .. Len(v.messages)
    <3>1. v.valueType = m.type /\ v.valueType # None
      BY <1>2, <1>5, <2>1, <2>2, <2>4
    <3> QED BY <2>1, <2>2, <2>4, <3>1 DEF InspectorOK
  <2> QED BY <1>5, <2>2, <2>3, <2>4
<1>6. InspectorOK(w)
  BY <1>3, <1>4, <1>5 DEF InspectorOK
<1> QED BY <1>6 DEF w

LEMMA NewInspectorOK == InspectorOK(NewInspector)
BY DEF InspectorOK, NewInspector, Inspectors, Closed, Types

(* A click on the line: the table opens only with a row for each value. *)
LEMMA TableToggled ==
  ASSUME NEW v, InspectorOK(v)
  PROVE  InspectorOK(CloseTable(v)) /\ InspectorOK(OpenTable(v))
<1>1. /\ v.messages \in Seq(Messages) /\ v.valueType \in Types
      /\ v = [messages |-> v.messages, valueType |-> v.valueType, table |-> v.table]
  BY DEF InspectorOK, Inspectors
<1>2. InspectorOK(CloseTable(v))
  <2>1. CloseTable(v) = [messages |-> v.messages, valueType |-> v.valueType,
                         table |-> Closed]
    BY <1>1 DEF CloseTable
  <2> QED BY <1>1, <2>1 DEF InspectorOK, Inspectors, Closed
<1>3. CASE \E j \in DOMAIN v.messages : RowRaises(DataLabels(v.messages), v.messages[j])
  BY <1>2, <1>3 DEF OpenTable
<1>4. CASE ~\E j \in DOMAIN v.messages : RowRaises(DataLabels(v.messages), v.messages[j])
  <2> DEFINE labels == DataLabels(v.messages)
             table == [open |-> TRUE, labels |-> labels, rows |-> Len(v.messages)]
  <2>1. OpenTable(v) = [messages |-> v.messages, valueType |-> v.valueType,
                        table |-> table]
    BY <1>1, <1>4 DEF OpenTable
  <2>2. RowsOf(labels, v.messages) = 1 .. Len(v.messages)
    BY <1>1, <1>4 DEF RowsOf
  <2>3. Cardinality(RowsOf(labels, v.messages)) = Len(v.messages)
    <3>1. Len(v.messages) \in Nat
      BY <1>1
    <3>2. Cardinality(1 .. Len(v.messages)) = Len(v.messages)
      BY <3>1, FS_Interval
    <3> QED BY <2>2, <3>2
  <2>4. labels \subseteq Labels
    BY <1>1 DEF DataLabels, Labels
  <2> HIDE DEF labels
  <2>5. OpenTable(v) \in Inspectors
    BY <1>1, <2>1, <2>4 DEF Inspectors
  <2>6. /\ OpenTable(v).messages = v.messages /\ OpenTable(v).valueType = v.valueType
        /\ OpenTable(v).table.labels = labels
        /\ OpenTable(v).table.rows = Len(v.messages)
    BY <2>1
  <2>7. v.valueType # None =>
          \A i \in DOMAIN v.messages : v.messages[i].type = v.valueType
    BY DEF InspectorOK
  <2>8. PICK o \in Inspectors : o = OpenTable(v)
    BY <2>5
  <2>9. InspectorOK(o)
    BY <2>3, <2>6, <2>7, <2>8 DEF InspectorOK
  <2> QED BY <1>2, <2>8, <2>9
<1> QED BY <1>2, <1>3, <1>4

(* The message that is received, and the one that is sent. *)
LEMMA ValuesReceived ==
  ASSUME TypeInv, TableInv, toClient # <<>>, toClient' = Tail(toClient)
  PROVE  /\ Head(toClient).type = "value" => Value \in Messages
         /\ \A i \in DOMAIN toClient' :
              toClient'[i].type = "value" => toClient'[i].value \in Messages
<1>1. toClient \in Seq(Answers)
  BY DEF TypeInv
<1> QED BY <1>1, TailFacts DEF TableInv, Value

LEMMA ValuesSent ==
  ASSUME TypeInv, TableInv, NEW type, NEW t, NEW v,
         type = "value" => v \in Messages, Message(type, t, v) \in Answers,
         Answer(type, t, v), UNCHANGED inspector
  PROVE  TableInv'
<1>1. /\ DOMAIN toClient' = 1 .. Len(toClient) + 1 /\ Len(toClient) \in Nat
      /\ DOMAIN toClient = 1 .. Len(toClient)
      /\ \A i \in 1 .. Len(toClient) : toClient'[i] = toClient[i]
      /\ toClient'[Len(toClient) + 1] = Message(type, t, v)
  BY AppendFacts DEF TypeInv, Answer
<1>2. ASSUME NEW i \in DOMAIN toClient', toClient'[i].type = "value"
      PROVE  toClient'[i].value \in Messages
  BY <1>1, <1>2 DEF TableInv, Message
<1> QED BY <1>2 DEF TableInv

LEMMA TableStep == TypeInv /\ TableInv /\ [Next]_vars => TableInv'
<1> SUFFICES ASSUME TypeInv, TableInv, [Next]_vars PROVE TableInv'
  OBVIOUS
<1>1. CASE Play \/ RunTimer \/ Open \/ Format
  <2>1. inspector' \in {inspector, None} /\ UNCHANGED toClient
    BY <1>1 DEF Play, RunTimer, Open, Format, Run, ClearScreen, screen
  <2> QED BY <2>1 DEF TableInv
<1>2. CASE Close \/ OtherCloses \/ Stop \/ Edit \/ ClickEditor \/ CloseLeft \/ BlinkTimer
  <2>1. UNCHANGED inspector /\ (toClient' = <<>> \/ UNCHANGED toClient)
    BY <1>2 DEF Close, OtherCloses, Stop, Edit, ClickEditor, CloseLeft, BlinkTimer,
       screen
  <2> QED BY <2>1 DEF TableInv
<1>3. CASE ClickLine
  <2>1. /\ inspector # None /\ InspectorOK(inspector.values)
        /\ inspector = [tag |-> inspector.tag, values |-> inspector.values]
    BY <1>3 DEF ClickLine, TypeInv, TableInv
  <2>2. /\ \/ inspector'.values = CloseTable(inspector.values)
           \/ inspector'.values = OpenTable(inspector.values)
        /\ UNCHANGED toClient
    BY <1>3, <2>1 DEF ClickLine
  <2>3. InspectorOK(CloseTable(inspector.values))
        /\ InspectorOK(OpenTable(inspector.values))
    BY <2>1, TableToggled
  <2>4. PICK v : v = inspector'.values
    OBVIOUS
  <2>5. InspectorOK(v)
    BY <2>2, <2>3, <2>4
  <2> QED BY <2>2, <2>4, <2>5 DEF TableInv, InspectorOK
<1>4. CASE Reload
  BY <1>4 DEF Reload, TableInv
<1>5. CASE Deliver
  <2>1. toClient # <<>> /\ toClient' = Tail(toClient)
    BY <1>5 DEF Deliver, Discard, ReceiveRun, ReceiveOutput, ReceiveValue,
       ReceiveRuntimeException, ReceiveExit, ReceiveException, ReceiveBug,
       ReceiveFormat, Receives
  <2>2. /\ Head(toClient).type = "value" => Value \in Messages
        /\ \A i \in DOMAIN toClient' :
             toClient'[i].type = "value" => toClient'[i].value \in Messages
    BY <2>1, ValuesReceived
  <2>3. CASE ReceiveValue
    <3>1. PICK m \in Messages : m = Value
      BY <2>2, <2>3 DEF ReceiveValue, Receives
    <3>2. CASE inspector = None
      <4>1. inspector' = [tag |-> From, values |-> AddMessage(NewInspector, m)]
        BY <2>3, <3>1, <3>2 DEF ReceiveValue
      <4>2. InspectorOK(AddMessage(NewInspector, m))
        BY NewInspectorOK, MessageAdded
      <4>3. PICK v : v = AddMessage(NewInspector, m)
        OBVIOUS
      <4>4. inspector'.values = v /\ InspectorOK(v)
        BY <4>1, <4>2, <4>3
      <4> QED BY <2>2, <4>4 DEF TableInv, InspectorOK
    <3>3. CASE inspector # None
      <4>1. /\ InspectorOK(inspector.values)
            /\ inspector = [tag |-> inspector.tag, values |-> inspector.values]
        BY <3>3 DEF TypeInv, TableInv
      <4>2. inspector' = [inspector EXCEPT !.values = AddMessage(@, m)]
        BY <2>3, <3>1, <3>3 DEF ReceiveValue
      <4>3. PICK v : v = AddMessage(inspector.values, m)
        OBVIOUS
      <4>4. InspectorOK(v)
        BY <4>1, <4>3, MessageAdded
      <4>5. inspector'.values = v
        BY <4>1, <4>2, <4>3
      <4> QED BY <2>2, <4>4, <4>5 DEF TableInv, InspectorOK
    <3> QED BY <3>2, <3>3
  <2>4. CASE ~ReceiveValue
    <3>1. UNCHANGED inspector
      BY <1>5, <2>4 DEF Deliver, Discard, ReceiveRun, ReceiveOutput,
         ReceiveRuntimeException, ReceiveExit, ReceiveException, ReceiveBug,
         ReceiveFormat, screen
    <3> QED BY <2>2, <3>1 DEF TableInv
  <2> QED BY <2>3, <2>4
<1>6. CASE CompileFails \/ Execute \/ FormatRequest
  <2>1. Request \in Requests /\ UNCHANGED inspector
    BY <1>6, ServedType DEF CompileFails, Execute, FormatRequest, Serves, screen
  <2>2. \E type \in {"exception", "bug", "run", "format"},
           v \in Code \cup {None} \cup BOOLEAN : Answer(type, Request.tag, v)
    <3>1. Request.value \in Code \cup {None}
      BY <2>1 DEF Requests
    <3> QED BY <1>6, <3>1 DEF CompileFails, Execute, FormatRequest
  <2>3. PICK type \in {"exception", "bug", "run", "format"},
             v \in Code \cup {None} \cup BOOLEAN : Answer(type, Request.tag, v)
    BY <2>2
  <2>4. Message(type, Request.tag, v) \in Answers
    BY <2>1 DEF Requests, Answers, Message
  <2> QED BY <2>1, <2>3, <2>4, ValuesSent
<1>7. CASE StopRequest
  BY <1>7 DEF StopRequest, Serves, screen, TableInv
<1>8. ASSUME NEW t \in Tags, Report(t) PROVE TableInv'
  <2>1. UNCHANGED inspector
    BY <1>8 DEF Report, screen
  <2>2. PICK type \in {"output", "value", "runtime-exception"},
             v \in Messages \cup {None} :
          Answer(type, t, v) /\ (type = "value" => v \in Messages)
    BY <1>8 DEF Report
  <2>3. Message(type, t, v) \in Answers
    BY PlaygroundAssumption DEF Answers, Message, Tags
  <2> QED BY <2>1, <2>2, <2>3, ValuesSent
<1>9. ASSUME NEW t \in Tags, Exit(t) PROVE TableInv'
  <2>1. UNCHANGED inspector
    BY <1>9 DEF Exit, screen
  <2>2. PICK v \in {0, 1} : Answer("exit", t, v)
    BY <1>9 DEF Exit
  <2>3. Message("exit", t, v) \in Answers
    BY PlaygroundAssumption DEF Answers, Message, Tags
  <2> QED BY <2>1, <2>2, <2>3, ValuesSent
<1>10. CASE UNCHANGED vars
  BY <1>10 DEF vars, screen, TableInv
<1> QED
  BY <1>1, <1>2, <1>3, <1>4, <1>5, <1>6, <1>7, <1>8, <1>9, <1>10
     DEF Next, User, Serve

(* While the table of a line is open it has a row for every value that     *)
(* came, but for those without parts under columns (addMessage and the     *)
(* click handler of Inspector in session.js), and the type beside the line *)
(* is that of all values.                                                  *)
THEOREM AllValuesInTable == Spec => []TableComplete
<1>1. Init => TableInv
  BY DEF Init, TableInv
<1>2. TableInv => TableComplete
  BY DEF TableInv, TableComplete, InspectorOK, RowsOf
<1> QED BY <1>1, <1>2, TypeInvariant, TableStep, PTL DEF Spec
=============================================================================
