----------------------------- MODULE Playground -----------------------------
(***************************************************************************)
(* A page of `crystal play`: the session of session.js with its editor,    *)
(* run buttons, output indicator and formatter, set up by application.js,  *)
(* and the session of server.cr at the other end of its web socket, which  *)
(* compiles one request at a time and runs the program as a process.       *)
(* A step is one callback of the browser, or what the server does for one  *)
(* request or one event of a process.                                      *)
(*                                                                         *)
(* Sources are versions: each change of the editor makes the next one.     *)
(* The values of one line stand for those of all lines.                    *)
(***************************************************************************)
EXTENDS Naturals, Sequences, FiniteSets

CONSTANTS
  None,
  Pages,       \* the pages that may be open, see PageType
  Messages,    \* the values a program may report, as Inspector has them
  MaxEdits,    \* bound: changes of the text by the user
  MaxRuns,     \* bound: runs started since the page was loaded
  MaxReports,  \* bound, by page: outputs, values and exceptions since then
  Emptying     \* bound: the pages where the user may empty the editor

INSTANCE Inspector WITH NoType <- None, NoData <- None

Code == 0 .. MaxEdits + 2
Default == 0               \* localStorage.lastCode or Environment.defaultSource
File == MaxEdits + 1       \* Environment.source: `crystal play file.cr`
Emptied == MaxEdits + 2    \* the empty text, which is false in a condition
Tags == 1 .. MaxRuns

PageType ==
  [main : BOOLEAN,                        \* or a demo of the about page
   storage : {"works", "throws", "none"}, \* localStorage and sessionStorage
   source : {None, File},                 \* Environment.source, None if empty
   debounced : BOOLEAN, autorun : BOOLEAN]                     \* class of the demo

ASSUME PlaygroundAssumption ==
  /\ Pages \subseteq PageType
  /\ MaxEdits \in Nat /\ MaxRuns \in Nat
  /\ MaxReports \in [Pages -> Nat] /\ Emptying \subseteq Pages
  /\ None \notin Code

VARIABLES
  page,        \* the page that is open
  stored,      \* lastCode of the sessionStorage of this tab
  text, edits, \* the version in the editor, and the newest one
  autorun,     \* option of bindRunButtons
  ws,          \* readyState of the web socket
  lost,        \* Playground.connectLostShown
  isRunning, runTag,
  scheduled,   \* is the timer of _runTimeout pending?
  formatting,  \* isRunning of codeFormatter
  buttons,     \* what the run buttons show
  stdout,      \* what was appended: the tag, and if it is an exit status
  indicator,   \* OutputIndicator
  inspector,   \* inspectors[line] or None, with the tag of its values
  left,        \* does a table still show whose inspector was cleared?
  errors, fullError,  \* tags of currentErrors and of _fullError
  ran,         \* history: the version last sent to be run
  toServer, toClient, \* messages on the web socket
  tag,         \* @tag of the server's session
  process,     \* @process: its tag, or 0
  alive, killed, ended,  \* processes: running, terminated, waited for
  reports      \* how much they sent

screen == <<stdout, indicator, inspector, left, errors, fullError>>
client == <<text, edits, autorun, ws, lost, isRunning, runTag, scheduled,
            formatting, buttons, ran>>
server == <<tag, process, alive, killed, ended, reports>>
storage == <<page, stored>>
vars == <<storage, client, screen, toServer, toClient, server>>

Off == [isError |-> FALSE, colour |-> "off", last |-> FALSE, stray |-> 0]

(* Faulty variant of InitialCode: the file of the command line is first. *)
InitialCodeFile(p, session) ==
  IF p.source # None THEN p.source
  ELSE IF p.main /\ p.storage = "works" /\ session \notin {None, Emptied}
    THEN session
  ELSE Default

(* Session storage is first, so that reloading keeps the code, unless that *)
(* was empty; a new tab loads the environment's.                           *)
InitialCode(p, session) ==
  IF p.main /\ p.storage = "works" /\ session \notin {None, Emptied}
    THEN session
  ELSE IF p.source # None THEN p.source
  ELSE Default

(* Is getRunDebounce() finite?  The settings page of another tab may       *)
(* change it at any time; without storage it is the default, 800.          *)
Debounced == {page.debounced}

Autorun == {page.autorun}

Init ==
  /\ page \in Pages /\ stored = None
  /\ text = InitialCode(page, stored) /\ edits = 0 /\ autorun \in Autorun
  /\ ws = "connecting" /\ lost = FALSE
  /\ isRunning = FALSE /\ runTag = 0 /\ scheduled = FALSE
  /\ formatting = FALSE /\ buttons = "disabled"
  /\ stdout = {} /\ indicator = Off /\ inspector = None /\ left = FALSE
  /\ errors = {} /\ fullError = None /\ ran = None
  /\ toServer = <<>> /\ toClient = <<>>
  /\ tag = 0 /\ process = 0 /\ alive = {} /\ killed = {} /\ ended = {}
  /\ reports = 0

-----------------------------------------------------------------------------
(* OutputIndicator: a timer that is not the last one can not be cancelled. *)
TurnOnWithBlink(i) ==
  [i EXCEPT !.colour = "off", !.last = TRUE,
            !.stray = IF i.last THEN @ + 1 ELSE @]

TurnError(i) == [i EXCEPT !.isError = TRUE, !.colour = "red", !.last = FALSE]

TurnOff(i) == [i EXCEPT !.isError = FALSE, !.colour = "off", !.last = FALSE]

Blink(i) == IF i.isError THEN i ELSE [i EXCEPT !.colour = "teal"]

BlinkTimer ==
  /\ \/ /\ indicator.last
        /\ indicator' = Blink([indicator EXCEPT !.last = FALSE])
     \/ /\ indicator.stray > 0
        /\ indicator' = Blink([indicator EXCEPT !.stray = @ - 1])
  /\ UNCHANGED <<storage, client, stdout, inspector, left, errors, fullError,
                 toServer, toClient, server>>

(* _clearInspectors does not close a table that is open. *)
ClearScreen ==
  /\ inspector' = None
  /\ left' = (left \/ (inspector # None /\ inspector.values.table.open))
  /\ errors' = {} /\ fullError' = None
  /\ stdout' = {} /\ indicator' = TurnOff(indicator)

-----------------------------------------------------------------------------
(* Starting, stopping and formatting *)

Message(type, t, value) == [type |-> type, tag |-> t, value |-> value]

MayRun == ~lost /\ ~isRunning /\ runTag < MaxRuns

(* Faulty variant of Run: the run keeps the tag of the last one. *)
RunUntagged(s) ==
  /\ isRunning' = TRUE /\ scheduled' = FALSE /\ runTag' = 1
  /\ ClearScreen
  /\ toServer' = Append(toServer, Message("run", 1, text))
  /\ buttons' = "stop" /\ ran' = text

(* run in the socket state s, its guards passed.  Sending on a socket that *)
(* is not open yet raises: the session counts as running, with no request. *)
Run(s) ==
  /\ isRunning' = TRUE /\ scheduled' = FALSE /\ runTag' = runTag + 1
  /\ ClearScreen
  /\ IF s = "connecting"
       THEN UNCHANGED <<toServer, buttons, ran>>
       ELSE /\ toServer' = Append(toServer, Message("run", runTag + 1, text))
            /\ buttons' = "stop" /\ ran' = text

(* The play button, or Ctrl-Enter, which works before the button does. *)
Play ==
  /\ MayRun
  /\ Run(ws)
  /\ UNCHANGED <<storage, text, edits, autorun, ws, lost, formatting,
                 toClient, server>>

(* The timer of _scheduleRun: a run that is refused is not tried again. *)
RunTimer ==
  /\ scheduled
  /\ IF MayRun
       THEN Run(ws)
       ELSE /\ lost \/ isRunning
            /\ scheduled' = FALSE
            /\ UNCHANGED <<isRunning, runTag, screen, toServer, buttons, ran>>
  /\ UNCHANGED <<storage, text, edits, autorun, ws, lost, formatting,
                 toClient, server>>

(* onopen, onReady *)
Open ==
  /\ ws = "connecting"
  /\ ws' = "open"
  /\ IF autorun /\ MayRun
       THEN Run("open")
       ELSE /\ buttons' = "play"
            /\ UNCHANGED <<isRunning, runTag, scheduled, screen, toServer, ran>>
  /\ UNCHANGED <<storage, text, edits, autorun, lost, formatting, toClient,
                 server>>

(* onclose, onDisconnect: what was under way is lost. *)
Close ==
  /\ ws \in {"connecting", "open"}
  /\ ws' = "closed" /\ lost' = TRUE /\ buttons' = "disabled"
  /\ toServer' = <<>> /\ toClient' = <<>>
  /\ UNCHANGED <<storage, text, edits, autorun, isRunning, runTag, scheduled,
                 formatting, ran, screen, server>>

(* Another session of the about page loses its connection. *)
OtherCloses ==
  /\ ~page.main /\ ~lost
  /\ lost' = TRUE
  /\ UNCHANGED <<storage, text, edits, autorun, ws, isRunning, runTag,
                 scheduled, formatting, buttons, ran, screen, toServer,
                 toClient, server>>

Stops == {i \in DOMAIN toServer : toServer[i].type = "stop"}

(* The stop button (one request at a time, a bound). *)
Stop ==
  /\ buttons = "stop" /\ Stops = {}
  /\ toServer' = Append(toServer, Message("stop", runTag, None))
  /\ UNCHANGED <<storage, client, screen, toClient, server>>

(* Faulty variant of Format: it does not ask whether the compiler runs. *)
FormatAnyTime ==
  /\ page.main /\ ~formatting
  /\ formatting' = TRUE /\ scheduled' = FALSE
  /\ ClearScreen
  /\ toServer' = IF ws = "open"
                   THEN Append(toServer, Message("format", runTag, text))
                   ELSE toServer
  /\ UNCHANGED <<storage, text, edits, autorun, ws, lost, isRunning, runTag,
                 buttons, ran, toClient, server>>

(* The button of the formatter, on the main page only: run of              *)
(* codeFormatter and format, which keeps the tag.                          *)
Format ==
  /\ page.main /\ ~formatting /\ ~isRunning
  /\ formatting' = TRUE /\ scheduled' = FALSE
  /\ ClearScreen
  /\ toServer' = IF ws = "open"
                   THEN Append(toServer, Message("format", runTag, text))
                   ELSE toServer
  /\ UNCHANGED <<storage, text, edits, autorun, ws, lost, isRunning, runTag,
                 buttons, ran, toClient, server>>

-----------------------------------------------------------------------------
(* The editor *)

(* Faulty variant of HideErrors: the widgets stay in the editor. *)
HideErrorsLater == fullError' = None /\ UNCHANGED errors

HideErrors == errors' = {} /\ fullError' = None

(* saveAsLastCode raises when the storage does, and the rest of the        *)
(* handler of the change is skipped.                                       *)
Change(v) ==
  /\ text' = v
  /\ IF page.main /\ page.storage = "throws"
       THEN UNCHANGED <<stored, errors, fullError, scheduled>>
       ELSE /\ stored' = IF page.main /\ page.storage = "works"
                           THEN v ELSE stored
            /\ HideErrors
            /\ scheduled' \in Debounced

(* The user types, or drops a file on the main page. *)
Edit ==
  /\ edits < MaxEdits
  /\ edits' = edits + 1
  /\ \/ Change(edits + 1)
     \/ page \in Emptying /\ text # Emptied /\ Change(Emptied)
  /\ UNCHANGED <<page, autorun, ws, lost, isRunning, runTag,
                 formatting, buttons, ran, stdout, indicator, inspector, left,
                 toServer, toClient, server>>

ClickEditor ==
  /\ errors # {}
  /\ HideErrors
  /\ UNCHANGED <<storage, client, stdout, indicator, inspector, left, toServer,
                 toClient, server>>

(* The table covers the page: it is closed before a line can be clicked.   *)
ClickLine ==
  /\ inspector # None /\ ~left
  /\ inspector' = [inspector EXCEPT
       !.values = IF @.table.open THEN CloseTable(@) ELSE OpenTable(@)]
  /\ UNCHANGED <<storage, client, stdout, indicator, left, errors, fullError,
                 toServer, toClient, server>>

CloseLeft ==
  /\ left /\ left' = FALSE
  /\ UNCHANGED <<storage, client, stdout, indicator, inspector, errors,
                 fullError, toServer, toClient, server>>

(* Unload stops the program and saves the code; the page is loaded again.  *)
Reload ==
  /\ page.main
  /\ stored' = IF page.storage = "works" THEN text ELSE stored
  /\ text' = InitialCode(page, stored') /\ autorun' \in Autorun
  /\ ws' = "connecting" /\ lost' = FALSE
  /\ isRunning' = FALSE /\ runTag' = 0 /\ scheduled' = FALSE
  /\ formatting' = FALSE /\ buttons' = "disabled"
  /\ stdout' = {} /\ indicator' = Off /\ inspector' = None
  /\ left' = FALSE
  /\ errors' = {} /\ fullError' = None /\ ran' = None
  /\ toServer' = <<>> /\ toClient' = <<>>
  /\ tag' = 0 /\ process' = 0 /\ alive' = {} /\ killed' = {}
  /\ ended' = {}
  /\ reports' = 0
  /\ UNCHANGED <<page, edits>>

-----------------------------------------------------------------------------
(* onmessage: a message with another tag is from an old execution. *)

Receives(type) ==
  /\ toClient # <<>> /\ Head(toClient).type = type
  /\ Head(toClient).tag = runTag
  /\ toClient' = Tail(toClient)
  /\ UNCHANGED <<page, edits, autorun, ws, lost, runTag, ran,
                 toServer, server>>

Discard ==
  /\ toClient # <<>> /\ Head(toClient).tag # runTag
  /\ toClient' = Tail(toClient)
  /\ UNCHANGED <<storage, client, screen, toServer, server>>

Value == Head(toClient).value
From == Head(toClient).tag

SessionUnchanged ==
  UNCHANGED <<stored, text, isRunning, scheduled, formatting, buttons>>

ReceiveRun == Receives("run") /\ SessionUnchanged /\ UNCHANGED screen

ReceiveOutput ==
  /\ Receives("output")
  /\ stdout' = stdout \cup {[tag |-> From, status |-> FALSE]}
  /\ indicator' = TurnOnWithBlink(indicator)
  /\ SessionUnchanged /\ UNCHANGED <<inspector, left, errors, fullError>>

(* _getInspector makes the inspector of the line when there is none. *)
ReceiveValue ==
  /\ Receives("value")
  /\ inspector' =
       IF inspector = None
         THEN [tag |-> From, values |-> AddMessage(NewInspector, Value)]
         ELSE [inspector EXCEPT !.values = AddMessage(@, Value)]
  /\ SessionUnchanged /\ UNCHANGED <<stdout, indicator, left, errors, fullError>>

(* getLine raises when the line is gone since the source was sent. *)
ReceiveRuntimeException ==
  /\ Receives("runtime-exception")
  /\ fullError' = From
  /\ \/ errors' = errors \cup {From}
     \/ text # ran /\ UNCHANGED errors
  /\ SessionUnchanged /\ UNCHANGED <<stdout, indicator, inspector, left>>

(* Faulty variant of Finish: the formatter is left running. *)
FinishRunning ==
  /\ isRunning' = FALSE /\ buttons' = "play"
  /\ UNCHANGED <<stored, text, scheduled, formatting>>

(* onFinish *)
Finish ==
  /\ isRunning' = FALSE /\ buttons' = "play" /\ formatting' = FALSE
  /\ UNCHANGED <<stored, text, scheduled>>

ReceiveExit ==
  /\ Receives("exit")
  /\ Finish
  /\ IF Value = 0
       THEN UNCHANGED <<stdout, indicator>>
       ELSE /\ stdout' = stdout \cup {[tag |-> From, status |-> TRUE]}
            /\ indicator' = TurnError(indicator)
  /\ UNCHANGED <<inspector, left, errors, fullError>>

(* Errors are shown for the parts of it that are about the source sent,    *)
(* and there may be none of them (Value is FALSE).                         *)
ReceiveException ==
  /\ Receives("exception")
  /\ Finish
  /\ fullError' = From
  /\ errors' = IF Value THEN errors \cup {From} ELSE errors
  /\ UNCHANGED <<stdout, indicator, inspector, left>>

ReceiveBug == Receives("bug") /\ Finish /\ UNCHANGED screen

(* The source that was sent, formatted, replaces whatever is there now. *)
ReceiveFormat ==
  /\ Receives("format")
  /\ formatting' = FALSE
  /\ Change(Value)
  /\ UNCHANGED <<isRunning, buttons, stdout, indicator, inspector, left>>

Deliver ==
  \/ Discard \/ ReceiveRun \/ ReceiveOutput \/ ReceiveValue
  \/ ReceiveRuntimeException \/ ReceiveExit \/ ReceiveException
  \/ ReceiveBug \/ ReceiveFormat

-----------------------------------------------------------------------------
(* The server: the session of server.cr and the processes it runs *)

Request == Head(toServer)

Serves(type) ==
  /\ ws = "open" /\ toServer # <<>> /\ Request.type = type
  /\ toServer' = Tail(toServer)
  /\ UNCHANGED <<storage, client, screen, ended, reports>>

Answer(type, t, value) == toClient' = Append(toClient, Message(type, t, value))

(* run, of a program that does not compile, or only without the            *)
(* instrumentation.                                                        *)
CompileFails ==
  /\ Serves("run")
  /\ tag' = Request.tag
  /\ \/ \E mentioned \in BOOLEAN : Answer("exception", Request.tag, mentioned)
     \/ Answer("bug", Request.tag, None)
  /\ UNCHANGED <<process, alive, killed>>

(* stop_process: @process is terminated, if it still runs. *)
StopProcess == killed' = killed \cup ({process} \cap alive)

(* run and execute: the process before is stopped. *)
Execute ==
  /\ Serves("run")
  /\ tag' = Request.tag
  /\ StopProcess
  /\ process' = Request.tag
  /\ alive' = alive \cup {Request.tag}
  /\ Answer("run", Request.tag, None)

(* Faulty variant of StopRequest: @process is forgotten but not stopped. *)
StopRequestForgotten ==
  /\ Serves("stop")
  /\ process' = 0
  /\ UNCHANGED <<tag, alive, killed, toClient>>

(* stop looks at no tag. *)
StopRequest ==
  /\ Serves("stop")
  /\ StopProcess
  /\ process' = 0
  /\ UNCHANGED <<tag, alive, toClient>>

(* format, of a source that parses or not. *)
FormatRequest ==
  /\ Serves("format")
  /\ tag' = Request.tag
  /\ \/ Answer("format", Request.tag, Request.value)
     \/ Answer("exception", Request.tag, TRUE)
  /\ UNCHANGED <<process, alive, killed>>

Serve == CompileFails \/ Execute \/ StopRequest \/ FormatRequest

(* Output comes through pipes, what the agent reports through a web socket *)
(* of its own, dropped when the session is at another tag; either may be   *)
(* read after the process was waited for.                                  *)
Report(t) ==
  /\ ws = "open" /\ t \in alive \cup ended /\ reports < MaxReports[page]
  /\ reports' = reports + 1
  /\ \/ Answer("output", t, None)
     \/ tag = t /\ \E m \in Messages : Answer("value", t, m)
     \/ tag = t /\ Answer("runtime-exception", t, None)
  /\ UNCHANGED <<storage, client, screen, toServer, tag, process, alive,
                 killed, ended>>

(* A terminated program has a status other than 0. *)
Exit(t) ==
  /\ ws = "open" /\ t \in alive
  /\ alive' = alive \ {t} /\ ended' = ended \cup {t}
  /\ \/ t \notin killed /\ Answer("exit", t, 0)
     \/ Answer("exit", t, 1)
  /\ UNCHANGED <<storage, client, screen, toServer, tag, process, killed,
                 reports>>

-----------------------------------------------------------------------------
User == Play \/ Stop \/ Format \/ Edit \/ ClickEditor \/ ClickLine
        \/ CloseLeft \/ Reload

Next ==
  \/ User \/ RunTimer \/ BlinkTimer
  \/ Open \/ Close \/ OtherCloses \/ Deliver
  \/ Serve
  \/ \E t \in Tags : Report(t) \/ Exit(t)

Spec == Init /\ [][Next]_vars

(* Timers fire, messages arrive, the server serves, and a program that is  *)
(* terminated ends; any other may run for ever.                            *)
Fairness ==
  /\ WF_vars(RunTimer) /\ WF_vars(Deliver) /\ WF_vars(Serve)
  /\ \A t \in Tags : WF_vars(t \in killed /\ Exit(t))

FairSpec == Spec /\ Fairness

(* The same when every program ends by itself. *)
EndingSpec == FairSpec /\ \A t \in Tags : WF_vars(Exit(t))

-----------------------------------------------------------------------------
FinishTypes == {"exit", "exception", "bug"}

MessageOK(m) ==
  /\ m.tag \in 0 .. MaxRuns
  /\ \/ m.type \in {"run", "format"} /\ m.value \in Code
     \/ m.type \in {"stop", "run", "output", "bug", "runtime-exception"}
     \/ m.type = "value" /\ m.value \in Messages
     \/ m.type = "exit" /\ m.value \in {0, 1}
     \/ m.type = "exception" /\ m.value \in BOOLEAN

(* Type invariant. *)
TypeOK ==
  /\ page \in Pages /\ autorun \in BOOLEAN
  /\ stored \in Code \cup {None} /\ text \in Code /\ ran \in Code \cup {None}
  /\ edits \in 0 .. MaxEdits
  /\ ws \in {"connecting", "open", "closed"} /\ lost \in BOOLEAN
  /\ isRunning \in BOOLEAN /\ runTag \in 0 .. MaxRuns /\ left \in BOOLEAN
  /\ scheduled \in BOOLEAN /\ formatting \in BOOLEAN
  /\ buttons \in {"disabled", "play", "stop"}
  /\ stdout \subseteq [tag : 0 .. MaxRuns, status : BOOLEAN]
  /\ errors \subseteq 0 .. MaxRuns
  /\ \A i \in DOMAIN toServer : MessageOK(toServer[i])
  /\ \A i \in DOMAIN toClient : MessageOK(toClient[i])
  /\ tag \in 0 .. MaxRuns /\ process \in 0 .. MaxRuns
  /\ alive \subseteq Tags /\ killed \subseteq Tags /\ ended \subseteq Tags
  /\ reports \in 0 .. MaxReports[page]

(* While the stop button shows, the end of this very run is still to come: *)
(* its request is waiting, or its program is running, or the message that  *)
(* ends it is on its way; one of them only, and no other message can end   *)
(* it.  So the buttons come back, and never while the program still runs.  *)
Requested == {i \in DOMAIN toServer :
                toServer[i].type = "run" /\ toServer[i].tag = runTag}
Ending == {i \in DOMAIN toClient :
             toClient[i].type \in FinishTypes /\ toClient[i].tag = runTag}

AnswerDue ==
  buttons = "stop" =>
    \/ /\ \E i \in Requested : Requested = {i}
       /\ runTag \notin alive /\ Ending = {}
    \/ Requested = {} /\ runTag \in alive /\ Ending = {}
    \/ /\ Requested = {} /\ runTag \notin alive
       /\ \E i \in Ending : Ending = {i}

(* Output, values and errors on the screen are those of the last run; an   *)
(* inline error has its full trace behind it; the red indicator stands for *)
(* an exit status that can be read.  (A table that the user had open stays *)
(* in front of the page until it is closed: left.)                         *)
ShownIsCurrent ==
  /\ \A o \in stdout : o.tag = runTag
  /\ inspector # None => inspector.tag = runTag
  /\ errors \subseteq {runTag}
  /\ errors # {} => fullError = runTag
  /\ indicator.colour = "red" => \E o \in stdout : o.status

(* An open table has a row for each value, those that come while it is     *)
(* open too, except that a value without parts never has one in a table    *)
(* with columns, as the row raises (session.js:192); the type beside the   *)
(* line is the type of all its values.  So of the about page's "all        *)
(* produced values are collected and can be inspected in a table" this is  *)
(* true of a line whose values all have parts, or none, and not of others. *)
TableComplete ==
  inspector # None =>
    LET v == inspector.values
        m == v.messages
    IN  /\ v.table.open =>
             v.table.rows = Cardinality({i \in DOMAIN m :
                               ~RowRaises(v.table.labels, m[i])})
        /\ v.valueType # None =>
             \A i \in DOMAIN m : m[i].type = v.valueType

(* stop names no run on the server: still only the program the user sees   *)
(* running is ever terminated, and only because the user asked.            *)
StopKillsOwn ==
  [][\A t \in killed' \ killed :
       t = runTag /\ Request.type = "stop" /\ Request.tag = t]_vars

(* A long running program can be stopped with the stop button (about page).*)
StopEnds ==
  (\E i \in Stops : toServer[i].tag = runTag) ~> buttons # "stop"

(* The formatter that was asked ends, whatever the answer is, unless the   *)
(* code is run meanwhile: the answer then has an old tag, and the end of   *)
(* that run ends the formatter.                                            *)
FormatAnswered ==
  (\E i \in DOMAIN toServer : toServer[i].type = "format")
    ~> ~formatting \/ isRunning \/ ws # "open"

(* What is in the editor is what a reload would bring, whatever comes in   *)
(* between, even when the page is never unloaded; an empty editor, which   *)
(* is never restored, makes the next reload start over.                    *)
CodeKept ==
  page.main /\ page.storage = "works" =>
    InitialCode(page, stored) =
      IF text = Emptied THEN InitialCode(page, None) ELSE text

=============================================================================
