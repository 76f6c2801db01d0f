--------------------------- MODULE DebugExtension ---------------------------
(***************************************************************************)
(* The VS Code extension (extension.js, activate.js): a launch is resolved *)
(* to a configuration by prompts, then the interpreter is spawned with a   *)
(* debug port, and VS Code connects to that port.  The extension host is   *)
(* one thread, which `sleep 4` blocks; the interpreters run beside it.     *)
(***************************************************************************)
EXTENDS Naturals, Sequences

CONSTANTS
  None,        \* undefined, or what is not there
  Launches,
  Programs,    \* what the user may name
  Ports,       \* what the user may enter
  EditorPort   \* 4342, of the command debugEditorContents

ASSUME DebugExtensionAssumption ==
  None \notin Launches \cup Programs \cup Ports
             \cup {EditorPort, "crystal", "starting", "listening", "exited"}

VARIABLES
  phase,     \* of each launch
  config,    \* its configuration: [type, program, port]
  answer,    \* what was entered as its program
  spawned,   \* the launches with a child, in order; the last is #child
  child,     \* state of the child of a launch, or None
  sleeping,  \* the launch that blocks the extension host, or None
  server,    \* the launch whose child the session is connected to, or None
  disposed

vars == <<phase, config, answer, spawned, child, sleeping, server, disposed>>

Empty == [type |-> None, program |-> None, port |-> None]

Live == {"starting", "listening"}

Init ==
  /\ phase = [l \in Launches |-> "idle"]
  /\ config = [l \in Launches |-> Empty]
  /\ answer = [l \in Launches |-> None]
  /\ spawned = <<>> /\ child = [l \in Launches |-> None]
  /\ sleeping = None /\ server = [l \in Launches |-> None]
  /\ disposed = FALSE

HostRuns == sleeping = None /\ ~disposed

Becomes(l, old, new) ==
  /\ HostRuns
  /\ phase[l] = old /\ phase' = [phase EXCEPT ![l] = new]

Children == <<spawned, child, sleeping, server, disposed>>

-----------------------------------------------------------------------------
(* A launch: without a configuration, with one of launch.json, where       *)
(* program or port may be missing, or of the editor's command.             *)
Start(l) ==
  /\ Becomes(l, "idle", "program")
  /\ config' \in
       {[config EXCEPT ![l] = c] :
          c \in {Empty}
                \cup [type : {"crystal"}, program : Programs \cup {None},
                      port : Ports \cup {None}]
                \cup [type : {"crystal"}, program : Programs,
                      port : {EditorPort}]}
  /\ UNCHANGED <<answer, Children>>

(* resolveDebugConfiguration: both prompts come in any case, and may be    *)
(* dismissed.                                                              *)
AnswerProgram(l) ==
  /\ Becomes(l, "program", "port")
  /\ answer' \in {[answer EXCEPT ![l] = a] : a \in Programs \cup {None}}
  /\ UNCHANGED <<config, Children>>

(* The answers count when there is no configuration and a Crystal file is  *)
(* edited.                                                                 *)
Filled(l) ==
  {config[l]} \cup
  IF config[l].type = None
    THEN [type : {"crystal"}, program : {answer[l]}, port : Ports \cup {None}]
    ELSE {}

(* Faulty variant of Outcome: only an empty configuration is refused. *)
OutcomeUnchecked(c) ==
  IF c.type = None THEN "aborted" ELSE "resolved"

Outcome(c) == IF c.program = None THEN "aborted" ELSE "resolved"

AnswerPort(l) ==
  \E c \in Filled(l) :
    /\ Becomes(l, "port", Outcome(c))
    /\ config' = [config EXCEPT ![l] = c]
    /\ UNCHANGED <<answer, Children>>

(* Faulty variants of Create: the sleep does not block the host; the       *)
(* descriptor is made for the first launch only.                           *)
CreateAsync(l) ==
  /\ Becomes(l, "resolved", "sleeping")
  /\ spawned' = Append(spawned, l)
  /\ child' = [child EXCEPT ![l] = "starting"]
  /\ UNCHANGED <<config, answer, sleeping, server, disposed>>

CreateOnce(l) ==
  /\ Becomes(l, "resolved", "sleeping") /\ spawned = <<>>
  /\ spawned' = Append(spawned, l)
  /\ child' = [child EXCEPT ![l] = "starting"]
  /\ sleeping' = l
  /\ UNCHANGED <<config, answer, server, disposed>>

(* createDebugAdapterDescriptor: #socket is never set, so there is a new   *)
(* child for each launch, and the one before is forgotten.                 *)
Create(l) ==
  /\ Becomes(l, "resolved", "sleeping")
  /\ spawned' = Append(spawned, l)
  /\ child' = [child EXCEPT ![l] = "starting"]
  /\ sleeping' = l
  /\ UNCHANGED <<config, answer, server, disposed>>

Listeners(port) ==
  {l \in Launches : child[l] = "listening" /\ config[l].port = port}

(* The end of `sleep 4`: the session connects to whoever listens at the    *)
(* port, before the host does anything else.                               *)
Connect(l) ==
  /\ phase[l] = "sleeping" /\ sleeping' = None
  /\ \/ /\ Listeners(config[l].port) = {}
        /\ phase' = [phase EXCEPT ![l] = "failed"]
        /\ UNCHANGED server
     \/ \E s \in Listeners(config[l].port) :
          /\ phase' = [phase EXCEPT ![l] = "connected"]
          /\ server' = [server EXCEPT ![l] = s]
  /\ UNCHANGED <<config, answer, spawned, child, disposed>>

(* The session ends: nobody stops the child. *)
End(l) ==
  /\ Becomes(l, "connected", "ended")
  /\ server' = [server EXCEPT ![l] = None]
  /\ UNCHANGED <<config, answer, spawned, child, sleeping, disposed>>

(* dispose kills the last child. *)
Dispose ==
  /\ HostRuns /\ disposed' = TRUE
  /\ child' = [l \in Launches |->
       IF spawned # <<>> /\ l = spawned[Len(spawned)] THEN "exited"
                                                       ELSE child[l]]
  /\ UNCHANGED <<phase, config, answer, spawned, sleeping, server>>

-----------------------------------------------------------------------------
(* The interpreters: a port has one listener, and a child that can not     *)
(* have it ends, as it does when its program can not be compiled or is     *)
(* over, and with it the sessions it serves.                               *)
Listen(l) ==
  /\ child[l] = "starting"
  /\ config[l].port # None /\ Listeners(config[l].port) = {}
  /\ child' = [child EXCEPT ![l] = "listening"]
  /\ UNCHANGED <<phase, config, answer, spawned, sleeping, server, disposed>>

Exit(l) ==
  /\ child[l] \in Live
  /\ child' = [child EXCEPT ![l] = "exited"]
  /\ phase' = [s \in Launches |->
       IF server[s] = l THEN "ended" ELSE phase[s]]
  /\ server' = [s \in Launches |-> IF server[s] = l THEN None ELSE server[s]]
  /\ UNCHANGED <<config, answer, spawned, sleeping, disposed>>

-----------------------------------------------------------------------------
Next ==
  \/ Dispose
  \/ \E l \in Launches :
       \/ Start(l) \/ AnswerProgram(l) \/ AnswerPort(l)
       \/ Create(l) \/ Connect(l) \/ End(l)
       \/ Listen(l) \/ Exit(l)

(* Prompts are answered or dismissed, and the host does what is due. *)
Fairness ==
  \A l \in Launches :
    /\ WF_vars(AnswerProgram(l)) /\ WF_vars(AnswerPort(l))
    /\ WF_vars(Create(l)) /\ WF_vars(Connect(l))

Spec == Init /\ [][Next]_vars /\ Fairness

-----------------------------------------------------------------------------
Before(a, b) ==
  \E i, j \in DOMAIN spawned : i <= j /\ spawned[i] = a /\ spawned[j] = b

(* A session talks to a server at its port, its own or that of an earlier  *)
(* launch whose interpreter still runs; never to one that was spawned      *)
(* after it: the host is blocked from its spawn until it is connected.     *)
OwnOrEarlier ==
  \A l \in Launches : server[l] # None =>
    /\ child[server[l]] = "listening" \/ disposed
    /\ config[server[l]].port = config[l].port
    /\ Before(server[l], l)

(* However the prompts are answered, of whatever a launch came with, an    *)
(* interpreter is only ever spawned for a program.                         *)
SpawnedWithProgram ==
  \A l \in Launches : child[l] # None => config[l].program # None

(* A launch comes to an end, connected or not, though others block the     *)
(* host meanwhile.                                                         *)
LaunchEnds ==
  \A l \in Launches :
    phase[l] = "program"
      ~> disposed \/ phase[l] \in {"aborted", "failed", "connected", "ended"}
=============================================================================
