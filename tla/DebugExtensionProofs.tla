------------------------ MODULE DebugExtensionProofs ------------------------
(* What TLAPS proves of DebugExtension, for any number of launches,        *)
(* programs and ports.                                                     *)
EXTENDS DebugExtension, TLAPS

Phases == {"idle", "program", "port", "resolved", "aborted", "sleeping",
           "failed", "connected", "ended"}

Configuration == [type : {None, "crystal"}, program : Programs \cup {None},
                  port : Ports \cup {EditorPort, None}]

TypeInv ==
  /\ phase \in [Launches -> Phases]
  /\ config \in [Launches -> Configuration]
  /\ answer \in [Launches -> Programs \cup {None}]
  /\ spawned \in Seq(Launches)
  /\ child \in [Launches -> {None, "starting", "listening", "exited"}]
  /\ sleeping \in Launches \cup {None}
  /\ server \in [Launches -> Launches \cup {None}]
  /\ disposed \in BOOLEAN

(* What the phase of a launch says of its configuration and its child.     *)
PhaseInv ==
  \A l \in Launches :
    /\ phase[l] \in {"resolved", "sleeping"} => config[l].program # None
    /\ child[l] # None =>
         /\ phase[l] \notin {"idle", "program", "port", "resolved"}
         /\ config[l].program # None
         /\ \E i \in DOMAIN spawned : spawned[i] = l
    /\ server[l] # None => phase[l] = "connected"

(* While the host is blocked, the last child is that of the launch that    *)
(* blocks it; every launch that spawned has a child, running or not.       *)
SleepInv ==
  /\ \A i \in DOMAIN spawned : child[spawned[i]] # None
  /\ \A l \in Launches : phase[l] = "sleeping" => sleeping = l
  /\ sleeping # None => spawned # <<>> /\ spawned[Len(spawned)] = sleeping

ExtensionInv == TypeInv /\ PhaseInv /\ SleepInv /\ OwnOrEarlier

-----------------------------------------------------------------------------
LEMMA ExtensionInvInit == Init => ExtensionInv
<1> SUFFICES ASSUME Init PROVE ExtensionInv
  OBVIOUS
<1>1. TypeInv
  <2>1. Empty \in Configuration
    BY DEF Empty, Configuration
  <2>2. config \in [Launches -> Configuration]
    BY <2>1 DEF Init
  <2>3. spawned \in Seq(Launches)
    BY DEF Init
  <2> QED BY <2>2, <2>3 DEF Init, TypeInv, Phases
<1>2. PhaseInv /\ OwnOrEarlier
  BY DEF Init, PhaseInv, OwnOrEarlier
<1>3. SleepInv
  BY DEF Init, SleepInv
<1> QED BY <1>1, <1>2, <1>3 DEF ExtensionInv

(* What was spawned in this order stays so. *)
LEMMA BeforeAppend ==
  ASSUME spawned \in Seq(Launches), NEW l \in Launches,
         spawned' = Append(spawned, l),
         NEW a, NEW b, Before(a, b)
  PROVE  Before(a, b)'
<1>1. PICK i, j \in DOMAIN spawned :
        i <= j /\ spawned[i] = a /\ spawned[j] = b
  BY DEF Before
<1>2. /\ i \in DOMAIN spawned' /\ j \in DOMAIN spawned'
      /\ spawned'[i] = a /\ spawned'[j] = b
  BY <1>1
<1> QED BY <1>1, <1>2 DEF Before

LEMMA ExtensionInvStep == ExtensionInv /\ [Next]_vars => ExtensionInv'
<1> SUFFICES ASSUME ExtensionInv, [Next]_vars PROVE ExtensionInv'
  OBVIOUS
<1> USE DebugExtensionAssumption
    DEF ExtensionInv, TypeInv, Phases, Configuration, Children, HostRuns, Live
<1>1. ASSUME NEW l \in Launches, Start(l) PROVE ExtensionInv'
  <2>0. PICK c \in Configuration : config' = [config EXCEPT ![l] = c]
    BY <1>1 DEF Start, Empty
  <2>1. TypeInv'
    BY <1>1, <2>0 DEF Start, Becomes
  <2>2. server[l] = None /\ child[l] = None
    BY <1>1 DEF Start, Becomes, PhaseInv
  <2>3. \A k \in Launches : k # l => config'[k] = config[k] /\ phase'[k] = phase[k]
    BY <1>1 DEF Start, Becomes
  <2>4. phase'[l] = "program"
    BY <1>1 DEF Start, Becomes
  <2>5. PhaseInv'
    BY <1>1, <2>2, <2>3, <2>4 DEF Start, PhaseInv
  <2>6. SleepInv'
    BY <1>1, <2>3, <2>4 DEF Start, SleepInv
  <2>7. OwnOrEarlier'
    <3> SUFFICES ASSUME NEW k \in Launches, server'[k] # None
                 PROVE  /\ child'[server'[k]] = "listening" \/ disposed'
                        /\ config'[server'[k]].port = config'[k].port
                        /\ Before(server[k], k)'
      BY DEF OwnOrEarlier
    <3>1. server' = server /\ child' = child /\ spawned' = spawned
          /\ disposed' = disposed /\ ~disposed
      BY <1>1 DEF Start, Becomes
    <3>2. server[k] # l /\ k # l
      BY <2>2, <3>1 DEF OwnOrEarlier
    <3> QED BY <2>3, <3>1, <3>2 DEF OwnOrEarlier, Before
  <2> QED BY <2>1, <2>5, <2>6, <2>7
<1>2. ASSUME NEW l \in Launches, AnswerProgram(l) PROVE ExtensionInv'
  <2>1. TypeInv'
    BY <1>2 DEF AnswerProgram, Becomes
  <2>2. PhaseInv' /\ SleepInv'
    BY <1>2 DEF AnswerProgram, Becomes, PhaseInv, SleepInv
  <2>3. OwnOrEarlier'
    BY <1>2 DEF AnswerProgram, OwnOrEarlier, Before
  <2> QED BY <2>1, <2>2, <2>3
<1>3. ASSUME NEW l \in Launches, AnswerPort(l) PROVE ExtensionInv'
  <2>0. PICK c \in Filled(l) :
          /\ Becomes(l, "port", Outcome(c))
          /\ config' = [config EXCEPT ![l] = c]
          /\ UNCHANGED <<answer, Children>>
    BY <1>3 DEF AnswerPort
  <2>1. c \in Configuration
    BY <2>0 DEF Filled
  <2>2. TypeInv'
    BY <2>0, <2>1 DEF Becomes, Outcome
  <2>3. server[l] = None /\ child[l] = None
    BY <2>0 DEF Becomes, PhaseInv
  <2>4. \A k \in Launches : k # l => config'[k] = config[k] /\ phase'[k] = phase[k]
    BY <2>0 DEF Becomes
  <2>5. config'[l] = c /\ phase'[l] = Outcome(c)
    BY <2>0 DEF Becomes
  <2>6. PhaseInv'
    BY <2>0, <2>3, <2>4, <2>5 DEF PhaseInv, Outcome
  <2>7. SleepInv'
    BY <2>0, <2>4, <2>5 DEF SleepInv, Outcome
  <2>8. OwnOrEarlier'
    <3> SUFFICES ASSUME NEW k \in Launches, server'[k] # None
                 PROVE  /\ child'[server'[k]] = "listening" \/ disposed'
                        /\ config'[server'[k]].port = config'[k].port
                        /\ Before(server[k], k)'
      BY DEF OwnOrEarlier
    <3>1. server' = server /\ child' = child /\ spawned' = spawned
          /\ disposed' = disposed /\ ~disposed
      BY <2>0 DEF Becomes
    <3>2. server[k] # l /\ k # l
      BY <2>3, <3>1 DEF OwnOrEarlier
    <3> QED BY <2>4, <3>1, <3>2 DEF OwnOrEarlier, Before
  <2> QED BY <2>2, <2>6, <2>7, <2>8
<1>4. ASSUME NEW l \in Launches, Create(l) PROVE ExtensionInv'
  <2>1. TypeInv'
    BY <1>4 DEF Create, Becomes
  <2>2. child[l] = None /\ server[l] = None /\ config[l].program # None
    BY <1>4 DEF Create, Becomes, PhaseInv
  <2>3. /\ Len(spawned') = Len(spawned) + 1 /\ spawned'[Len(spawned) + 1] = l
        /\ \A i \in DOMAIN spawned : i \in DOMAIN spawned' /\ spawned'[i] = spawned[i]
    BY <1>4 DEF Create
  <2>4. PhaseInv'
    <3> SUFFICES ASSUME NEW k \in Launches
                 PROVE  /\ phase'[k] \in {"resolved", "sleeping"} => config'[k].program # None
                        /\ child'[k] # None =>
                             /\ phase'[k] \notin {"idle", "program", "port", "resolved"}
                             /\ config'[k].program # None
                             /\ \E i \in DOMAIN spawned' : spawned'[i] = k
                        /\ server'[k] # None => phase'[k] = "connected"
      BY DEF PhaseInv
    <3>1. CASE k = l
      BY <1>4, <2>2, <2>3, <3>1 DEF Create, Becomes
    <3>2. CASE k # l
      BY <1>4, <2>3, <3>2 DEF Create, Becomes, PhaseInv
    <3> QED BY <3>1, <3>2
  <2>5. SleepInv'
    BY <1>4, <2>3 DEF Create, Becomes, SleepInv
  <2>6. OwnOrEarlier'
    <3> SUFFICES ASSUME NEW k \in Launches, server'[k] # None
                 PROVE  /\ child'[server'[k]] = "listening" \/ disposed'
                        /\ config'[server'[k]].port = config'[k].port
                        /\ Before(server[k], k)'
      BY DEF OwnOrEarlier
    <3>1. server' = server /\ config' = config /\ disposed' = disposed /\ ~disposed
      BY <1>4 DEF Create, Becomes
    <3>2. server[k] # l
      BY <2>2, <3>1 DEF OwnOrEarlier
    <3>3. child'[server[k]] = child[server[k]]
      BY <1>4, <3>1, <3>2 DEF Create
    <3>4. Before(server[k], k)
      BY <3>1 DEF OwnOrEarlier
    <3>5. Before(server[k], k)'
      BY <1>4, <3>1, <2>3, <3>4 DEF Create, Before
    <3> QED BY <3>1, <3>3, <3>5 DEF OwnOrEarlier
  <2> QED BY <2>1, <2>4, <2>5, <2>6
<1>5. ASSUME NEW l \in Launches, Connect(l) PROVE ExtensionInv'
  <2>1. sleeping = l /\ spawned # <<>> /\ spawned[Len(spawned)] = l
    BY <1>5 DEF Connect, SleepInv
  <2>2. Len(spawned) \in DOMAIN spawned
    BY <2>1
  <2>3. CASE Listeners(config[l].port) = {} /\ UNCHANGED server
             /\ phase' = [phase EXCEPT ![l] = "failed"]
    <3>1. TypeInv'
      BY <1>5, <2>3 DEF Connect
    <3>2. server[l] = None
      BY <1>5 DEF Connect, PhaseInv
    <3>3. PhaseInv' /\ SleepInv'
      BY <1>5, <2>1, <2>3, <3>2 DEF Connect, PhaseInv, SleepInv
    <3>4. OwnOrEarlier'
      BY <1>5, <2>3 DEF Connect, OwnOrEarlier, Before
    <3> QED BY <3>1, <3>3, <3>4
  <2>4. CASE \E s \in Listeners(config[l].port) :
               /\ phase' = [phase EXCEPT ![l] = "connected"]
               /\ server' = [server EXCEPT ![l] = s]
    <3>0. PICK s \in Listeners(config[l].port) :
               /\ phase' = [phase EXCEPT ![l] = "connected"]
               /\ server' = [server EXCEPT ![l] = s]
      BY <2>4
    <3>1. s \in Launches /\ child[s] = "listening" /\ config[s].port = config[l].port
      BY DEF Listeners
    <3>2. Before(s, l)
      <4>1. PICK i \in DOMAIN spawned : spawned[i] = s
        BY <3>1 DEF PhaseInv
      <4> QED BY <4>1, <2>1, <2>2 DEF Before
    <3>3. TypeInv'
      BY <1>5, <3>0, <3>1 DEF Connect
    <3>4. PhaseInv' /\ SleepInv'
      BY <1>5, <2>1, <3>0, <3>1 DEF Connect, PhaseInv, SleepInv
    <3>5. OwnOrEarlier'
      BY <1>5, <3>0, <3>1, <3>2 DEF Connect, OwnOrEarlier, Before
    <3> QED BY <3>3, <3>4, <3>5
  <2> QED BY <1>5, <2>3, <2>4 DEF Connect
<1>6. ASSUME NEW l \in Launches, End(l) PROVE ExtensionInv'
  <2>1. TypeInv'
    BY <1>6 DEF End, Becomes
  <2>2. PhaseInv' /\ SleepInv'
    BY <1>6 DEF End, Becomes, PhaseInv, SleepInv
  <2>3. OwnOrEarlier'
    BY <1>6 DEF End, OwnOrEarlier, Before
  <2> QED BY <2>1, <2>2, <2>3
<1>7. CASE Dispose
  <2>1. TypeInv'
    BY <1>7 DEF Dispose
  <2>2. PhaseInv'
    <3>1. spawned # <<>> => child[spawned[Len(spawned)]] # None
      BY DEF SleepInv
    <3>2. \A k \in Launches : child'[k] # None => child[k] # None
      BY <1>7, <3>1 DEF Dispose
    <3> QED BY <1>7, <3>2 DEF Dispose, PhaseInv
  <2>3. SleepInv'
    BY <1>7 DEF Dispose, SleepInv
  <2>4. OwnOrEarlier'
    BY <1>7 DEF Dispose, OwnOrEarlier, Before
  <2> QED BY <2>1, <2>2, <2>3, <2>4
<1>8. ASSUME NEW l \in Launches, Listen(l) PROVE ExtensionInv'
  <2>1. TypeInv'
    BY <1>8 DEF Listen
  <2>2. PhaseInv' /\ SleepInv'
    BY <1>8 DEF Listen, PhaseInv, SleepInv
  <2>3. OwnOrEarlier'
    BY <1>8 DEF Listen, OwnOrEarlier, Before
  <2> QED BY <2>1, <2>2, <2>3
<1>9. ASSUME NEW l \in Launches, Exit(l) PROVE ExtensionInv'
  <2>1. TypeInv'
    BY <1>9 DEF Exit
  <2>2. PhaseInv' /\ SleepInv'
    BY <1>9 DEF Exit, PhaseInv, SleepInv
  <2>3. OwnOrEarlier'
    BY <1>9 DEF Exit, OwnOrEarlier, Before
  <2> QED BY <2>1, <2>2, <2>3
<1>10. CASE UNCHANGED vars
  BY <1>10 DEF vars, PhaseInv, SleepInv, OwnOrEarlier, Before
<1> QED
  BY <1>1, <1>2, <1>3, <1>4, <1>5, <1>6, <1>7, <1>8, <1>9, <1>10 DEF Next

LEMMA ExtensionInvariant == Spec => []ExtensionInv
BY ExtensionInvInit, ExtensionInvStep, PTL DEF Spec

-----------------------------------------------------------------------------
(* A session talks to the interpreter of its own launch or of an earlier   *)
(* one at the same port, whichever of them have ended in between.          *)
THEOREM ConnectedToOwnOrEarlier == Spec => []OwnOrEarlier
<1>1. ExtensionInv => OwnOrEarlier
  BY DEF ExtensionInv
<1> QED BY <1>1, ExtensionInvariant, PTL

(* However the prompts are answered, no interpreter is spawned without a   *)
(* program.                                                                *)
THEOREM NothingSpawnedWithoutProgram == Spec => []SpawnedWithProgram
<1>1. ExtensionInv => SpawnedWithProgram
  BY DEF ExtensionInv, PhaseInv, SpawnedWithProgram
<1> QED BY <1>1, ExtensionInvariant, PTL
=============================================================================
