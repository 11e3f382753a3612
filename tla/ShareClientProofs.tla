------------------------- MODULE ShareClientProofs -------------------------
(***************************************************************************)
(* The lease of a relay client, for any number of clients and ports: what  *)
(* the relay holds for a client that lost no command is the port the       *)
(* client shows, and as long as nobody lost one no port is taken away.     *)
(***************************************************************************)
EXTENDS ShareClient, TLAPS

CmdState == [op   : {"none", "CONNECT", "RELEASE", "PING"}, port : Port \cup {NoPort},
             at   : {"none", "dial", "sent", "broken"}]

LoopState == [at   : {"none", "check", "dial", "wait", "local", "pipe", "serve", "bind", "lost", "hung"},
              port : Port \cup {NoPort}]

LateState == [op : {"CONNECT", "RELEASE"}, port : Port \cup {NoPort}, from : Client]

\* The two tasks of a client: no heartbeat before the endpoint is there, none but a lost one
\* beside stop(), and a command is one the task really sends.
TasksKnown(c) ==
    /\ main[c] \in {"running", "release", "stopped"} => endpoint[c] \in Port
    /\ main[c] \in {"idle", "connect", "failed"} => heartbeat[c] = "idle" /\ generation[c] = 0
    /\ timer[c] => main[c] = "running"
    /\ main[c] = "running" => cmd[c]["main"] = NoCmd
    /\ heartbeat[c] = "idle" => cmd[c]["heartbeat"] = NoCmd
    /\ \A t \in Task : cmd[c][t].at = "none" \/ cmd[c][t].op # "none"
    /\ heartbeat[c] # "idle" => main[c] = "running" \/ c \in untidy

\* A refresh that has begun and a stop() still find a generation.
Room(c) ==
    generation[c] + (IF main[c] = "running" THEN 1 ELSE 0)
      + (IF heartbeat[c] \in {"release", "connect"} THEN 1 ELSE 0) <= MaxGeneration

\* A RELEASE under way names the endpoint, and a client that waits for its new lease has none.
OwnRelease(c) ==
    c \notin untidy =>
       /\ heartbeat[c] = "release" => cmd[c]["heartbeat"].port = endpoint[c]
       /\ heartbeat[c] = "connect" => \A p \in Port : lease[p] # c
       /\ main[c] = "release" => cmd[c]["main"].op = "RELEASE" /\ cmd[c]["main"].port = endpoint[c]

\* What the relay executes late was lost by its client.
LateUntidy == \A m \in late : m.from \in untidy

\* A client holds its endpoint until its RELEASE is executed.
HoldsEndpoint ==
    untidy = {} => \A c \in Client :
       \/ main[c] = "running" /\ heartbeat[c] \in {"idle", "ping", "release"}
       \/ main[c] = "release"
       => lease[endpoint[c]] = c

ClientInvariant ==
    /\ TypeOK /\ LeaseAccounted /\ LateUntidy /\ HoldsEndpoint
    /\ \A c \in Client : TasksKnown(c) /\ Room(c) /\ OwnRelease(c)

-----------------------------------------------------------------------------
(* Types.                                                                  *)

\* The types with the record sets named.
LEMMA NamedTypes ==
    TypeOK <=>
    /\ lease \in [Port -> Client \cup {Free}] /\ up \in BOOLEAN /\ outages \in 0 .. MaxOutages
    /\ late \subseteq LateState
    /\ main \in [Client -> {"idle", "connect", "running", "release", "stopped", "failed", "crashed"}]
    /\ heartbeat \in [Client -> {"idle", "ping", "release", "connect"}]
    /\ cmd \in [Client -> [Task -> CmdState]]
    /\ stopped \in [Client -> BOOLEAN] /\ generation \in [Client -> 0 .. MaxGeneration]
    /\ endpoint \in [Client -> Port \cup {NoPort}] /\ timer \in [Client -> BOOLEAN]
    /\ loop \in [Client -> [Loop -> LoopState]]
    /\ untidy \subseteq Client
BY Zenon DEF TypeOK, LateState, CmdState, LoopState

\* The command of a task that sends, and the one of a task that waits for nothing.
LEMMA CommandTypes ==
    /\ NoCmd \in CmdState /\ NoCmd.at = "none" /\ NoCmd.op = "none"
    /\ \A op \in {"CONNECT", "RELEASE", "PING"}, p \in Port \cup {NoPort} :
          /\ Sending(op, p) \in CmdState /\ Sending(op, p) # NoCmd
          /\ Sending(op, p).op = op /\ Sending(op, p).port = p /\ Sending(op, p).at = "dial"
BY Zenon DEF NoCmd, Sending, CmdState

\* Destroying a socket changes how far a command is, not the command.
LEMMA BrokenKeeps ==
    ASSUME NEW k \in CmdState
    PROVE  /\ Broken(k) \in CmdState
           /\ Broken(k).op = k.op /\ Broken(k).port = k.port
           /\ Broken(k).at = "none" <=> k.at = "none"
           /\ Broken(NoCmd) = NoCmd
BY Zenon DEF Broken, CmdState, NoCmd

\* Writing a command changes how far it is, not the command.
LEMMA WrittenKeeps ==
    ASSUME NEW k \in CmdState, NEW s, s = [k EXCEPT !.at = "sent"]
    PROVE  s \in CmdState /\ s.op = k.op /\ s.port = k.port
BY Zenon DEF CmdState

\* A command nobody waits for any more is one of its sender's.
LEMMA AbandonedKnown ==
    ASSUME NEW c \in Client, NEW t \in Task, cmd[c][t] \in CmdState,
           cmd[c][t].at = "none" \/ cmd[c][t].op # "none"
    PROVE  /\ Abandoned(c, t) \subseteq LateState
           /\ \A m \in Abandoned(c, t) : m.from = c
           /\ cmd[c][t].at = "none" => Abandoned(c, t) = {}
BY DEF Abandoned, LateState, CmdState

\* The loops of a client after its sockets are destroyed, and with a loop for a new lease.
LEMMA LoopTypes ==
    ASSUME NEW c \in Client, loop[c] \in [Loop -> LoopState]
    PROVE  /\ Destroyed(c) \in [Loop -> LoopState]
           /\ \A p \in Port : StartTunnelLoops(c, p, loop[c]) \in [Loop -> LoopState]
<1>1. \A l \in Loop : Closed(loop[c][l]) \in LoopState
  <2>1. ASSUME NEW k \in LoopState PROVE Closed(k) \in LoopState
    BY SMT DEF LoopState, Closed
  <2> QED
    BY <2>1, Zenon
<1>2. \A p \in Port : [at |-> "check", port |-> p] \in LoopState
  BY Zenon DEF LoopState
<1> QED
  BY <1>1, <1>2, Zenon DEF Destroyed, StartTunnelLoops

\* A client's loops are loops.
LEMMA LoopsKnown == \A c \in Client : LoopOf(c) \subseteq Loop
BY Zenon DEF LoopOf

\* Writing a command: only how far it is changes.
LEMMA WriteEffect ==
    ASSUME cmd \in [Client -> [Task -> CmdState]], NEW c \in Client, NEW t \in Task, Write(c, t)
    PROVE  /\ cmd' \in [Client -> [Task -> CmdState]]
           /\ \A d \in Client, u \in Task : /\ cmd'[d][u].op = cmd[d][u].op
                                            /\ cmd'[d][u].port = cmd[d][u].port
                                            /\ cmd[d][u].at = "none" => cmd'[d][u] = cmd[d][u]
           /\ cmd[c][t].at = "dial"
<1> DEFINE s == [cmd[c][t] EXCEPT !.at = "sent"]
<1>1. s \in CmdState /\ s.op = cmd[c][t].op /\ s.port = cmd[c][t].port
  BY WrittenKeeps, Zenon
<1>2. cmd' = [cmd EXCEPT ![c] = [cmd[c] EXCEPT ![t] = s]] /\ cmd[c][t].at = "dial"
  BY Zenon DEF Write
<1> HIDE DEF s
<1> QED
  BY <1>1, <1>2, Zenon

\* A step of a tunnel loop moves that loop.
LEMMA LoopEffect ==
    ASSUME loop \in [Client -> [Loop -> LoopState]], NEW c \in Client, NEW g \in Loop,
           LoopStep(c, g) \/ LoopPipe(c, g) \/ UdpFrame(c, g)
    PROVE  loop' \in [Client -> [Loop -> LoopState]]
<1>1. PICK a \in {"none", "check", "dial", "wait", "local", "pipe", "serve", "bind", "lost", "hung"} :
         loop' = [loop EXCEPT ![c][g].at = a]
  BY Zenon DEF LoopStep, LoopCheck, LoopDial, LoopWait, LoopLocal, LoopPipe, UdpFrame, UdpBound, Moves, ReadyPlace
<1> DEFINE s == [loop[c][g] EXCEPT !.at = a]
<1>2. s \in LoopState
  <2>1. loop[c][g] \in LoopState
    BY Zenon
  <2> QED
    BY <2>1, Zenon DEF LoopState
<1>3. loop' = [loop EXCEPT ![c] = [loop[c] EXCEPT ![g] = s]]
  BY <1>1, Zenon
<1> HIDE DEF s
<1> QED
  BY <1>2, <1>3, Zenon

\* A task takes up another command.
LEMMA CommandSet ==
    ASSUME cmd \in [Client -> [Task -> CmdState]], NEW c \in Client, NEW t \in Task,
           NEW k \in CmdState, cmd' = [cmd EXCEPT ![c][t] = k]
    PROVE  /\ cmd' \in [Client -> [Task -> CmdState]]
           /\ \A d \in Client, u \in Task : cmd'[d][u] = IF d = c /\ u = t THEN k ELSE cmd[d][u]
BY Zenon

\* Every step keeps the types.
LEMMA ClientTypeStep ==
    ASSUME ClientInvariant, [Next]_vars
    PROVE  TypeOK'
<1> USE ShareClientAssumption
<1>0. /\ TypeOK /\ \A c \in Client : TasksKnown(c) /\ Room(c)
      /\ lease \in [Port -> Client \cup {Free}] /\ up \in BOOLEAN /\ outages \in 0 .. MaxOutages
      /\ late \subseteq LateState
      /\ main \in [Client -> {"idle", "connect", "running", "release", "stopped", "failed", "crashed"}]
      /\ heartbeat \in [Client -> {"idle", "ping", "release", "connect"}]
      /\ cmd \in [Client -> [Task -> CmdState]]
      /\ stopped \in [Client -> BOOLEAN] /\ generation \in [Client -> 0 .. MaxGeneration]
      /\ endpoint \in [Client -> Port \cup {NoPort}] /\ timer \in [Client -> BOOLEAN]
      /\ loop \in [Client -> [Loop -> LoopState]]
      /\ untidy \subseteq Client
  BY NamedTypes, Zenon DEF ClientInvariant
<1> DEFINE TypeNext ==
      /\ lease' \in [Port -> Client \cup {Free}] /\ up' \in BOOLEAN /\ outages' \in 0 .. MaxOutages
      /\ late' \subseteq LateState
      /\ main' \in [Client -> {"idle", "connect", "running", "release", "stopped", "failed", "crashed"}]
      /\ heartbeat' \in [Client -> {"idle", "ping", "release", "connect"}]
      /\ cmd' \in [Client -> [Task -> CmdState]]
      /\ stopped' \in [Client -> BOOLEAN] /\ generation' \in [Client -> 0 .. MaxGeneration]
      /\ endpoint' \in [Client -> Port \cup {NoPort}] /\ timer' \in [Client -> BOOLEAN]
      /\ loop' \in [Client -> [Loop -> LoopState]]
      /\ untidy' \subseteq Client
<1>T. TypeNext => TypeOK'
  BY Zenon DEF TypeOK, LateState, CmdState, LoopState
<1>K. \A c \in Client, t \in Task : cmd[c][t].at = "none" \/ cmd[c][t].op # "none"
  BY <1>0, Zenon DEF TasksKnown
<1>A. \A c \in Client, t \in Task : Abandoned(c, t) \subseteq LateState
  BY <1>0, <1>K, AbandonedKnown
<1>B. \A c \in Client : /\ Destroyed(c) \in [Loop -> LoopState]
                        /\ \A p \in Port : StartTunnelLoops(c, p, loop[c]) \in [Loop -> LoopState]
  BY <1>0, LoopTypes, Zenon
<1>C. \A c \in Client, t \in Task : Broken(cmd[c][t]) \in CmdState
  BY <1>0, BrokenKeeps
<1>M. "main" \in Task /\ "heartbeat" \in Task
  BY Zenon DEF Task
<1>S. Sending("CONNECT", NoPort) \in CmdState /\ Sending("PING", NoPort) \in CmdState
  BY CommandTypes, Zenon
<1>R. \A c \in Client : /\ generation[c] \in Nat /\ generation[c] <= MaxGeneration
                        /\ main[c] = "connect" => generation[c] + 1 \in 0 .. MaxGeneration
                        /\ main[c] = "running" => generation[c] + 1 \in 0 .. MaxGeneration
                        /\ heartbeat[c] = "connect" => generation[c] + 1 \in 0 .. MaxGeneration
  BY <1>0 DEF TasksKnown, Room
<1>1. ASSUME NEW c \in Client, Start(c)
      PROVE  TypeNext
  <2>1. cmd' \in [Client -> [Task -> CmdState]]
    <3>1. \/ cmd' = [cmd EXCEPT ![c]["main"] = Sending("CONNECT", NoPort)]
          \/ cmd' = cmd
      BY <1>1, Zenon DEF Start
    <3> QED
      BY <1>0, <1>M, <1>S, <3>1, CommandSet, Zenon
  <2> QED
    BY <1>0, <1>1, <2>1, Zenon DEF Start, relayVars
<1>2. ASSUME NEW c \in Client, Stop(c)
      PROVE  TypeNext
  <2>1. StopCommand(c) \in CmdState
    BY <1>0, CommandTypes, Zenon DEF StopCommand
  <2>2. generation' \in [Client -> 0 .. MaxGeneration]
    BY <1>0, <1>2, <1>R, Zenon DEF Stop
  <2> QED
    BY <1>0, <1>2, <1>M, <2>1, <2>2, Zenon DEF Stop, relayVars
<1>3. ASSUME NEW c \in Client, StartFails(c)
      PROVE  TypeNext
  <2>1. cmd' \in [Client -> [Task -> CmdState]]
    BY <1>0, <1>3, <1>M, CommandTypes, Zenon DEF StartFails
  <2>2. late' \subseteq LateState /\ untidy' \subseteq Client
    BY <1>0, <1>3, <1>M, <1>A, Zenon DEF StartFails
  <2> QED
    BY <1>0, <1>3, <2>1, <2>2, Zenon DEF StartFails
<1>4. ASSUME NEW c \in Client, NEW p \in Port, StartConnected(c, p)
      PROVE  TypeNext
  <2>1. generation' \in [Client -> 0 .. MaxGeneration]
    BY <1>0, <1>4, <1>R, Zenon DEF StartConnected
  <2>2. cmd' \in [Client -> [Task -> CmdState]]
    BY <1>0, <1>4, <1>M, CommandTypes, Zenon DEF StartConnected
  <2>3. loop' \in [Client -> [Loop -> LoopState]]
    BY <1>0, <1>4, <1>B, Zenon DEF StartConnected
  <2> QED
    BY <1>0, <1>4, <2>1, <2>2, <2>3, Zenon DEF StartConnected
<1>5. ASSUME NEW c \in Client, NEW ok \in BOOLEAN, StopEnds(c, ok)
      PROVE  TypeNext
  <2>1. [t \in Task |-> IF t = "main" THEN NoCmd ELSE Broken(cmd[c][t])] \in [Task -> CmdState]
    BY <1>C, CommandTypes, Zenon
  <2>2. cmd' \in [Client -> [Task -> CmdState]]
    BY <1>0, <1>5, <2>1, Zenon DEF StopEnds
  <2>3. late' \subseteq LateState
    BY <1>0, <1>5, <1>A, <1>M, Zenon DEF StopEnds
  <2>4. loop' \in [Client -> [Loop -> LoopState]]
    BY <1>0, <1>5, <1>B, Zenon DEF StopEnds
  <2>5. lease' \in [Port -> Client \cup {Free}]
    BY <1>0, <1>5, Zenon DEF StopEnds
  <2> QED
    BY <1>0, <1>5, <2>2, <2>3, <2>4, <2>5, Zenon DEF StopEnds
<1>6. ASSUME NEW c \in Client, Tick(c) \/ Pong(c)
      PROVE  TypeNext
  <2>1. cmd' \in [Client -> [Task -> CmdState]]
    <3>1. PICK k \in CmdState : cmd' = [cmd EXCEPT ![c]["heartbeat"] = k]
      BY <1>6, <1>S, CommandTypes, Zenon DEF Tick, Pong
    <3> QED
      BY <1>0, <1>M, <3>1, CommandSet, Zenon
  <2> QED
    BY <1>0, <1>6, <2>1 DEF Tick, Pong, relayVars
<1>7. ASSUME NEW c \in Client, Refresh(c)
      PROVE  TypeNext
  <2>1. [t \in Task |-> IF t = "main" THEN Broken(cmd[c][t]) ELSE Sending("RELEASE", endpoint[c])]
           \in [Task -> CmdState]
    BY <1>0, <1>C, CommandTypes, Zenon
  <2>2. cmd' \in [Client -> [Task -> CmdState]]
    BY <1>0, <1>7, <2>1, Zenon DEF Refresh
  <2>3. generation[c] + 1 \in 0 .. MaxGeneration
    BY <1>7, <1>R DEF Refresh
  <2>4. generation' \in [Client -> 0 .. MaxGeneration]
    BY <1>0, <1>7, <2>3, Zenon DEF Refresh
  <2>5. loop' \in [Client -> [Loop -> LoopState]]
    BY <1>0, <1>7, <1>B, Zenon DEF Refresh
  <2>6. late' \subseteq LateState
    BY <1>0, <1>7, <1>A, <1>M, Zenon DEF Refresh
  <2> QED
    BY <1>0, <1>7, <2>2, <2>4, <2>5, <2>6, Zenon DEF Refresh
<1>8. ASSUME NEW c \in Client, NEW ok \in BOOLEAN, RefreshReleased(c, ok)
      PROVE  TypeNext
  <2>1. cmd' \in [Client -> [Task -> CmdState]]
    BY <1>0, <1>8, <1>M, CommandTypes, Zenon DEF RefreshReleased
  <2>2. /\ late' \subseteq LateState /\ untidy' \subseteq Client
        /\ lease' \in [Port -> Client \cup {Free}]
    BY <1>0, <1>8, <1>M, <1>A, Zenon DEF RefreshReleased
  <2> QED
    BY <1>0, <1>8, <2>1, <2>2, Zenon DEF RefreshReleased
<1>9. ASSUME NEW c \in Client, NEW p \in Port, RefreshConnected(c, p)
      PROVE  TypeNext
  <2>1. generation' \in [Client -> 0 .. MaxGeneration]
    BY <1>0, <1>9, <1>R, Zenon DEF RefreshConnected
  <2>2. cmd' \in [Client -> [Task -> CmdState]]
    BY <1>0, <1>9, <1>M, CommandTypes, Zenon DEF RefreshConnected
  <2>3. loop' \in [Client -> [Loop -> LoopState]]
    BY <1>0, <1>9, <1>B, Zenon DEF RefreshConnected
  <2> QED
    BY <1>0, <1>9, <2>1, <2>2, <2>3, Zenon DEF RefreshConnected, EndpointAfterRefresh
<1>10. ASSUME NEW c \in Client, RefreshFails(c)
       PROVE  TypeNext
  <2>1. cmd' \in [Client -> [Task -> CmdState]]
    BY <1>0, <1>10, <1>M, CommandTypes, Zenon DEF RefreshFails
  <2>2. late' \subseteq LateState /\ untidy' \subseteq Client
    BY <1>0, <1>10, <1>M, <1>A, Zenon DEF RefreshFails
  <2> QED
    BY <1>0, <1>10, <2>1, <2>2, Zenon DEF RefreshFails
<1>16. ASSUME NEW c \in Client, RefreshCrashes(c)
       PROVE  TypeNext
  <2>1. cmd' \in [Client -> [Task -> CmdState]]
    BY <1>0, <1>16, CommandTypes, Zenon DEF RefreshCrashes
  <2>2. late' \subseteq LateState /\ untidy' \subseteq Client
    BY <1>0, <1>16, <1>M, <1>A, Zenon DEF RefreshCrashes
  <2>3. [at |-> "none", port |-> NoPort] \in LoopState
    BY Zenon DEF LoopState
  <2>4. loop' \in [Client -> [Loop -> LoopState]]
    BY <1>0, <1>16, <2>3, Zenon DEF RefreshCrashes
  <2> QED
    BY <1>0, <1>16, <2>1, <2>2, <2>4, Zenon DEF RefreshCrashes
<1>11. ASSUME NEW c \in Client, NEW g \in Loop, LoopStep(c, g) \/ LoopPipe(c, g) \/ UdpFrame(c, g)
       PROVE  TypeNext
  <2>1. loop' \in [Client -> [Loop -> LoopState]]
    BY <1>0, <1>11, LoopEffect, Zenon
  <2> QED
    BY <1>0, <1>11, <2>1, Zenon DEF LoopStep, LoopCheck, LoopDial, LoopWait, LoopLocal, LoopPipe,
       UdpFrame, UdpBound, loopFrame, relayVars
<1>12. ASSUME NEW c \in Client, NEW t \in Task, Write(c, t)
       PROVE  TypeNext
  <2>1. cmd' \in [Client -> [Task -> CmdState]]
    BY <1>0, <1>12, WriteEffect, Zenon
  <2> QED
    BY <1>0, <1>12, <2>1, Zenon DEF Write, relayVars
<1>13. ASSUME NEW m \in late, ExecuteLate(m)
       PROVE  TypeNext
  <2>1. m.from \in Client
    BY <1>0, Zenon DEF LateState
  <2> QED
    BY <1>0, <1>13, <2>1, Zenon DEF ExecuteLate
<1>14. ASSUME Outage
       PROVE  TypeNext
  <2>1. cmd' \in [Client -> [Task -> CmdState]]
    BY <1>14, <1>C, Zenon DEF Outage
  <2>2. outages' \in 0 .. MaxOutages
    BY <1>0, <1>14 DEF Outage
  <2>3. untidy' \subseteq Client /\ late' \subseteq LateState
    BY <1>0, <1>14, Zenon DEF Outage
  <2>4. lease' \in [Port -> Client \cup {Free}]
    BY <1>14, Zenon DEF Outage
  <2>5. loop' \in [Client -> [Loop -> LoopState]]
    BY <1>14, <1>B, Zenon DEF Outage
  <2> QED
    BY <1>0, <1>14, <2>1, <2>2, <2>3, <2>4, <2>5, Zenon DEF Outage
<1>15. ASSUME RelayReturns \/ UNCHANGED vars
       PROVE  TypeNext
  BY <1>0, <1>15, Zenon DEF RelayReturns, vars
<1> HIDE DEF TypeNext
<1> QED
  BY <1>T, <1>1, <1>2, <1>3, <1>4, <1>5, <1>6, <1>7, <1>8, <1>9, <1>10, <1>11, <1>12, <1>13, <1>14,
     <1>15, <1>16, LoopsKnown, Zenon DEF Next, MainStep, HeartbeatStep

-----------------------------------------------------------------------------
(* The tasks of a client.                                                  *)

\* A step that is not one of client d's own leaves its tasks where they are; it may at most
\* move a command on, or break it.
Untouched(d) ==
    /\ main'[d] = main[d] /\ heartbeat'[d] = heartbeat[d] /\ generation'[d] = generation[d]
    /\ endpoint'[d] = endpoint[d] /\ timer'[d] = timer[d]
    /\ \A u \in Task : /\ cmd'[d][u].op = cmd[d][u].op /\ cmd'[d][u].port = cmd[d][u].port
                       /\ cmd[d][u].at = "none" => cmd'[d][u] = cmd[d][u]
    /\ untidy \subseteq untidy'

OwnStep(d) == Start(d) \/ Stop(d) \/ MainStep(d) \/ HeartbeatStep(d)

\* Every step is a client's own or leaves it untouched.
LEMMA OwnSteps ==
    ASSUME TypeOK, [Next]_vars, NEW d \in Client
    PROVE  Untouched(d) \/ OwnStep(d)
<1>0. /\ main \in [Client -> {"idle", "connect", "running", "release", "stopped", "failed", "crashed"}]
      /\ heartbeat \in [Client -> {"idle", "ping", "release", "connect"}]
      /\ cmd \in [Client -> [Task -> CmdState]]
      /\ generation \in [Client -> 0 .. MaxGeneration]
      /\ endpoint \in [Client -> Port \cup {NoPort}] /\ timer \in [Client -> BOOLEAN]
  BY NamedTypes, Zenon
<1>1. ASSUME NEW c \in Client, c # d, Start(c) \/ Stop(c) \/ MainStep(c) \/ HeartbeatStep(c)
      PROVE  Untouched(d)
  <2>1. cmd'[d] = cmd[d]
    BY <1>0, <1>1, Zenon DEF Start, Stop, MainStep, HeartbeatStep, StartFails, StartConnected, StopEnds,
       Tick, Pong, Refresh, RefreshReleased, RefreshConnected, RefreshFails, RefreshCrashes
  <2>2. /\ main'[d] = main[d] /\ heartbeat'[d] = heartbeat[d]
    BY <1>0, <1>1, Zenon DEF Start, Stop, MainStep, HeartbeatStep, StartFails, StartConnected, StopEnds,
       Tick, Pong, Refresh, RefreshReleased, RefreshConnected, RefreshFails, RefreshCrashes
  <2>3. generation'[d] = generation[d] /\ endpoint'[d] = endpoint[d] /\ timer'[d] = timer[d]
    BY <1>0, <1>1, Zenon DEF Start, Stop, MainStep, HeartbeatStep, StartFails, StartConnected, StopEnds,
       Tick, Pong, Refresh, RefreshReleased, RefreshConnected, RefreshFails, RefreshCrashes
  <2>4. untidy \subseteq untidy'
    BY <1>1, Zenon DEF Start, Stop, MainStep, HeartbeatStep, StartFails, StartConnected, StopEnds,
       Tick, Pong, Refresh, RefreshReleased, RefreshConnected, RefreshFails, RefreshCrashes
  <2> QED
    BY <2>1, <2>2, <2>3, <2>4, Zenon DEF Untouched
<1>2. ASSUME NEW c \in Client, NEW t \in Task, Write(c, t)
      PROVE  Untouched(d)
  <2>1. \A u \in Task : /\ cmd'[d][u].op = cmd[d][u].op /\ cmd'[d][u].port = cmd[d][u].port
                        /\ cmd[d][u].at = "none" => cmd'[d][u] = cmd[d][u]
    BY <1>0, <1>2, WriteEffect, Zenon
  <2> QED
    BY <1>2, <2>1, Zenon DEF Write, Untouched
<1>3. ASSUME NEW c \in Client, NEW g \in Loop, LoopStep(c, g) \/ LoopPipe(c, g) \/ UdpFrame(c, g)
      PROVE  Untouched(d)
  BY <1>3, Zenon DEF LoopStep, LoopCheck, LoopDial, LoopWait, LoopLocal, LoopPipe,
       UdpFrame, UdpBound, loopFrame, Untouched
<1>4. ASSUME \/ \E m \in late : ExecuteLate(m)
             \/ RelayReturns \/ UNCHANGED vars
      PROVE  Untouched(d)
  BY <1>4, Zenon DEF ExecuteLate, RelayReturns, vars, Untouched
<1>5. ASSUME Outage
      PROVE  Untouched(d)
  <2>1. \A u \in Task : cmd'[d][u] = Broken(cmd[d][u]) /\ cmd[d][u] \in CmdState
    BY <1>0, <1>5, Zenon DEF Outage
  <2>2. \A u \in Task : /\ cmd'[d][u].op = cmd[d][u].op /\ cmd'[d][u].port = cmd[d][u].port
    BY <2>1, BrokenKeeps, Zenon
  <2>3. \A u \in Task : cmd[d][u].at = "none" => cmd'[d][u] = cmd[d][u]
    BY <2>1, Zenon DEF Broken
  <2> QED
    BY <1>5, <2>2, <2>3, Zenon DEF Outage, Untouched
<1> QED
  BY <1>1, <1>2, <1>3, <1>4, <1>5, LoopsKnown, Zenon DEF Next, OwnStep

\* The tasks of a client stay in places that fit each other.
LEMMA TasksStep ==
    ASSUME ClientInvariant, [Next]_vars, NEW d \in Client
    PROVE  TasksKnown(d)' /\ Room(d)'
<1> USE ShareClientAssumption
<1>0. /\ main \in [Client -> {"idle", "connect", "running", "release", "stopped", "failed", "crashed"}]
      /\ heartbeat \in [Client -> {"idle", "ping", "release", "connect"}]
      /\ cmd \in [Client -> [Task -> CmdState]]
      /\ generation \in [Client -> 0 .. MaxGeneration]
      /\ endpoint \in [Client -> Port \cup {NoPort}] /\ timer \in [Client -> BOOLEAN]
      /\ "main" \in Task /\ "heartbeat" \in Task
  BY NamedTypes, Zenon DEF ClientInvariant, Task
<1>1. TypeOK /\ TasksKnown(d) /\ Room(d) /\ generation[d] \in Nat
  BY <1>0 DEF ClientInvariant
<1>T. \A t \in Task : t = "main" \/ t = "heartbeat"
  BY Zenon DEF Task
<1>N. NoCmd.at = "none" /\ NoCmd \in CmdState
  BY CommandTypes, Zenon
<1>S. \A op \in {"CONNECT", "RELEASE", "PING"}, p \in Port \cup {NoPort} :
         Sending(op, p) \in CmdState /\ Sending(op, p).op # "none"
  BY CommandTypes, Zenon
<1> DEFINE Fits == \A t \in Task : cmd'[d][t].at = "none" \/ cmd'[d][t].op # "none"
           Other(t) == cmd'[d][t] = cmd[d][t]
<1>2. CASE Untouched(d)
  <2>1. /\ Fits /\ (main'[d] = "running" => cmd'[d]["main"] = NoCmd)
        /\ heartbeat'[d] = "idle" => cmd'[d]["heartbeat"] = NoCmd
    BY <1>0, <1>1, <1>2, <1>N DEF Untouched, TasksKnown
  <2> QED
    BY <1>1, <1>2, <2>1, Zenon DEF Untouched, TasksKnown, Room
<1>3. CASE Start(d)
  <2>1. PICK k \in CmdState : /\ k.at = "none" \/ k.op # "none"
                              /\ cmd' = [cmd EXCEPT ![d]["main"] = k]
    <3>1. CASE cmd' = cmd
      <4>1. cmd' = [cmd EXCEPT ![d]["main"] = cmd[d]["main"]]
        BY <1>0, <3>1, Zenon
      <4>2. cmd[d]["main"] \in CmdState /\ (cmd[d]["main"].at = "none" \/ cmd[d]["main"].op # "none")
        BY <1>0, <1>1 DEF TasksKnown
      <4> QED
        BY <4>1, <4>2, Zenon
    <3> QED
      BY <1>3, <1>S, <3>1, Zenon DEF Start
  <2>2. cmd'[d]["main"] = k /\ cmd'[d]["heartbeat"] = cmd[d]["heartbeat"]
    BY <1>0, <2>1, CommandSet
  <2>3. main'[d] \in {"connect", "failed"} /\ main[d] = "idle"
    BY <1>0, <1>3, Zenon DEF Start
  <2> QED
    BY <1>0, <1>1, <1>3, <1>T, <2>1, <2>2, <2>3 DEF Start, TasksKnown, Room
<1>4. CASE Stop(d)
  <2>1. endpoint[d] \in Port /\ StopCommand(d) = Sending("RELEASE", endpoint[d])
    BY <1>0, <1>1, <1>4, Zenon DEF Stop, StopCommand, TasksKnown
  <2>2. /\ cmd'[d]["main"] = Sending("RELEASE", endpoint[d])
        /\ cmd'[d]["heartbeat"] = cmd[d]["heartbeat"]
    BY <1>0, <1>4, <1>S, <2>1, CommandSet DEF Stop
  <2>3. main'[d] = "release" /\ main[d] = "running" /\ ~timer'[d] /\ generation'[d] = generation[d] + 1
    BY <1>0, <1>4, Zenon DEF Stop
  <2>4. Sending("RELEASE", endpoint[d]).op # "none"
    BY <2>1, <1>S, Zenon
  <2>5. heartbeat'[d] = heartbeat[d] /\ endpoint'[d] = endpoint[d]
    BY <1>4, Zenon DEF Stop
  <2>6. heartbeat[d] # "idle" => d \in untidy'
    BY <1>4, Zenon DEF Stop
  <2>7. TasksKnown(d)'
    BY <1>1, <1>T, <2>1, <2>2, <2>3, <2>4, <2>5, <2>6, Zenon DEF TasksKnown
  <2> QED
    BY <1>1, <2>3, <2>5, <2>7 DEF Room
<1>5. CASE StartFails(d)
  <2>1. cmd'[d]["main"] = NoCmd /\ cmd'[d]["heartbeat"] = cmd[d]["heartbeat"]
    BY <1>0, <1>5, <1>N, CommandSet DEF StartFails
  <2>2. /\ main'[d] = "failed" /\ main[d] = "connect"
        /\ UNCHANGED <<heartbeat, generation, endpoint, timer>>
    BY <1>0, <1>5, Zenon DEF StartFails
  <2> QED
    BY <1>1, <1>N, <1>T, <2>1, <2>2, Zenon DEF TasksKnown, Room
<1>6. ASSUME NEW p \in Port, StartConnected(d, p)
      PROVE  TasksKnown(d)' /\ Room(d)'
  <2>1. cmd'[d]["main"] = NoCmd /\ cmd'[d]["heartbeat"] = cmd[d]["heartbeat"]
    BY <1>0, <1>6, <1>N, CommandSet DEF StartConnected
  <2>2. /\ main'[d] = "running" /\ main[d] = "connect" /\ endpoint'[d] = p
        /\ UNCHANGED <<heartbeat, untidy>> /\ generation'[d] = generation[d] + 1
    BY <1>0, <1>6, Zenon DEF StartConnected
  <2> QED
    BY <1>1, <1>N, <1>T, <2>1, <2>2, SMTT(30) DEF TasksKnown, Room
<1>7. ASSUME NEW ok \in BOOLEAN, StopEnds(d, ok)
      PROVE  TasksKnown(d)' /\ Room(d)'
  <2>1. cmd'[d]["main"] = NoCmd /\ cmd'[d]["heartbeat"] = Broken(cmd[d]["heartbeat"])
    BY <1>0, <1>7, Zenon DEF StopEnds
  <2>2. /\ main'[d] = "stopped" /\ main[d] = "release"
        /\ UNCHANGED <<heartbeat, generation, endpoint, timer>> /\ untidy \subseteq untidy'
    BY <1>0, <1>7, Zenon DEF StopEnds
  <2>3. /\ Broken(cmd[d]["heartbeat"]).op = cmd[d]["heartbeat"].op
        /\ Broken(cmd[d]["heartbeat"]).at = "none" <=> cmd[d]["heartbeat"].at = "none"
        /\ Broken(NoCmd) = NoCmd
    BY <1>0, BrokenKeeps
  <2> QED
    BY <1>1, <1>N, <1>T, <2>1, <2>2, <2>3, Zenon DEF TasksKnown, Room
<1>8. CASE Tick(d) \/ Pong(d)
  <2>1. PICK k \in CmdState : /\ k.at = "none" \/ k.op # "none"
                              /\ cmd' = [cmd EXCEPT ![d]["heartbeat"] = k]
    BY <1>8, <1>S, <1>N, Zenon DEF Tick, Pong
  <2>2. cmd'[d]["heartbeat"] = k /\ cmd'[d]["main"] = cmd[d]["main"]
    BY <1>0, <2>1, CommandSet
  <2>4. heartbeat'[d] = "idle" => k = NoCmd
    BY <1>0, <1>8, <1>N, <2>2, CommandSet DEF Tick, Pong
  <2>3. /\ UNCHANGED <<main, generation, endpoint, timer, untidy>>
        /\ heartbeat'[d] \in {"idle", "ping"} /\ heartbeat[d] \in {"idle", "ping"}
        /\ heartbeat'[d] = "idle" \/ timer[d]
    BY <1>0, <1>8, Zenon DEF Tick, Pong
  <2> QED
    BY <1>1, <1>T, <2>1, <2>2, <2>3, <2>4, Zenon DEF TasksKnown, Room
<1>9. CASE Refresh(d)
  <2>1. /\ cmd'[d]["heartbeat"] = Sending("RELEASE", endpoint[d])
        /\ cmd'[d]["main"] = Broken(cmd[d]["main"])
    BY <1>0, <1>9, Zenon DEF Refresh
  <2>2. /\ heartbeat'[d] = "release" /\ heartbeat[d] = "ping" /\ generation'[d] = generation[d] + 1
        /\ UNCHANGED <<main, endpoint, timer, untidy>> /\ generation[d] + 3 <= MaxGeneration
    BY <1>0, <1>9, Zenon DEF Refresh
  <2>3. /\ Broken(cmd[d]["main"]).op = cmd[d]["main"].op
        /\ Broken(cmd[d]["main"]).at = "none" <=> cmd[d]["main"].at = "none"
        /\ Broken(NoCmd) = NoCmd
    BY <1>0, BrokenKeeps
  <2>4. Sending("RELEASE", endpoint[d]).op # "none"
    BY <1>0, <1>S, Zenon
  <2> QED
    BY <1>1, <1>T, <2>1, <2>2, <2>3, <2>4 DEF TasksKnown, Room
<1>10. ASSUME NEW ok \in BOOLEAN, RefreshReleased(d, ok)
       PROVE  TasksKnown(d)' /\ Room(d)'
  <2>1. Sending("CONNECT", NoPort) \in CmdState /\ Sending("CONNECT", NoPort).op # "none"
    BY <1>S, Zenon
  <2>2. /\ cmd'[d]["heartbeat"] = Sending("CONNECT", NoPort)
        /\ cmd'[d]["main"] = cmd[d]["main"]
    BY <1>0, <1>10, <2>1, CommandSet DEF RefreshReleased
  <2>3. /\ heartbeat'[d] = "connect" /\ heartbeat[d] = "release"
        /\ UNCHANGED <<main, generation, endpoint, timer>> /\ untidy \subseteq untidy'
    BY <1>0, <1>10, Zenon DEF RefreshReleased
  <2> QED
    BY <1>1, <1>T, <2>1, <2>2, <2>3, Zenon DEF TasksKnown, Room
<1>11. ASSUME NEW p \in Port, RefreshConnected(d, p)
       PROVE  TasksKnown(d)' /\ Room(d)'
  <2>1. cmd'[d]["heartbeat"] = NoCmd /\ cmd'[d]["main"] = cmd[d]["main"]
    BY <1>0, <1>11, <1>N, CommandSet DEF RefreshConnected
  <2>2. /\ heartbeat'[d] = "idle" /\ heartbeat[d] = "connect" /\ endpoint'[d] = p
        /\ UNCHANGED <<main, timer, untidy>> /\ generation'[d] = generation[d] + 1
    BY <1>0, <1>11, Zenon DEF RefreshConnected, EndpointAfterRefresh
  <2> QED
    BY <1>1, <1>N, <1>T, <2>1, <2>2 DEF TasksKnown, Room
<1>12. CASE RefreshFails(d)
  <2>1. cmd'[d]["heartbeat"] = NoCmd /\ cmd'[d]["main"] = cmd[d]["main"]
    BY <1>0, <1>12, <1>N, CommandSet DEF RefreshFails
  <2>2. /\ heartbeat'[d] = "idle" /\ heartbeat[d] = "connect"
        /\ UNCHANGED <<main, timer, generation, endpoint>>
    BY <1>0, <1>12, Zenon DEF RefreshFails
  <2> QED
    BY <1>1, <1>N, <1>T, <2>1, <2>2 DEF TasksKnown, Room
<1>14. CASE RefreshCrashes(d)
  <2>1. cmd'[d]["heartbeat"] = NoCmd /\ cmd'[d]["main"] = NoCmd
    BY <1>0, <1>14, Zenon DEF RefreshCrashes
  <2>2. /\ heartbeat'[d] = "idle" /\ heartbeat[d] = "connect" /\ main'[d] = "crashed"
        /\ timer'[d] = FALSE /\ UNCHANGED <<generation, endpoint>>
    BY <1>0, <1>14, Zenon DEF RefreshCrashes
  <2> QED
    BY <1>1, <1>N, <1>T, <2>1, <2>2 DEF TasksKnown, Room
<1>13. Untouched(d) \/ OwnStep(d)
  BY <1>1, OwnSteps, Zenon
<1> QED
  BY <1>2, <1>3, <1>4, <1>5, <1>6, <1>7, <1>8, <1>9, <1>10, <1>11, <1>12, <1>13, <1>14, Zenon
     DEF OwnStep, MainStep, HeartbeatStep

-----------------------------------------------------------------------------
(* The leases.                                                             *)

\* Only these steps touch the relay's table.
LEMMA LeaseSteps ==
    ASSUME [Next]_vars
    PROVE  \/ UNCHANGED lease
           \/ Outage
           \/ \E c \in Client, p \in Port : StartConnected(c, p) \/ RefreshConnected(c, p)
           \/ \E c \in Client : StopEnds(c, TRUE) \/ RefreshReleased(c, TRUE)
           \/ \E m \in late : ExecuteLate(m)
<1>1. ASSUME NEW c \in Client, Start(c) \/ Stop(c) \/ StartFails(c) \/ StopEnds(c, FALSE)
      PROVE  UNCHANGED lease
  BY <1>1, Zenon DEF Start, Stop, StartFails, StopEnds, relayVars
<1>2. ASSUME NEW c \in Client,
             Tick(c) \/ Pong(c) \/ Refresh(c) \/ RefreshFails(c) \/ RefreshCrashes(c)
             \/ RefreshReleased(c, FALSE)
      PROVE  UNCHANGED lease
  BY <1>2, Zenon DEF Tick, Pong, Refresh, RefreshFails, RefreshCrashes, RefreshReleased, relayVars
<1>3. ASSUME NEW c \in Client, NEW g \in Loop, LoopStep(c, g) \/ LoopPipe(c, g) \/ UdpFrame(c, g)
      PROVE  UNCHANGED lease
  BY <1>3, Zenon DEF LoopStep, LoopCheck, LoopDial, LoopWait, LoopLocal, LoopPipe,
       UdpFrame, UdpBound, loopFrame, relayVars
<1>4. ASSUME NEW c \in Client, NEW t \in Task, Write(c, t)
      PROVE  UNCHANGED lease
  BY <1>4, Zenon DEF Write, relayVars
<1>5. RelayReturns \/ UNCHANGED vars => UNCHANGED lease
  BY Zenon DEF RelayReturns, vars
<1>6. \A c \in Client, ok \in BOOLEAN :
         /\ StopEnds(c, ok) => StopEnds(c, TRUE) \/ StopEnds(c, FALSE)
         /\ RefreshReleased(c, ok) => RefreshReleased(c, TRUE) \/ RefreshReleased(c, FALSE)
  BY Zenon
<1> QED
  BY <1>1, <1>2, <1>3, <1>4, <1>5, <1>6, LoopsKnown, Zenon DEF Next, MainStep, HeartbeatStep

\* A command goes astray only together with its sender.
LEMMA LateStep ==
    ASSUME ClientInvariant, [Next]_vars
    PROVE  LateUntidy' /\ untidy \subseteq untidy'
<1>0. /\ cmd \in [Client -> [Task -> CmdState]] /\ "main" \in Task /\ "heartbeat" \in Task
      /\ LateUntidy /\ \A c \in Client : TasksKnown(c)
  BY NamedTypes, Zenon DEF ClientInvariant, Task
<1>1. \A c \in Client, t \in Task : /\ \A m \in Abandoned(c, t) : m.from = c
                                    /\ cmd[c][t].at = "none" => Abandoned(c, t) = {}
  <2>1. \A c \in Client, t \in Task : /\ cmd[c][t] \in CmdState
                                      /\ cmd[c][t].at = "none" \/ cmd[c][t].op # "none"
    BY <1>0, Zenon DEF TasksKnown
  <2> QED
    BY <2>1, AbandonedKnown, Zenon
<1>2. ASSUME NEW c \in Client, NEW ok \in BOOLEAN, StopEnds(c, ok)
      PROVE  LateUntidy' /\ untidy \subseteq untidy'
  <2>1. untidy \subseteq untidy' /\ main[c] = "release"
    BY <1>2, Zenon DEF StopEnds
  <2>2. ~ok => c \in untidy' \/ Abandoned(c, "main") = {}
    BY <1>0, <1>1, <1>2, CommandTypes DEF StopEnds
  <2>3. c \in untidy' \/ Abandoned(c, "heartbeat") = {}
    <3>1. CASE heartbeat[c] = "idle"
      BY <1>0, <3>1, <1>1, CommandTypes DEF TasksKnown
    <3>2. CASE heartbeat[c] # "idle"
      BY <1>0, <2>1, <3>2, Zenon DEF TasksKnown
    <3> QED
      BY <3>1, <3>2, Zenon
  <2>4. late' = late \cup (IF ok THEN {} ELSE Abandoned(c, "main")) \cup Abandoned(c, "heartbeat")
    BY <1>2, Zenon DEF StopEnds
  <2> QED
    BY <1>0, <1>1, <2>1, <2>2, <2>3, <2>4, Zenon DEF LateUntidy
<1>3. ASSUME NEW c \in Client, Refresh(c)
      PROVE  LateUntidy' /\ untidy \subseteq untidy'
  <2>1. c \in untidy \/ Abandoned(c, "main") = {}
    BY <1>0, <1>1, <1>3, CommandTypes DEF Refresh, TasksKnown
  <2> QED
    BY <1>0, <1>1, <1>3, <2>1, Zenon DEF Refresh, LateUntidy
<1>4. ASSUME NEW c \in Client,
             StartFails(c) \/ RefreshFails(c) \/ (\E ok \in BOOLEAN : RefreshReleased(c, ok))
      PROVE  LateUntidy' /\ untidy \subseteq untidy'
  BY <1>0, <1>1, <1>4 DEF StartFails, RefreshFails, RefreshReleased, LateUntidy
<1>9. ASSUME NEW c \in Client, RefreshCrashes(c)
      PROVE  LateUntidy' /\ untidy \subseteq untidy'
  <2>1. /\ untidy' = untidy \cup {c}
        /\ late' \subseteq late \cup Abandoned(c, "main") \cup Abandoned(c, "heartbeat")
    BY <1>9, Zenon DEF RefreshCrashes
  <2> QED
    BY <1>0, <1>1, <2>1, Zenon DEF LateUntidy
<1>5. ASSUME UNCHANGED late \/ Outage \/ (\E m \in late : ExecuteLate(m)), untidy \subseteq untidy'
      PROVE  LateUntidy' /\ untidy \subseteq untidy'
  BY <1>0, <1>5, Zenon DEF Outage, ExecuteLate, LateUntidy
<1>6. ASSUME NEW c \in Client,
             \/ Start(c) \/ Stop(c) \/ (\E p \in Port : StartConnected(c, p) \/ RefreshConnected(c, p))
             \/ Tick(c) \/ Pong(c)
             \/ \E g \in Loop : LoopStep(c, g) \/ LoopPipe(c, g) \/ UdpFrame(c, g)
             \/ \E t \in Task : Write(c, t)
      PROVE  UNCHANGED late /\ untidy \subseteq untidy'
  BY <1>6, Zenon DEF Start, Stop, StartConnected, RefreshConnected, Tick, Pong, LoopStep, LoopCheck, LoopDial,
     LoopWait, LoopLocal, LoopPipe,
       UdpFrame, UdpBound, loopFrame, Write, relayVars
<1>7. Outage \/ RelayReturns \/ (\E m \in late : ExecuteLate(m)) \/ UNCHANGED vars
        => untidy \subseteq untidy'
  BY Zenon DEF Outage, RelayReturns, ExecuteLate, vars
<1>8. RelayReturns \/ UNCHANGED vars => UNCHANGED late
  BY Zenon DEF RelayReturns, vars
<1> QED
  BY <1>2, <1>3, <1>4, <1>5, <1>6, <1>7, <1>8, <1>9, LoopsKnown, Zenon DEF Next, MainStep, HeartbeatStep

\* A client that lost no command gets a lease only by its own CONNECT.
LEMMA LeaseGained ==
    ASSUME ClientInvariant, [Next]_vars, NEW d \in Client, d \notin untidy, NEW p \in Port,
           lease'[p] = d, lease[p] # d
    PROVE  StartConnected(d, p) \/ RefreshConnected(d, p)
<1> USE ShareClientAssumption
<1>0. lease \in [Port -> Client \cup {Free}] /\ late \subseteq LateState /\ LateUntidy
  BY NamedTypes, Zenon DEF ClientInvariant
<1>1. ~Outage
  BY Zenon DEF Outage
<1>2. ASSUME NEW c \in Client, StopEnds(c, TRUE) \/ RefreshReleased(c, TRUE)
      PROVE  FALSE
  BY <1>0, <1>2, Zenon DEF StopEnds, RefreshReleased
<1>3. ASSUME NEW m \in late, ExecuteLate(m)
      PROVE  FALSE
  BY <1>0, <1>3, Zenon DEF ExecuteLate, LateUntidy
<1>4. ASSUME NEW c \in Client, NEW q \in Port, StartConnected(c, q) \/ RefreshConnected(c, q)
      PROVE  c = d /\ q = p
  BY <1>0, <1>4, Zenon DEF StartConnected, RefreshConnected
<1> QED
  BY <1>1, <1>2, <1>3, <1>4, LeaseSteps, Zenon

\* While nobody has lost a command, a lease ends only by its holder's RELEASE.
LEMMA LeaseLost ==
    ASSUME ClientInvariant, [Next]_vars, untidy' = {}, NEW d \in Client, main[d] # "idle",
           NEW p \in Port, lease[p] = d, lease'[p] # d
    PROVE  StopEnds(d, TRUE) \/ RefreshReleased(d, TRUE)
<1> USE ShareClientAssumption
<1>0. /\ lease \in [Port -> Client \cup {Free}] /\ LateUntidy /\ HoldsEndpoint /\ untidy = {}
      /\ \A c \in Client : TasksKnown(c) /\ OwnRelease(c)
  BY LateStep, NamedTypes, Zenon DEF ClientInvariant
<1>1. ~Outage
  BY Zenon DEF Outage
<1>2. ASSUME NEW c \in Client, StopEnds(c, TRUE)
      PROVE  c = d
  <2>1. main[c] = "release" /\ lease' = [lease EXCEPT ![cmd[c]["main"].port] = Free]
    BY <1>2, Zenon DEF StopEnds
  <2>2. cmd[c]["main"].port = endpoint[c] /\ lease[endpoint[c]] = c
    BY <1>0, <2>1, Zenon DEF OwnRelease, HoldsEndpoint
  <2> QED
    BY <1>0, <2>1, <2>2, Zenon
<1>3. ASSUME NEW c \in Client, RefreshReleased(c, TRUE)
      PROVE  c = d
  <2>1. /\ heartbeat[c] = "release" /\ main[c] = "running"
        /\ lease' = [lease EXCEPT ![cmd[c]["heartbeat"].port] = Free]
    BY <1>0, <1>3, Zenon DEF RefreshReleased, TasksKnown
  <2>2. cmd[c]["heartbeat"].port = endpoint[c] /\ lease[endpoint[c]] = c
    BY <1>0, <2>1, Zenon DEF OwnRelease, HoldsEndpoint
  <2> QED
    BY <1>0, <2>1, <2>2, Zenon
<1>4. late = {}
  BY <1>0, Zenon DEF LateUntidy
<1>5. ASSUME NEW c \in Client, NEW q \in Port, StartConnected(c, q) \/ RefreshConnected(c, q)
      PROVE  FALSE
  BY <1>0, <1>5, Zenon DEF StartConnected, RefreshConnected, Granted
<1> QED
  BY <1>1, <1>2, <1>3, <1>4, <1>5, LeaseSteps, Zenon

\* What a client that lost no command does to its endpoint and to its own tasks.
LEMMA TidyStep ==
    ASSUME ClientInvariant, [Next]_vars, NEW d \in Client, d \notin untidy'
    PROVE  \/ Untouched(d)
           \/ Start(d) /\ heartbeat[d] = "idle"
           \/ Stop(d) /\ heartbeat[d] = "idle"
           \/ StartFails(d) /\ heartbeat[d] = "idle"
           \/ \E p \in Port : StartConnected(d, p) /\ heartbeat[d] = "idle"
           \/ StopEnds(d, TRUE) /\ heartbeat[d] = "idle"
           \/ main[d] = "running" /\ HeartbeatStep(d) /\ ~RefreshFails(d) /\ ~RefreshCrashes(d)
              /\ ~RefreshReleased(d, FALSE)
<1>0. d \notin untidy /\ TasksKnown(d) /\ OwnRelease(d) /\ TypeOK
  BY LateStep, Zenon DEF ClientInvariant
<1>1. Start(d) => heartbeat[d] = "idle"
  BY <1>0, Zenon DEF Start, TasksKnown
<1>2. Stop(d) => heartbeat[d] = "idle"
  BY Zenon DEF Stop
<1>3. StartFails(d) => heartbeat[d] = "idle"
  BY <1>0, Zenon DEF StartFails, TasksKnown
<1>4. ASSUME NEW p \in Port, StartConnected(d, p)
      PROVE  heartbeat[d] = "idle"
  BY <1>0, <1>4, Zenon DEF StartConnected, TasksKnown
<1>5. ASSUME NEW ok \in BOOLEAN, StopEnds(d, ok)
      PROVE  heartbeat[d] = "idle" /\ ok = TRUE
  <2>1. main[d] = "release" /\ (~ok => cmd[d]["main"] = NoCmd)
    BY <1>5, Zenon DEF StopEnds
  <2> QED
    BY <1>0, <2>1, CommandTypes, Zenon DEF TasksKnown, OwnRelease
<1>6. HeartbeatStep(d) => main[d] = "running"
  BY <1>0, Zenon DEF HeartbeatStep, Tick, Pong, Refresh, RefreshFails, RefreshCrashes, RefreshReleased,
     RefreshConnected, TasksKnown
<1>7. ~RefreshFails(d) /\ ~RefreshCrashes(d) /\ ~RefreshReleased(d, FALSE)
  BY Zenon DEF RefreshFails, RefreshCrashes, RefreshReleased
<1>8. Untouched(d) \/ OwnStep(d)
  BY <1>0, OwnSteps, Zenon
<1> QED
  BY <1>1, <1>2, <1>3, <1>4, <1>5, <1>6, <1>7, <1>8, Zenon DEF OwnStep, MainStep

\* What the relay holds for a client that lost no command stays its endpoint.
LEMMA AccountedStep ==
    ASSUME ClientInvariant, [Next]_vars
    PROVE  LeaseAccounted'
<1> USE ShareClientAssumption
<1>0. /\ main \in [Client -> {"idle", "connect", "running", "release", "stopped", "failed", "crashed"}]
      /\ endpoint \in [Client -> Port \cup {NoPort}] /\ lease \in [Port -> Client \cup {Free}]
      /\ LeaseAccounted /\ \A c \in Client : TasksKnown(c) /\ OwnRelease(c)
  BY NamedTypes, Zenon DEF ClientInvariant
<1> SUFFICES ASSUME NEW d \in Client, d \notin untidy', NEW p \in Port, lease'[p] = d
             PROVE  endpoint'[d] = p /\ main'[d] \in {"running", "release"}
  BY Zenon DEF LeaseAccounted
<1>1. d \notin untidy
  BY LateStep, Zenon
<1>2. CASE lease[p] # d
  <2>1. CASE StartConnected(d, p)
    BY <1>0, <2>1, Zenon DEF StartConnected
  <2>2. CASE RefreshConnected(d, p)
    BY <1>0, <1>1, <2>2, Zenon DEF RefreshConnected, EndpointAfterRefresh, TasksKnown
  <2> QED
    BY <1>1, <1>2, <2>1, <2>2, LeaseGained, Zenon
<1>3. CASE lease[p] = d
  <2>1. endpoint[d] = p /\ main[d] \in {"running", "release"}
    BY <1>0, <1>1, <1>3, Zenon DEF LeaseAccounted
  <2>2. CASE Untouched(d)
    BY <2>1, <2>2, Zenon DEF Untouched
  <2>3. ~Start(d) /\ ~StartFails(d) /\ \A q \in Port : ~StartConnected(d, q)
    BY <2>1, Zenon DEF Start, StartFails, StartConnected
  <2>4. CASE Stop(d)
    BY <1>0, <2>1, <2>4, Zenon DEF Stop
  <2>5. ~StopEnds(d, TRUE)
    <3>1. StopEnds(d, TRUE) => cmd[d]["main"].port = p /\ lease'[p] = Free
      BY <1>0, <1>1, <2>1 DEF StopEnds, OwnRelease
    <3> QED
      BY <3>1, Zenon
  <2>6. CASE HeartbeatStep(d) /\ ~RefreshCrashes(d)
    <3>1. \A q \in Port : ~RefreshConnected(d, q)
      BY <1>0, <1>1, <1>3, Zenon DEF RefreshConnected, OwnRelease
    <3> QED
      BY <2>1, <2>6, <3>1, Zenon DEF HeartbeatStep, Tick, Pong, Refresh, RefreshFails, RefreshReleased
  <2> QED
    BY <2>2, <2>3, <2>4, <2>5, <2>6, TidyStep, Zenon
<1> QED
  BY <1>2, <1>3, Zenon

\* A RELEASE goes on naming the endpoint, and who waits for a new lease has none.
LEMMA OwnReleaseStep ==
    ASSUME ClientInvariant, [Next]_vars, NEW d \in Client
    PROVE  OwnRelease(d)'
<1> USE ShareClientAssumption
<1>0. /\ main \in [Client -> {"idle", "connect", "running", "release", "stopped", "failed", "crashed"}]
      /\ heartbeat \in [Client -> {"idle", "ping", "release", "connect"}]
      /\ cmd \in [Client -> [Task -> CmdState]] /\ "main" \in Task /\ "heartbeat" \in Task
      /\ endpoint \in [Client -> Port \cup {NoPort}] /\ lease \in [Port -> Client \cup {Free}]
      /\ LeaseAccounted /\ TasksKnown(d) /\ OwnRelease(d)
  BY NamedTypes, Zenon DEF ClientInvariant, Task
<1> SUFFICES ASSUME d \notin untidy'
             PROVE  /\ heartbeat'[d] = "release" => cmd'[d]["heartbeat"].port = endpoint'[d]
                    /\ heartbeat'[d] = "connect" => \A p \in Port : lease'[p] # d
                    /\ main'[d] = "release" => /\ cmd'[d]["main"].op = "RELEASE"
                                               /\ cmd'[d]["main"].port = endpoint'[d]
  BY Zenon DEF OwnRelease
<1>1. d \notin untidy
  BY LateStep, Zenon
<1>2. heartbeat'[d] = "release" => cmd'[d]["heartbeat"].port = endpoint'[d]
  <2>1. CASE Untouched(d)
    BY <1>0, <1>1, <2>1, Zenon DEF Untouched, OwnRelease
  <2>2. CASE heartbeat[d] = "idle" /\ ~HeartbeatStep(d) /\ OwnStep(d)
    BY <2>2, Zenon DEF OwnStep, Start, Stop, MainStep, StartFails, StartConnected, StopEnds
  <2>3. CASE Refresh(d)
    <3>1. cmd'[d]["heartbeat"] = Sending("RELEASE", endpoint[d]) /\ endpoint'[d] = endpoint[d]
      BY <1>0, <2>3, Zenon DEF Refresh
    <3> QED
      BY <1>0, <3>1, CommandTypes
  <2>4. CASE HeartbeatStep(d) /\ ~Refresh(d)
    BY <1>0, <2>4, Zenon DEF HeartbeatStep, Tick, Pong, RefreshFails, RefreshCrashes, RefreshReleased,
       RefreshConnected
  <2> QED
    BY <2>1, <2>2, <2>3, <2>4, TidyStep, Zenon DEF OwnStep, MainStep
<1>3. ASSUME heartbeat'[d] = "connect", NEW p \in Port, lease'[p] = d
      PROVE  FALSE
  <2>1. ~RefreshConnected(d, p)
    BY <1>0, <1>3, Zenon DEF RefreshConnected
  <2>2. ~StartConnected(d, p)
    BY <1>0, <1>3, Zenon DEF StartConnected, TasksKnown
  <2>3. lease[p] = d
    BY <1>1, <1>3, <2>1, <2>2, LeaseGained, Zenon
  <2>4. endpoint[d] = p
    BY <1>0, <1>1, <2>3, Zenon DEF LeaseAccounted
  <2>5. heartbeat[d] # "connect"
    BY <1>0, <1>1, <2>3, Zenon DEF OwnRelease
  <2>6. ~Untouched(d)
    BY <1>3, <2>5, Zenon DEF Untouched
  <2>7. ~RefreshReleased(d, TRUE)
    <3>1. RefreshReleased(d, TRUE) => cmd[d]["heartbeat"].port = p /\ lease'[p] = Free
      BY <1>0, <1>1, <2>4, Zenon DEF RefreshReleased, OwnRelease
    <3> QED
      BY <1>3, <3>1, Zenon
  <2>8. ~(\E ok \in BOOLEAN : RefreshReleased(d, ok)) /\ HeartbeatStep(d) => heartbeat'[d] # "connect"
    BY <1>0, <2>5, Zenon DEF HeartbeatStep, Tick, Pong, Refresh, RefreshFails, RefreshCrashes,
       RefreshConnected
  <2>9. Start(d) \/ Stop(d) \/ MainStep(d) => heartbeat'[d] = heartbeat[d]
    BY Zenon DEF Start, Stop, MainStep, StartFails, StartConnected, StopEnds
  <2>10. \A ok \in BOOLEAN : RefreshReleased(d, ok) => RefreshReleased(d, TRUE) \/ RefreshReleased(d, FALSE)
    BY Zenon
  <2> QED
    BY <1>3, <2>5, <2>6, <2>7, <2>8, <2>9, <2>10, TidyStep, Zenon DEF MainStep
<1>4. ASSUME main'[d] = "release"
      PROVE  cmd'[d]["main"].op = "RELEASE" /\ cmd'[d]["main"].port = endpoint'[d]
  <2>1. CASE Untouched(d)
    BY <1>0, <1>1, <1>4, <2>1, Zenon DEF Untouched, OwnRelease
  <2>2. CASE Stop(d)
    <3>1. endpoint[d] \in Port /\ StopCommand(d) = Sending("RELEASE", endpoint[d])
      BY <1>0, <2>2, Zenon DEF Stop, StopCommand, TasksKnown
    <3>2. cmd'[d]["main"] = Sending("RELEASE", endpoint[d]) /\ endpoint'[d] = endpoint[d]
      BY <1>0, <2>2, <3>1, CommandSet, CommandTypes DEF Stop
    <3> QED
      BY <3>1, <3>2, CommandTypes
  <2>3. ~Start(d) /\ ~MainStep(d)
    BY <1>0, <1>4, Zenon DEF Start, MainStep, StartFails, StartConnected, StopEnds
  <2>4. HeartbeatStep(d) /\ ~RefreshCrashes(d) => main'[d] = main[d]
    BY Zenon DEF HeartbeatStep, Tick, Pong, Refresh, RefreshFails, RefreshReleased, RefreshConnected
  <2> QED
    BY <1>4, <2>1, <2>2, <2>3, <2>4, TidyStep, Zenon DEF MainStep
<1> QED
  BY <1>2, <1>3, <1>4, Zenon

\* While nobody has lost a command, a client goes on holding its endpoint.
LEMMA HoldsStep ==
    ASSUME ClientInvariant, [Next]_vars
    PROVE  HoldsEndpoint'
<1> USE ShareClientAssumption
<1>0. /\ main \in [Client -> {"idle", "connect", "running", "release", "stopped", "failed", "crashed"}]
      /\ heartbeat \in [Client -> {"idle", "ping", "release", "connect"}]
      /\ endpoint \in [Client -> Port \cup {NoPort}] /\ lease \in [Port -> Client \cup {Free}]
      /\ HoldsEndpoint /\ \A c \in Client : TasksKnown(c) /\ OwnRelease(c)
  BY NamedTypes, Zenon DEF ClientInvariant
<1> DEFINE Held(c) == \/ main[c] = "running" /\ heartbeat[c] \in {"idle", "ping", "release"}
                      \/ main[c] = "release"
<1> SUFFICES ASSUME untidy' = {}, NEW d \in Client,
                    \/ main'[d] = "running" /\ heartbeat'[d] \in {"idle", "ping", "release"}
                    \/ main'[d] = "release"
             PROVE  lease'[endpoint'[d]] = d
  BY Zenon DEF HoldsEndpoint
<1>1. untidy = {}
  BY LateStep, Zenon
<1>2. ASSUME NEW p \in Port, StartConnected(d, p) \/ RefreshConnected(d, p)
      PROVE  lease'[endpoint'[d]] = d
  BY <1>0, <1>2 DEF StartConnected, RefreshConnected, EndpointAfterRefresh
<1>3. ASSUME \A p \in Port : ~StartConnected(d, p) /\ ~RefreshConnected(d, p)
      PROVE  Held(d) /\ endpoint'[d] = endpoint[d] /\ ~StopEnds(d, TRUE) /\ ~RefreshReleased(d, TRUE)
  <2>1. ~StopEnds(d, TRUE)
    BY <1>0, Zenon DEF StopEnds
  <2>2. ~RefreshReleased(d, TRUE)
    BY <1>0, <1>1, Zenon DEF RefreshReleased, TasksKnown
  <2>3. CASE Untouched(d)
    BY <2>1, <2>2, <2>3, Zenon DEF Untouched
  <2>4. ~Start(d) /\ ~StartFails(d)
    BY <1>0, Zenon DEF Start, StartFails
  <2>5. CASE Stop(d) /\ heartbeat[d] = "idle"
    BY <2>1, <2>2, <2>5, Zenon DEF Stop
  <2>6. CASE /\ main[d] = "running" /\ HeartbeatStep(d)
             /\ ~RefreshFails(d) /\ ~RefreshCrashes(d) /\ ~RefreshReleased(d, FALSE)
    <3>1. \A ok \in BOOLEAN : ~RefreshReleased(d, ok)
      BY <2>2, <2>6, Zenon
    <3>2. Tick(d) \/ Pong(d) \/ Refresh(d)
      BY <1>3, <2>6, <3>1, Zenon DEF HeartbeatStep
    <3> QED
      BY <2>1, <2>2, <2>6, <3>2, Zenon DEF Tick, Pong, Refresh
  <2> QED
    BY <1>3, <2>1, <2>3, <2>4, <2>5, <2>6, TidyStep, Zenon
<1>4. ASSUME Held(d), endpoint'[d] = endpoint[d], ~StopEnds(d, TRUE), ~RefreshReleased(d, TRUE)
      PROVE  lease'[endpoint'[d]] = d
  <2>1. endpoint[d] \in Port /\ lease[endpoint[d]] = d /\ main[d] # "idle"
    BY <1>0, <1>1, <1>4, Zenon DEF HoldsEndpoint, TasksKnown
  <2> QED
    BY <1>4, <2>1, LeaseLost, Zenon
<1> QED
  BY <1>2, <1>3, <1>4, Zenon

-----------------------------------------------------------------------------
(* The theorems.                                                           *)

\* The initial state: nothing is leased and no client has begun.
LEMMA ClientInit == Init => ClientInvariant
<1> SUFFICES ASSUME Init PROVE ClientInvariant
  BY Zenon
<1> USE ShareClientAssumption
<1>1. TypeOK
  <2>1. cmd \in [Client -> [Task -> CmdState]]
    BY CommandTypes, Zenon DEF Init
  <2>2. [at |-> "none", port |-> NoPort] \in LoopState
    BY Zenon DEF LoopState
  <2>3. loop \in [Client -> [Loop -> LoopState]]
    BY <2>2, Zenon DEF Init
  <2>4. 0 \in 0 .. MaxGeneration /\ 0 \in 0 .. MaxOutages
    OBVIOUS
  <2> QED
    BY <2>1, <2>3, <2>4, NamedTypes, Zenon DEF Init
<1>2. LeaseAccounted /\ LateUntidy /\ HoldsEndpoint
  BY Zenon DEF Init, LeaseAccounted, LateUntidy, HoldsEndpoint
<1>3. \A c \in Client : TasksKnown(c) /\ Room(c) /\ OwnRelease(c)
  BY CommandTypes DEF Init, TasksKnown, Room, OwnRelease, Task
<1> QED
  BY <1>1, <1>2, <1>3, Zenon DEF ClientInvariant

\* In every behaviour of start(), stop(), the heartbeat and the relay the tasks of a client fit
\* each other, what it releases is its own endpoint, and what is executed late was lost.
THEOREM ClientInvariantCorrect == Spec => []ClientInvariant
<1>1. ClientInvariant /\ [Next]_vars => ClientInvariant'
  <2> SUFFICES ASSUME ClientInvariant, [Next]_vars PROVE ClientInvariant'
    BY Zenon
  <2>1. TypeOK' /\ LeaseAccounted' /\ LateUntidy' /\ HoldsEndpoint'
    BY ClientTypeStep, AccountedStep, LateStep, HoldsStep, Zenon
  <2>2. ASSUME NEW c \in Client PROVE TasksKnown(c)' /\ Room(c)' /\ OwnRelease(c)'
    BY TasksStep, OwnReleaseStep, Zenon
  <2> QED
    BY <2>1, <2>2, Zenon DEF ClientInvariant
<1> QED
  BY <1>1, ClientInit, PTL DEF Spec

\* What the relay holds for a client that lost no command is its endpoint, and nothing after
\* stop(); and while no client has lost one, every running client keeps the port it shows.
THEOREM LeaseAgreedCorrect == Spec => []LeaseAgreed
<1>1. ClientInvariant => LeaseAgreed
  BY Zenon DEF ClientInvariant, LeaseAgreed, KeepsLease, HoldsEndpoint
<1> QED
  BY <1>1, ClientInvariantCorrect, PTL

=============================================================================
