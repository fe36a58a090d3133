---------------------------- MODULE ControlSystem ----------------------------
(***************************************************************************)
(* The control server with its emulator and the emulator's shells, in      *)
(* their life cycles: either side is stopped and started again while       *)
(* messages are under way, and the server notices clients that come and    *)
(* go.  What a transaction does to the registers is RegisterAccess, what   *)
(* sequences make of the link AsicLink; here an answer is named by the     *)
(* message it answers.                                                     *)
(*                                                                         *)
(* A client's socket holds a message until the server has accepted its     *)
(* connection; what the server has received is gone when it stops.         *)
(***************************************************************************)
EXTENDS EmulatorShell, ControlServer

VARIABLES
  inbound   \* messages of shells that the server's socket has received

vars == <<shellVars, serverVars, inbound>>

Init ==
  /\ ShellInit
  /\ ServerInit
  /\ inbound = {}

Peer(p) == IF p = Device THEN Loaded("detector") ELSE Alive /\ p = session

Transmit ==
  /\ outgoing # << >>
  /\ Connected(session)
  /\ inbound' = inbound \cup {Head(outgoing)}
  /\ outgoing' = Tail(outgoing)
  /\ UNCHANGED <<session, shell, commands, incoming, lost, loopVars,
                 serverVars>>

\* The ROUTER socket finds the client by its identity, and drops the message
\* if there is none.
Deliver(message) ==
  IF Alive /\ Connected(session) /\ Identity(session) = message.identity
  THEN incoming' = Append(incoming, message)
  ELSE UNCHANGED incoming

Mutant_ErrorsUnanswered(message) ==
  IF IsTransaction(message.transaction) THEN Deliver(message)
  ELSE UNCHANGED incoming

\* A transaction that cannot be processed is returned as it is.
Respond(message) == Deliver(message)

\* The server task takes a message of any client.  A TypeError ends it.
Serve(message) ==
  /\ phase = "running" /\ serving
  /\ inbound' = inbound \ {message}
  /\ serving' = ~RaisesTypeError(message.transaction)
  /\ IF serving' THEN Respond(message) ELSE UNCHANGED incoming
  /\ UNCHANGED <<session, shell, commands, outgoing, lost, loopVars, phase,
                 to_load, adapters, treeVars, connectionVars, starts>>

\* The messages in the server's socket are lost, and maybe an answer that it
\* has not transmitted yet.
StopsServer ==
  /\ StopServer
  /\ inbound' = {}
  /\ incoming' \in {incoming, << >>}
  /\ lost' = (lost \/ incoming' # incoming
                \/ \E message \in inbound : message.session = session)
  /\ UNCHANGED <<session, shell, commands, outgoing, loopVars>>

ServerLoop == LoadAdapter \/ AdapterFails \/ Initialize \/ MonitorEvent

Connections ==
  \/ \E p \in 0 .. MaxSessions : Peer(p) /\ Accept(p)
  \/ \E fd \in 1 .. MaxFd :
       fd \in DOMAIN sockets /\ ~Peer(sockets[fd]) /\ Close(fd)

ServerNext == StartServer \/ ServerLoop \/ Connections \/ DetectorPut

Next ==
  \/ ShellNext /\ UNCHANGED <<serverVars, inbound>>
  \/ ServerNext /\ UNCHANGED <<shellVars, inbound>>
  \/ Transmit
  \/ \E message \in inbound : Serve(message)
  \/ StopsServer

Spec == Init /\ [][Next]_vars

\* Event loops run what is ready, ZeroMQ connects, transmits and notices
\* closed connections.  Nobody need start, stop or type anything.
Fairness ==
  /\ WF_vars(ShowResponse /\ UNCHANGED <<serverVars, inbound>>)
  /\ \A s \in Shutdowns :
       WF_vars((BeginShutdown(s) \/ FinishShutdown(s))
                 /\ UNCHANGED <<serverVars, inbound>>)
  /\ \A t \in TaskIds :
       WF_vars(EndCancelled(t) /\ UNCHANGED <<serverVars, inbound>>)
  /\ WF_vars(GotResponse /\ UNCHANGED <<serverVars, inbound>>)
  /\ WF_vars(ServerLoop /\ UNCHANGED <<shellVars, inbound>>)
  /\ WF_vars(Connections /\ UNCHANGED <<shellVars, inbound>>)
  /\ WF_vars(Transmit)
  /\ WF_vars(\E message \in inbound : Serve(message))

FairSpec == Spec /\ Fairness

-----------------------------------------------------------------------------
(* Properties *)

\* Does the process wait for an answer, and to which transaction?
Waits ==
  \/ shell.at = "awaiting"
  \/ shell = Testing /\ task[TestLoop] = "waiting"

Awaited ==
  IF shell.at = "awaiting" THEN shell.transaction ELSE TestTransactions[test_at]

Message == [identity |-> Identity(session), session |-> session,
            transaction |-> Awaited]

\* The type invariant.
TypeOK ==
  /\ session \in 0 .. MaxSessions /\ commands \in 0 .. MaxCommands
  /\ \/ shell \in {NoShell, Prompt, Testing}
     \/ (shell.at = "awaiting" /\ shell.transaction \in Seq(Int))
     \/ (shell.at = "crashed" /\ shell.line \in Lines)
  /\ task \in [TaskIds -> {"none", "created", "waiting", "sleeping",
                           "gathering", "done"}]
  /\ cancelled \subseteq TaskIds
  /\ gathered \in [Shutdowns -> SUBSET TaskIds]
  /\ test_at \in 0 .. Len(TestTransactions)
  /\ phase \in {"down", "loading", "running"} /\ status \in Values
  /\ serving \in BOOLEAN /\ lost \in BOOLEAN
  /\ IsInjective(sockets) /\ DOMAIN sockets \subseteq 1 .. MaxFd
  /\ clients \subseteq 1 .. MaxFd

\* What arrives at a process is the answer to its own transaction, the last it
\* sent, which it still waits for unless its test loop was ended meanwhile,
\* whatever earlier processes left unanswered.
AnswersAreAwaited ==
  \A i \in DOMAIN incoming :
    /\ Waits \/ (shell = Testing /\ task[TestLoop] = "done")
    /\ incoming[i] = Message

\* The message of a process that waits is in one place, its socket, the
\* server's or its socket again as an answer, unless the server was stopped
\* with it or its server task is not there to answer.
OnlyStopLosesRequests ==
  Waits /\ ~lost =>
    \/ outgoing = <<Message>> /\ Message \notin inbound /\ incoming = << >>
    \/ outgoing = << >> /\ Message \in inbound /\ incoming = << >>
    \/ outgoing = << >> /\ Message \notin inbound /\ incoming = <<Message>>

\* Nothing that is typed into a shell ends the emulator's server task, which
\* starts with the emulator: what is not an integer is refused at the prompt.
ServerTaskLives == Bound => serving

\* No line ends the shell, however it is mistyped, but one with an integer
\* that does not fit 64 bits and a read of more registers than memory holds.
ShellSurvives ==
  shell.at = "crashed" =>
    \/ \E i \in DOMAIN shell.line.args :
         shell.line.args[i] \notin PackedIntegers \cup {NotInteger}
    \/ IsTooLong(shell.line)

\* The shutdown that stops the loop has awaited every task there was when it
\* began, though shutdowns cancel each other as they cancel the test loop.
\* What is left is at most shutdowns that signals created after it, none of
\* which has begun: the loop is closed with these pending, where the doc of
\* shutdown says "Once all tasks are stopped".
StopAwaitsBegunTasks ==
  shell # Testing =>
    \A t \in TaskIds : task[t] \notin {"none", "done"} =>
      /\ task[t] = "created"
      /\ \E s \in Shutdowns : s < t /\ task[s] = "done"
      /\ \A s \in Shutdowns : task[s] = "done" => s < t

\* A command returns to the prompt, and the test loop gets its response, if
\* the emulator is up for good and was not stopped with the message.
CommandsReturn ==
  <>[](phase = "running" /\ serving) => (Waits ~> ~Waits \/ lost)

\* A signal, or an error, ends the test process, however many come.
SignalsStopTestLoop ==
  (shell = Testing /\ \E s \in Shutdowns : task[s] # "none") ~> shell # Testing
=============================================================================
