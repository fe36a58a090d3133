---------------------------- MODULE ControlServer ----------------------------
(***************************************************************************)
(* The odin-control process and the adapters of this repository in it: the *)
(* detector's (detector/adapter.py, detector/detector.py), which hands the *)
(* ASIC's functions to the sequencer, and the emulator's                   *)
(* (asic_emulator/adapter.py, emulator.py), with the monitor task that     *)
(* keeps the set of connected clients (server.py).  The process is         *)
(* started, loads its adapters in the order of its configuration, tells    *)
(* them of each other, runs its event loop, and is stopped at any time.    *)
(*                                                                         *)
(* Peers are numbered: Device is the detector's own client, the others are *)
(* shells.  Handlers of HTTP requests do not suspend: each is one step.    *)
(***************************************************************************)
EXTENDS Integers, Sequences, FiniteSets, SequencesExt, Functions

CONSTANTS
  Configurations,  \* sequences of adapter sections: a name and its options
  Endpoints,       \* the endpoints that ZeroMQ connects and binds to
  Registers,       \* names of RegisterMap
  Values,          \* that a PUT may give the detector's status
  MaxStarts,       \* bound: starts of the process
  MaxFd            \* bound: sockets open at a time

Sections == UNION {ToSet(config) : config \in Configurations}

ASSUME ServerAssumption ==
  /\ Configurations \subseteq Seq(Sections)
  /\ MaxStarts \in Nat /\ MaxFd \in Nat
  /\ Registers \cap {"register_read", "register_write"} = {}
  /\ "hello" \in Values

Device == 0

VARIABLES
  phase,         \* "down", "loading" or "running"
  to_load,       \* sections still to be loaded
  adapters,      \* names of those loaded, in the order of loading
  contexts,      \* contexts added to the sequencer
  asic_context,  \* how the attributes of context "asic" are called
  status,        \* the leaf of the detector's parameter tree
  serving,       \* is the emulator's server task running?
  sockets,       \* connections to the emulator: file descriptor to peer
  events,        \* of the monitor socket, not received yet
  clients,       \* EmulatorServer._clients
  starts

serverVars == <<phase, to_load, adapters, contexts, asic_context, status,
                serving, sockets, events, clients, starts>>
treeVars == <<contexts, asic_context, status>>
connectionVars == <<sockets, events, clients>>

Loaded(name) == name \in ToSet(adapters)

ServerInit ==
  /\ phase = "down"
  /\ to_load = << >>
  /\ adapters = << >>
  /\ contexts = {}
  /\ asic_context = << >>
  /\ status = "hello"
  /\ serving = FALSE
  /\ sockets = << >> /\ events = << >> /\ clients = {}
  /\ starts = 0

-----------------------------------------------------------------------------
(* Loading *)

StartServer ==
  /\ phase = "down"
  /\ starts < MaxStarts
  /\ starts' = starts + 1
  /\ phase' = "loading"
  /\ to_load' \in Configurations
  /\ UNCHANGED <<adapters, treeVars, serving, connectionVars>>

\* options.get
Option(section, name, default) ==
  IF name \in DOMAIN section.options THEN section.options[name] ELSE default

\* Without emulate_hw the device raises NotImplementedError; ZeroMQ raises an
\* error for an endpoint without a transport, as the defaults are.
Constructs(section) ==
  CASE section.name = "detector" ->
         /\ Option(section, "emulate_hw", FALSE)
         /\ Option(section, "asic_emulator_endpoint", "") \in Endpoints
    [] section.name = "asic_emulator" ->
         Option(section, "endpoint", "127.0.0.1:5555") \in Endpoints
    [] OTHER -> TRUE

\* The emulator's constructor creates its two tasks.
LoadAdapter ==
  /\ phase = "loading"
  /\ to_load # << >>
  /\ Constructs(Head(to_load))
  /\ to_load' = Tail(to_load)
  /\ adapters' = Append(adapters, Head(to_load).name)
  /\ serving' = (serving \/ Head(to_load).name = "asic_emulator")
  /\ UNCHANGED <<phase, treeVars, connectionVars, starts>>

\* odin-control goes on without an adapter that it cannot construct.
AdapterFails ==
  /\ phase = "loading"
  /\ to_load # << >>
  /\ ~Constructs(Head(to_load))
  /\ to_load' = Tail(to_load)
  /\ UNCHANGED <<phase, adapters, treeVars, serving, connectionVars, starts>>

\* Context "asic": functions that return coroutines are wrapped, values of
\* registers are not.
SetAttribute(wrap) == IF wrap THEN "sync" ELSE "plain"

register_context ==
  [a \in Registers \cup {"register_read", "register_write"} |->
     SetAttribute(a \notin Registers)]

\* initialize of each adapter that has one, then the event loop.
Initialize ==
  /\ phase = "loading"
  /\ to_load = << >>
  /\ phase' = "running"
  /\ IF Loaded("detector") /\ Loaded("odin_sequencer")
     THEN /\ contexts' = {"detector", "asic"}
          /\ asic_context' = register_context
     ELSE UNCHANGED <<contexts, asic_context>>
  /\ UNCHANGED <<status, to_load, adapters, serving, connectionVars, starts>>

StopServer ==
  /\ phase # "down"
  /\ phase' = "down"
  /\ to_load' = << >> /\ adapters' = << >>
  /\ contexts' = {} /\ asic_context' = << >> /\ status' = "hello"
  /\ serving' = FALSE
  /\ sockets' = << >> /\ events' = << >> /\ clients' = {}
  /\ UNCHANGED starts

-----------------------------------------------------------------------------
(* Connections *)

Bound == Loaded("asic_emulator")
Connected(peer) == peer \in Range(sockets)

\* A new socket gets the lowest free descriptor.  The I/O thread of ZeroMQ
\* puts an event in the monitor's queue before the descriptor can be used
\* again.
Accept(peer) ==
  /\ Bound
  /\ ~Connected(peer)
  /\ \E fd \in (1 .. MaxFd) \ DOMAIN sockets :
       /\ \A other \in (1 .. MaxFd) \ DOMAIN sockets : fd <= other
       /\ sockets' = [f \in DOMAIN sockets \cup {fd} |->
                        IF f = fd THEN peer ELSE sockets[f]]
       /\ events' = Append(events, [event |-> "accepted", value |-> fd])
  /\ UNCHANGED <<phase, to_load, adapters, treeVars, serving, clients, starts>>

Close(fd) ==
  /\ fd \in DOMAIN sockets
  /\ sockets' = Restrict(sockets, DOMAIN sockets \ {fd})
  /\ events' = Append(events, [event |-> "disconnected", value |-> fd])
  /\ UNCHANGED <<phase, to_load, adapters, treeVars, serving, clients, starts>>

\* _run_monitor's effect of one event on the set of clients.
Mutant_NotDiscarded(known, event) == known \cup {event.value}

AfterEvent(known, event) ==
  IF event.event = "accepted" THEN known \cup {event.value}
  ELSE known \ {event.value}

MonitorEvent ==
  /\ phase = "running"
  /\ events # << >>
  /\ clients' = AfterEvent(clients, Head(events))
  /\ events' = Tail(events)
  /\ UNCHANGED <<phase, to_load, adapters, treeVars, serving, sockets, starts>>

-----------------------------------------------------------------------------
(* HTTP requests: a path, and for a PUT a body, which cannot be decoded,   *)
(* names no parameter ({}), gives values that the tree does not take, or   *)
(* gives a value of the type of the parameter named.                       *)

Paths == {"", "status", "status/connected", "status/clients", "registers"}
Bodies == [is : {"undecodable", "empty", "unfit"}]
            \cup [is : {"value"}, value : Values]

\* What a parameter tree does: it returns a value, or raises its error.
Returns(value) == [raises |-> FALSE, value |-> value]
Raises == [raises |-> TRUE]

\* The adapters' handlers turn the error into a refusal.
Refused == [status_code |-> 400]

get(tree) ==
  IF tree.raises THEN Refused
  ELSE [status_code |-> 200, response |-> tree.value]

put(body, set, tree) ==
  IF body.is = "undecodable" \/ set.raises THEN Refused ELSE get(tree)

\* MercuryDetector's tree has one leaf.  A tree takes a value of its
\* parameter's type, and merges at a branch what the body names, if anything.
DetectorSet(path, body) ==
  CASE path \in {"", "status"} /\ body.is = "value" -> Returns(body.value)
    [] path = "" /\ body.is = "empty" -> Returns(status)
    [] OTHER -> Raises

\* What a PUT to the detector leaves in the leaf.
StatusAfter(path, body) ==
  IF body.is = "undecodable" \/ DetectorSet(path, body).raises THEN status
  ELSE DetectorSet(path, body).value

DetectorPut ==
  /\ phase = "running" /\ Loaded("detector")
  /\ status' \in {StatusAfter(path, body) : path \in Paths, body \in Bodies}
  /\ UNCHANGED <<phase, to_load, adapters, contexts, asic_context, serving,
                 connectionVars, starts>>

connected == Cardinality(clients) > 0

\* MercuryAsicEmulator's tree.
EmulatorTree(path, registers) ==
  CASE path = "" ->
         Returns([status |-> [connected |-> connected, clients |-> clients],
                  registers |-> registers])
    [] path = "status" ->
         Returns([connected |-> connected, clients |-> clients])
    [] path = "status/connected" -> Returns(connected)
    [] path = "status/clients" -> Returns(clients)
    [] path = "registers" -> Returns(registers)
    [] OTHER -> Raises

\* Read-only parameters: it takes what names none of them, at a branch.
EmulatorSet(path, body) ==
  IF path \in {"", "status"} /\ body.is = "empty" THEN Returns(<< >>)
  ELSE Raises

EmulatorGet(path, registers) == get(EmulatorTree(path, registers))

EmulatorPut(path, body, registers) ==
  put(body, EmulatorSet(path, body), EmulatorTree(path, registers))

-----------------------------------------------------------------------------
(* Properties *)

\* The clients the emulator reports are the open connections, once the events
\* that are still in the monitor's queue are counted in, of which the last one
\* of a descriptor decides: descriptors that are closed and used again for
\* another client do not confuse it.  A PUT that names no parameter is answered
\* with the same report as a GET.
LastEvent(fd, i) ==
  /\ events[i].value = fd
  /\ \A j \in DOMAIN events : events[j].value = fd => j <= i

ReportedClients ==
  /\ \A fd \in 1 .. MaxFd :
       fd \in DOMAIN sockets <=>
         \/ /\ fd \in clients
            /\ \A i \in DOMAIN events : events[i].value # fd
         \/ \E i \in DOMAIN events :
              LastEvent(fd, i) /\ events[i].event = "accepted"
  /\ events = << >> =>
       \A reply \in {EmulatorGet("status", << >>),
                    EmulatorPut("status", [is |-> "empty"], << >>)} :
         reply.response = [connected |-> sockets # << >>,
                           clients |-> DOMAIN sockets]
=============================================================================
