------------------------------ MODULE AsicLink ------------------------------
(***************************************************************************)
(* Register access across threads, event loop and network: sequencer       *)
(* threads call MercuryAsicDevice through a SyncContext, which runs the    *)
(* coroutine on the event loop and blocks the thread until it is done.     *)
(* The coroutine sends the transaction on its client's DEALER socket and   *)
(* awaits the next message on it.  The emulator's server task receives     *)
(* from all clients on its ROUTER socket, one transaction at a time.       *)
(*                                                                         *)
(* No message names the call it belongs to.  A client's requests arrive    *)
(* and are answered in order, and receives that are waiting on one socket  *)
(* get its messages in the order in which they began to wait; zmq.asyncio  *)
(* does not suspend a coroutine in a send that the socket takes at once,   *)
(* so a coroutine has sent and waits in one step of the loop.              *)
(***************************************************************************)
EXTENDS MercuryAsicRegisterModel

CONSTANTS
  Tasks,      \* threads that make calls
  Clients,    \* MercuryAsicClient objects, each with its socket
  ClientOf,   \* the client a thread's device uses
  Calls,      \* the calls threads make
  MaxCalls    \* bound: calls made in a run

ASSUME TasksAssumption ==
  /\ ClientOf \in [Tasks -> Clients]
  /\ MaxCalls \in Nat

ASSUME CallsAssumption == \A call \in Calls : IsCall(call)

VARIABLES
  model,      \* the register model of the emulator
  serving,    \* has the server task not been ended by an exception?
  thread,     \* what each thread, with its coroutine, is doing
  requests,   \* per client: transactions sent, not yet received
  responses,  \* per client: responses sent, not yet received
  receivers,  \* per client: threads whose coroutine awaits a message
  calls_made

vars == <<model, serving, thread, requests, responses, receivers, calls_made>>

Idle == [at |-> "idle"]
Scheduled(call) == [at |-> "scheduled", call |-> call]
Waiting(call) == [at |-> "waiting", call |-> call]
Returned(call, response) ==
  [at |-> "returned", call |-> call, response |-> response]

Init ==
  /\ model = NewRegisterModel
  /\ serving = TRUE
  /\ thread = [t \in Tasks |-> Idle]
  /\ requests = [c \in Clients |-> << >>]
  /\ responses = [c \in Clients |-> << >>]
  /\ receivers = [c \in Clients |-> << >>]
  /\ calls_made = 0

\* SyncContext's wrapper hands the coroutine to the event loop; .result()
\* blocks the thread.
RunSync(t, call) ==
  /\ calls_made < MaxCalls
  /\ thread[t] = Idle
  /\ thread' = [thread EXCEPT ![t] = Scheduled(call)]
  /\ calls_made' = calls_made + 1
  /\ UNCHANGED <<model, serving, requests, responses, receivers>>

\* The receive that begins last is served last.
Mutant_LastFirst(c, t) == receivers' = [receivers EXCEPT ![c] = <<t>> \o @]

Await(c, t) == receivers' = [receivers EXCEPT ![c] = Append(@, t)]

\* The coroutine, up to the point where it awaits the response.  A call of an
\* integer that msgpack cannot pack (beyond 64 bits) raises here, in its caller
\* alone: there is no such call in Calls.
Transfer(t, call) ==
  /\ thread[t] = Scheduled(call)
  /\ thread' = [thread EXCEPT ![t] = Waiting(call)]
  /\ requests' = [requests EXCEPT ![ClientOf[t]] = Append(@, OnWire(call))]
  /\ Await(ClientOf[t], t)
  /\ UNCHANGED <<model, serving, responses, calls_made>>

\* The server takes the next transaction of client c off its socket.
Receive(c) ==
  /\ serving
  /\ requests[c] # << >>
  /\ requests' = [requests EXCEPT ![c] = Tail(@)]

Respond(c, response) ==
  responses' = [responses EXCEPT ![c] = Append(@, response)]

\* A transaction it can convert to bytes is processed.  One with a value
\* out of range is returned unprocessed.
Mutant_ErrorsUnanswered(c) ==
  /\ Receive(c)
  /\ ~RaisesTypeError(Head(requests[c]))
  /\ model' = Answer(model, Head(requests[c])).model
  /\ IF IsTransaction(Head(requests[c]))
     THEN Respond(c, Answer(model, Head(requests[c])).response)
     ELSE UNCHANGED responses
  /\ UNCHANGED <<serving, thread, receivers, calls_made>>

Serve(c) ==
  /\ Receive(c)
  /\ ~RaisesTypeError(Head(requests[c]))
  /\ model' = Answer(model, Head(requests[c])).model
  /\ Respond(c, Answer(model, Head(requests[c])).response)
  /\ UNCHANGED <<serving, thread, receivers, calls_made>>

\* A value that is not an integer raises a TypeError, which the server task
\* does not catch: the task ends and is never started again.
ServerFails(c) ==
  /\ Receive(c)
  /\ RaisesTypeError(Head(requests[c]))
  /\ serving' = FALSE
  /\ UNCHANGED <<model, thread, responses, receivers, calls_made>>

\* A response reaches client c: the first coroutine waiting on the socket
\* gets it and is done, which unblocks its thread.
GetResponse(c) ==
  /\ responses[c] # << >>
  /\ receivers[c] # << >>
  /\ responses' = [responses EXCEPT ![c] = Tail(@)]
  /\ receivers' = [receivers EXCEPT ![c] = Tail(@)]
  /\ thread' = [thread EXCEPT ![Head(receivers[c])] =
                  Returned(@.call, Head(responses[c]))]
  /\ UNCHANGED <<model, serving, requests, calls_made>>

\* The thread goes on with its sequence.
Return(t) ==
  /\ thread[t].at = "returned"
  /\ thread' = [thread EXCEPT ![t] = Idle]
  /\ UNCHANGED <<model, serving, requests, responses, receivers, calls_made>>

Next ==
  \/ \E t \in Tasks, call \in Calls : RunSync(t, call)
  \/ \E t \in Tasks, call \in Calls : Transfer(t, call)
  \/ \E c \in Clients : Serve(c)
  \/ \E c \in Clients : ServerFails(c)
  \/ \E c \in Clients : GetResponse(c)
  \/ \E t \in Tasks : Return(t)

Spec == Init /\ [][Next]_vars

\* The event loop runs every coroutine that is ready, the ROUTER socket
\* takes its clients in turn.  Threads need not make calls.
Fairness ==
  /\ \A t \in Tasks : WF_vars(\E call \in Calls : Transfer(t, call))
  /\ \A c \in Clients : WF_vars(Serve(c) \/ ServerFails(c))
  /\ \A c \in Clients : WF_vars(GetResponse(c))
  /\ \A t \in Tasks : WF_vars(Return(t))

FairSpec == Spec /\ Fairness
-----------------------------------------------------------------------------
(* Properties *)

Messages == Seq(Int \cup {Sector, NotInteger})

\* The type invariant of threads, queues and model.
TypeOK ==
  /\ model \in RegisterModels
  /\ serving \in BOOLEAN
  /\ \A t \in Tasks :
       \/ thread[t] = Idle
       \/ \E call \in Calls : thread[t] \in {Scheduled(call), Waiting(call)}
       \/ /\ thread[t].at = "returned"
          /\ thread[t].call \in Calls
          /\ thread[t].response \in Messages
  /\ requests \in [Clients -> Seq(Messages)]
  /\ responses \in [Clients -> Seq(Messages)]
  /\ receivers \in [Clients -> Seq(Tasks)]
  /\ calls_made \in 0 .. MaxCalls

\* The threads whose coroutines wait on client c, in order, each once.
Receivers(c) == {receivers[c][i] : i \in 1 .. Len(receivers[c])}

WaitOnce(c) ==
  /\ \A i, j \in 1 .. Len(receivers[c]) :
       receivers[c][i] = receivers[c][j] => i = j
  /\ Receivers(c) = {t \in Tasks : ClientOf[t] = c /\ thread[t].at = "waiting"}

MessagesMatch(c) ==
  /\ Len(responses[c]) + Len(requests[c]) <= Len(receivers[c])
  /\ serving => Len(responses[c]) + Len(requests[c]) = Len(receivers[c])
  /\ serving => \A k \in 1 .. Len(requests[c]) :
       requests[c][k] =
         OnWire(thread[receivers[c][Len(responses[c]) + k]].call)

\* Every waiting thread waits on its client's socket, once, and while the
\* server is up the k-th of them is waiting for the k-th message to come:
\* responses first, then requests that are still to be served.
ReceiversMatch == \A c \in Clients : WaitOnce(c) /\ MessagesMatch(c)

\* Every call returns as long as the server task lives: no answer is lost,
\* and none goes to a thread that has its own already.
CallsReturnWhileServing ==
  \A t \in Tasks :
    (thread[t].at = "scheduled") ~> (thread[t].at = "returned" \/ ~serving)

\* Every call is answered: "in the case of an error, return the transaction
\* unprocessed" (_run_server).
CallsReturn ==
  \A t \in Tasks : (thread[t].at = "scheduled") ~> (thread[t].at = "returned")

-----------------------------------------------------------------------------
(* The link implements AtomicService: a call that waits has been answered  *)
(* once the response at its place in the queue is there.                   *)

Place(t) ==
  CHOOSE k \in 1 .. Len(receivers[ClientOf[t]]) :
    receivers[ClientOf[t]][k] = t

CalledTask(t) == [at |-> "called", call |-> thread[t].call]
AnsweredTask(t, response) ==
  [at |-> "answered", call |-> thread[t].call, response |-> response]

TaskOf(t) ==
  CASE thread[t].at = "scheduled" -> CalledTask(t)
    [] thread[t].at = "waiting" ->
         IF Place(t) <= Len(responses[ClientOf[t]])
         THEN AnsweredTask(t, responses[ClientOf[t]][Place(t)])
         ELSE CalledTask(t)
    [] thread[t].at = "returned" -> AnsweredTask(t, thread[t].response)
    [] thread[t].at = "idle" -> Idle

ServiceTask == [t \in Tasks |-> TaskOf(t)]

AnswerToCall(m, call) == Answer(m, OnWire(call))

Service == INSTANCE AtomicService
  WITH task <- ServiceTask, NewModel <- NewRegisterModel,
       AnswerTo <- AnswerToCall

ImplementsAtomicService == Service!Spec
=============================================================================
