---------------------------- MODULE AtomicService ----------------------------
(***************************************************************************)
(* What register access promises to its callers: each call takes effect on *)
(* the one register model at one moment between the call and its return,   *)
(* and returns the answer to its own transaction.  Nothing is said of      *)
(* messages, queues or servers.                                            *)
(***************************************************************************)
CONSTANTS
  Tasks,           \* the threads that make calls
  Calls,           \* the calls they make
  NewModel,        \* the model at the start
  AnswerTo(_, _)   \* a model and a call: the new model and the response

VARIABLES model, task

vars == <<model, task>>

Idle == [at |-> "idle"]
Called(call) == [at |-> "called", call |-> call]
Answered(call, response) ==
  [at |-> "answered", call |-> call, response |-> response]

Init ==
  /\ model = NewModel
  /\ task = [t \in Tasks |-> Idle]

Call(t, call) ==
  /\ task[t] = Idle
  /\ task' = [task EXCEPT ![t] = Called(call)]
  /\ UNCHANGED model

Apply(t, call) ==
  /\ task[t] = Called(call)
  /\ model' = AnswerTo(model, call).model
  /\ task' = [task EXCEPT ![t] =
                Answered(call, AnswerTo(model, call).response)]

Return(t) ==
  /\ task[t].at = "answered"
  /\ task' = [task EXCEPT ![t] = Idle]
  /\ UNCHANGED model

Next ==
  \E t \in Tasks :
    \/ \E call \in Calls : Call(t, call) \/ Apply(t, call)
    \/ Return(t)

Spec == Init /\ [][Next]_vars
=============================================================================
