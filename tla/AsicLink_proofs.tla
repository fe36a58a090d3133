--------------------------- MODULE AsicLink_proofs ---------------------------
(***************************************************************************)
(* Messages on the link name no call.  They need not: the threads that     *)
(* wait on a socket match the messages on their way to it one by one, so   *)
(* every response reaches the thread that made the call, and the link      *)
(* implements AtomicService, for any threads, clients and calls.           *)
(***************************************************************************)
EXTENDS AsicLink, MercuryAsicRegisterModel_proofs

\* A sequence, of whatever it holds.
IsSequence(s) == s \in Seq({s[i] : i \in DOMAIN s})

LEMMA SequenceFacts ==
  ASSUME NEW s, IsSequence(s)
  PROVE  /\ Len(s) \in Nat
         /\ DOMAIN s = 1 .. Len(s)
BY LenProperties DEF IsSequence

LEMMA AppendFacts ==
  ASSUME NEW s, IsSequence(s), NEW e
  PROVE  /\ IsSequence(Append(s, e))
         /\ Len(Append(s, e)) = Len(s) + 1
         /\ \A i \in 1 .. Len(s) : Append(s, e)[i] = s[i]
         /\ Append(s, e)[Len(s) + 1] = e
<1> DEFINE S == {s[i] : i \in DOMAIN s} \cup {e}
           a == Append(s, e)
<1>1. s \in Seq(S)
  BY SeqMonotonic DEF IsSequence
<1>2. /\ a \in Seq(S)
      /\ Len(a) = Len(s) + 1
      /\ \A i \in 1 .. Len(s) : a[i] = s[i]
      /\ a[Len(s) + 1] = e
  BY <1>1, AppendProperties
<1>3. DOMAIN a = 1 .. (Len(s) + 1) /\ DOMAIN s = 1 .. Len(s) /\ Len(s) \in Nat
  BY <1>1, <1>2, LenProperties
<1>4. S = {a[i] : i \in DOMAIN a}
  <2>1. \A x \in S : \E i \in DOMAIN a : a[i] = x
    BY <1>2, <1>3
  <2>2. \A i \in DOMAIN a : a[i] \in S
    BY <1>2, <1>3
  <2> QED
    BY <2>1, <2>2
<1> QED
  BY <1>2, <1>4 DEF IsSequence

LEMMA TailFacts ==
  ASSUME NEW s, IsSequence(s), s # << >>
  PROVE  /\ IsSequence(Tail(s))
         /\ Len(s) >= 1
         /\ Len(Tail(s)) = Len(s) - 1
         /\ \A i \in 1 .. Len(s) - 1 : Tail(s)[i] = s[i + 1]
         /\ Head(s) = s[1]
<1> DEFINE S == {s[i] : i \in DOMAIN s}
           r == Tail(s)
<1>1. /\ r \in Seq(S)
      /\ Len(r) = Len(s) - 1
      /\ \A i \in 1 .. Len(r) : r[i] = s[i + 1]
  BY HeadTailProperties DEF IsSequence
<1>2. Len(s) \in Nat \ {0}
  BY EmptySeq DEF IsSequence
<1>3. r \in Seq({r[i] : i \in DOMAIN r})
  <2>1. r \in [1 .. Len(r) -> S] /\ DOMAIN r = 1 .. Len(r) /\ Len(r) \in Nat
    BY <1>1, LenProperties
  <2>2. r \in [1 .. Len(r) -> {r[i] : i \in DOMAIN r}]
    BY <2>1
  <2> QED
    BY <2>1, <2>2, SeqDef
<1> QED
  BY <1>1, <1>2, <1>3 DEF IsSequence

-----------------------------------------------------------------------------
(* The invariant.  Responses may hold anything: what ProcessTransaction    *)
(* computes plays no part.                                                 *)

ThreadTyped(t) ==
  \/ thread[t] = Idle
  \/ \E call \in Calls : thread[t] = Scheduled(call) \/ thread[t] = Waiting(call)
  \/ \E call \in Calls : thread[t] = Returned(call, thread[t].response)

QueuesTyped ==
  /\ DOMAIN requests = Clients /\ DOMAIN responses = Clients
  /\ \A c \in Clients : IsSequence(requests[c]) /\ IsSequence(responses[c])
  /\ receivers \in [Clients -> Seq(Tasks)]

LinkTyped ==
  /\ serving \in BOOLEAN
  /\ DOMAIN thread = Tasks
  /\ \A t \in Tasks : ThreadTyped(t)
  /\ QueuesTyped

LinkInv == LinkTyped /\ ReceiversMatch

LEMMA ReceiversSequence ==
  ASSUME QueuesTyped, NEW c \in Clients
  PROVE  /\ IsSequence(receivers[c])
         /\ Len(receivers[c]) \in Nat
         /\ \A i \in 1 .. Len(receivers[c]) : receivers[c][i] \in Tasks
<1>1. receivers[c] \in Seq(Tasks)
  BY DEF QueuesTyped
<1>2. receivers[c] \in [1 .. Len(receivers[c]) -> Tasks] /\ Len(receivers[c]) \in Nat
  BY <1>1, LenProperties
<1>3. receivers[c] \in
        [1 .. Len(receivers[c]) ->
           {receivers[c][i] : i \in DOMAIN receivers[c]}]
  BY <1>2
<1> QED
  BY <1>2, <1>3, SeqDef DEF IsSequence

\* What a thread's state says of its fields.
LEMMA ThreadFacts ==
  ASSUME NEW call, NEW response
  PROVE  /\ Idle.at = "idle"
         /\ Scheduled(call).at = "scheduled" /\ Scheduled(call).call = call
         /\ Waiting(call).at = "waiting" /\ Waiting(call).call = call
         /\ Returned(call, response).at = "returned"
         /\ Returned(call, response).call = call
         /\ Returned(call, response).response = response
BY DEF Idle, Scheduled, Waiting, Returned

LEMMA PlaceExists ==
  ASSUME NEW m \in Nat, NEW n \in Nat, NEW places \in Nat, m + n <= places,
         NEW k \in 1 .. n
  PROVE  m + k \in 1 .. places
OBVIOUS

LEMMA OneMore ==
  ASSUME NEW m \in Nat, NEW n \in Nat, NEW places \in Nat, m + n <= places
  PROVE  m + (n + 1) <= places + 1
OBVIOUS

LEMMA OneMoreEach ==
  ASSUME NEW m \in Nat, NEW n \in Nat, NEW places \in Nat, m + n = places
  PROVE  m + (n + 1) = places + 1
OBVIOUS

LEMMA OneServed ==
  ASSUME NEW m \in Nat, NEW n \in Nat, NEW places \in Nat, n >= 1,
         m + n = places
  PROVE  /\ (m + 1) + (n - 1) = places
         /\ (m + 1) + (n - 1) <= places
OBVIOUS

LEMMA OneLost ==
  ASSUME NEW m \in Nat, NEW n \in Nat, NEW places \in Nat, n >= 1,
         m + n <= places
  PROVE  m + (n - 1) <= places
OBVIOUS

LEMMA OneDelivered ==
  ASSUME NEW m \in Nat, NEW n \in Nat, NEW places \in Nat, m >= 1,
         m + n <= places
  PROVE  (m - 1) + n <= places - 1
OBVIOUS

LEMMA OneDeliveredEach ==
  ASSUME NEW m \in Nat, NEW n \in Nat, NEW places \in Nat, m >= 1,
         m + n = places
  PROVE  (m - 1) + n = places - 1
OBVIOUS

LEMMA NextPlace ==
  ASSUME NEW m \in Nat, NEW n \in Nat, NEW k \in 1 .. (n - 1)
  PROVE  k + 1 \in 1 .. n /\ (m + 1) + k = m + (k + 1)
OBVIOUS

LEMMA PlaceBefore ==
  ASSUME NEW m \in Nat, NEW n \in Nat, NEW places \in Nat, m >= 1,
         m + n <= places, NEW k \in 1 .. n
  PROVE  /\ (m - 1) + k \in 1 .. (places - 1)
         /\ ((m - 1) + k) + 1 = m + k
         /\ m + k # 1
OBVIOUS

LEMMA InitLinkInv == Init => LinkInv
<1> SUFFICES ASSUME Init PROVE LinkInv
  OBVIOUS
<1>1. IsSequence(<< >>) /\ Len(<< >>) = 0 /\ << >> \in Seq(Tasks)
  BY EmptySeq DEF IsSequence
<1>2. LinkTyped
  BY <1>1 DEF Init, LinkTyped, ThreadTyped, QueuesTyped
<1>3. ReceiversMatch
  <2> SUFFICES ASSUME NEW c \in Clients PROVE WaitOnce(c) /\ MessagesMatch(c)
    BY DEF ReceiversMatch
  <2>1. /\ requests[c] = << >> /\ responses[c] = << >> /\ receivers[c] = << >>
        /\ \A t \in Tasks : thread[t].at = "idle"
    BY ThreadFacts DEF Init
  <2>2. WaitOnce(c)
    BY <1>1, <2>1 DEF WaitOnce, Receivers
  <2>3. MessagesMatch(c)
    BY <1>1, <2>1 DEF MessagesMatch
  <2> QED
    BY <2>2, <2>3
<1> QED
  BY <1>2, <1>3 DEF LinkInv

\* The lengths of a client's queues are numbers.
LEMMA Lengths ==
  ASSUME QueuesTyped, NEW c \in Clients
  PROVE  /\ Len(requests[c]) \in Nat
         /\ Len(responses[c]) \in Nat
         /\ Len(receivers[c]) \in Nat
BY SequenceFacts, ReceiversSequence DEF QueuesTyped

\* The thread that waits for the k-th request of a client.
LEMMA PlaceOfRequest ==
  ASSUME LinkInv, NEW c \in Clients, NEW k \in 1 .. Len(requests[c])
  PROVE  /\ Len(responses[c]) + k \in 1 .. Len(receivers[c])
         /\ receivers[c][Len(responses[c]) + k] \in Receivers(c)
<1>1. Len(responses[c]) + Len(requests[c]) <= Len(receivers[c])
  BY DEF LinkInv, ReceiversMatch, MessagesMatch
<1>2. Len(responses[c]) + k \in 1 .. Len(receivers[c])
  BY <1>1, Lengths, PlaceExists DEF LinkInv, LinkTyped
<1> QED
  BY <1>2 DEF Receivers

\* A client's threads that wait, before and after a step.
WaitersKept(c) ==
  \A t \in Tasks : ClientOf[t] = c =>
    /\ thread'[t].at = "waiting" <=> thread[t].at = "waiting"
    /\ thread[t].at = "waiting" => thread'[t] = thread[t]

\* A step that leaves a client's queues and its waiting threads alone.
LEMMA ClientUntouched ==
  ASSUME LinkInv, NEW c \in Clients, WaitersKept(c),
         serving' => serving,
         requests'[c] = requests[c],
         responses'[c] = responses[c],
         receivers'[c] = receivers[c]
  PROVE  WaitOnce(c)' /\ MessagesMatch(c)'
<1>1. WaitOnce(c) /\ MessagesMatch(c)
  BY DEF LinkInv, ReceiversMatch
<1>2. WaitOnce(c)'
  BY <1>1 DEF WaitOnce, Receivers, WaitersKept
<1>3. ASSUME serving', NEW k \in 1 .. Len(requests'[c])
      PROVE  requests'[c][k] =
               OnWire(thread'[receivers'[c][Len(responses'[c]) + k]].call)
  <2> DEFINE t == receivers[c][Len(responses[c]) + k]
  <2>1. requests[c][k] = OnWire(thread[t].call)
    BY <1>1, <1>3 DEF MessagesMatch
  <2>2. t \in Receivers(c)
    BY PlaceOfRequest
  <2>3. thread'[t] = thread[t]
    BY <1>1, <2>2 DEF WaitOnce, WaitersKept
  <2> QED
    BY <2>1, <2>3
<1>4. MessagesMatch(c)'
  BY <1>1, <1>3 DEF MessagesMatch
<1> QED
  BY <1>2, <1>4

\* A step of one thread that neither begins nor ends to wait.
LEMMA QueuesUntouched ==
  ASSUME LinkInv, NEW t \in Tasks, NEW state,
         UNCHANGED <<serving, requests, responses, receivers>>,
         thread' = [thread EXCEPT ![t] = state],
         thread[t].at # "waiting", state.at # "waiting"
  PROVE  ReceiversMatch'
<1> SUFFICES ASSUME NEW c \in Clients PROVE WaitOnce(c)' /\ MessagesMatch(c)'
  BY DEF ReceiversMatch
<1>1. WaitersKept(c)
  BY DEF WaitersKept, LinkInv, LinkTyped
<1> QED
  BY <1>1, ClientUntouched

LEMMA RunSyncKeeps ==
  ASSUME LinkInv, NEW t \in Tasks, NEW call \in Calls, RunSync(t, call)
  PROVE  LinkInv'
<1>1. LinkTyped'
  BY DEF LinkInv, LinkTyped, QueuesTyped, ThreadTyped, RunSync
<1>2. ReceiversMatch'
  BY QueuesUntouched, ThreadFacts DEF RunSync
<1> QED
  BY <1>1, <1>2 DEF LinkInv

LEMMA ReturnKeeps ==
  ASSUME LinkInv, NEW t \in Tasks, Return(t)
  PROVE  LinkInv'
<1>1. LinkTyped'
  BY DEF LinkInv, LinkTyped, QueuesTyped, ThreadTyped, Return
<1>2. ReceiversMatch'
  BY QueuesUntouched, ThreadFacts DEF Return
<1> QED
  BY <1>1, <1>2 DEF LinkInv

\* The thread and its request join the ends of two queues.
LEMMA TransferKeeps ==
  ASSUME LinkInv, NEW t \in Tasks, NEW call \in Calls, Transfer(t, call)
  PROVE  LinkInv'
<1> DEFINE d == ClientOf[t]
<1>1. d \in Clients
  BY TasksAssumption
<1>2. /\ thread[t].at = "scheduled"
      /\ thread'[t] = Waiting(call)
      /\ thread'[t].at = "waiting" /\ thread'[t].call = call
      /\ \A u \in Tasks \ {t} : thread'[u] = thread[u]
  BY ThreadFacts DEF Transfer, LinkInv, LinkTyped
<1>3. /\ IsSequence(requests[d]) /\ IsSequence(receivers[d])
      /\ requests'[d] = Append(requests[d], OnWire(call))
      /\ receivers'[d] = Append(receivers[d], t)
      /\ responses'[d] = responses[d] /\ responses' = responses
      /\ serving' = serving
      /\ \A c \in Clients \ {d} : /\ requests'[c] = requests[c]
                                  /\ receivers'[c] = receivers[c]
  BY <1>1, ReceiversSequence
     DEF Transfer, Await, LinkInv, LinkTyped, QueuesTyped
<1>4. /\ Len(requests'[d]) = Len(requests[d]) + 1
      /\ \A k \in 1 .. Len(requests[d]) : requests'[d][k] = requests[d][k]
      /\ requests'[d][Len(requests[d]) + 1] = OnWire(call)
      /\ IsSequence(requests'[d])
  BY <1>3, AppendFacts
<1>5. /\ Len(receivers'[d]) = Len(receivers[d]) + 1
      /\ \A k \in 1 .. Len(receivers[d]) : receivers'[d][k] = receivers[d][k]
      /\ receivers'[d][Len(receivers[d]) + 1] = t
  BY <1>3, AppendFacts
<1>6. /\ Len(requests[d]) \in Nat /\ Len(responses[d]) \in Nat
      /\ Len(receivers[d]) \in Nat
  BY <1>1, Lengths DEF LinkInv, LinkTyped
<1>7. WaitOnce(d) /\ MessagesMatch(d)
  BY <1>1 DEF LinkInv, ReceiversMatch
<1>8. LinkTyped'
  <2>1. QueuesTyped'
    <3>1. receivers' \in [Clients -> Seq(Tasks)]
      <4>1. receivers'[d] \in Seq(Tasks)
        BY <1>1, <1>3, AppendProperties DEF LinkInv, LinkTyped, QueuesTyped
      <4> QED
        BY <1>1, <1>3, <4>1 DEF Transfer, Await, LinkInv, LinkTyped, QueuesTyped
    <3>2. \A c \in Clients : IsSequence(requests'[c]) /\ IsSequence(responses'[c])
      BY <1>3, <1>4 DEF LinkInv, LinkTyped, QueuesTyped
    <3>3. DOMAIN requests' = Clients /\ DOMAIN responses' = Clients
      BY DEF Transfer, LinkInv, LinkTyped, QueuesTyped
    <3> QED
      BY <3>1, <3>2, <3>3 DEF QueuesTyped, IsSequence
  <2>2. \A u \in Tasks : ThreadTyped(u)'
    BY <1>2 DEF LinkInv, LinkTyped, ThreadTyped
  <2> QED
    BY <2>1, <2>2 DEF LinkInv, LinkTyped, Transfer
<1>9. WaitOnce(d)'
  <2>1. t \notin Receivers(d)
    BY <1>2, <1>7 DEF WaitOnce
  <2>2. Receivers(d)' = Receivers(d) \cup {t}
    <3>1. 1 .. Len(receivers'[d])
            = (1 .. Len(receivers[d])) \cup {Len(receivers[d]) + 1}
      BY <1>5, <1>6
    <3> QED
      BY <1>5, <3>1 DEF Receivers
  <2>3. Receivers(d)'
          = {u \in Tasks : ClientOf[u] = d /\ thread'[u].at = "waiting"}
    BY <1>2, <1>7, <2>2 DEF WaitOnce
  <2>4. ASSUME NEW i \in 1 .. Len(receivers'[d]), NEW j \in 1 .. Len(receivers'[d]),
               receivers'[d][i] = receivers'[d][j]
        PROVE  i = j
    <3>1. \A k \in 1 .. Len(receivers[d]) : receivers[d][k] # t
      BY <2>1 DEF Receivers
    <3>2. /\ i \in 1 .. Len(receivers[d]) \/ i = Len(receivers[d]) + 1
          /\ j \in 1 .. Len(receivers[d]) \/ j = Len(receivers[d]) + 1
      BY <1>5, <1>6
    <3>3. CASE i \in 1 .. Len(receivers[d]) /\ j \in 1 .. Len(receivers[d])
      BY <1>5, <1>7, <2>4, <3>3 DEF WaitOnce
    <3> QED
      BY <1>5, <2>4, <3>1, <3>2, <3>3
  <2> QED
    BY <2>3, <2>4 DEF WaitOnce
<1>10. MessagesMatch(d)'
  <2>1. /\ Len(responses[d]) + Len(requests[d]) <= Len(receivers[d])
        /\ serving => Len(responses[d]) + Len(requests[d]) = Len(receivers[d])
    BY <1>7 DEF MessagesMatch
  <2>2. /\ Len(responses'[d]) + Len(requests'[d]) <= Len(receivers'[d])
        /\ serving' => Len(responses'[d]) + Len(requests'[d]) = Len(receivers'[d])
    <3>1. Len(responses'[d]) + Len(requests'[d]) <= Len(receivers'[d])
      BY <1>3, <1>4, <1>5, <1>6, <2>1, OneMore
    <3>2. ASSUME serving'
          PROVE  Len(responses'[d]) + Len(requests'[d]) = Len(receivers'[d])
      <4>1. Len(responses[d]) + Len(requests[d]) = Len(receivers[d])
        BY <1>3, <2>1, <3>2
      <4>2. Len(responses[d]) + (Len(requests[d]) + 1) = Len(receivers[d]) + 1
        BY <1>6, <4>1, OneMoreEach, ZenonT(30)
      <4>3. /\ Len(responses'[d]) = Len(responses[d])
            /\ Len(requests'[d]) = Len(requests[d]) + 1
            /\ Len(receivers'[d]) = Len(receivers[d]) + 1
        BY <1>3, <1>4, <1>5
      <4> QED
        BY <4>2, <4>3
    <3> QED
      BY <3>1, <3>2
  <2>3. ASSUME serving', NEW k \in 1 .. Len(requests'[d])
        PROVE  requests'[d][k] =
                 OnWire(thread'[receivers'[d][Len(responses'[d]) + k]].call)
    <3>1. CASE k \in 1 .. Len(requests[d])
      <4> DEFINE u == receivers[d][Len(responses[d]) + k]
      <4>1. u \in Receivers(d) /\ Len(responses[d]) + k \in 1 .. Len(receivers[d])
        BY <1>1, <3>1, PlaceOfRequest
      <4>2. receivers'[d][Len(responses'[d]) + k] = u
        BY <1>3, <1>5, <4>1
      <4>3. thread'[u] = thread[u]
        BY <1>2, <1>7, <4>1 DEF WaitOnce
      <4>4. requests[d][k] = OnWire(thread[u].call)
        BY <1>3, <1>7, <2>3, <3>1 DEF MessagesMatch
      <4> QED
        BY <1>4, <3>1, <4>2, <4>3, <4>4
    <3>2. CASE k = Len(requests[d]) + 1
      <4>0. Len(responses[d]) + Len(requests[d]) = Len(receivers[d])
        BY <1>3, <2>1, <2>3
      <4>1. Len(responses'[d]) + k = Len(receivers[d]) + 1
        BY <1>3, <1>6, <3>2, <4>0, OneMoreEach
      <4> QED
        BY <1>2, <1>4, <1>5, <3>2, <4>1
    <3> QED
      BY <1>4, <1>6, <3>1, <3>2
  <2> QED
    BY <2>2, <2>3 DEF MessagesMatch
<1>11. ASSUME NEW c \in Clients, c # d PROVE WaitOnce(c)' /\ MessagesMatch(c)'
  <2>1. WaitersKept(c)
    BY <1>2, <1>11 DEF WaitersKept
  <2> QED
    BY <1>3, <1>11, <2>1, ClientUntouched
<1> QED
  BY <1>8, <1>9, <1>10, <1>11 DEF LinkInv, ReceiversMatch

\* The server takes the first request of client c off its queue.
LEMMA ReceiveFacts ==
  ASSUME LinkInv, NEW c \in Clients, Receive(c)
  PROVE  /\ IsSequence(requests'[c])
         /\ Len(requests[c]) >= 1
         /\ Len(requests'[c]) = Len(requests[c]) - 1
         /\ \A k \in 1 .. Len(requests[c]) - 1 :
              requests'[c][k] = requests[c][k + 1]
         /\ Head(requests[c]) = requests[c][1]
         /\ DOMAIN requests' = Clients
         /\ \A d \in Clients \ {c} : requests'[d] = requests[d]
<1>1. IsSequence(requests[c]) /\ requests[c] # << >>
  BY DEF Receive, LinkInv, LinkTyped, QueuesTyped
<1>2. requests'[c] = Tail(requests[c])
  BY DEF Receive, LinkInv, LinkTyped, QueuesTyped
<1>3. /\ DOMAIN requests' = Clients
      /\ \A d \in Clients \ {c} : requests'[d] = requests[d]
  BY DEF Receive, LinkInv, LinkTyped, QueuesTyped
<1> QED
  BY <1>1, <1>2, <1>3, TailFacts

\* The first request becomes the last response; its thread stays in place.
LEMMA ServeKeeps ==
  ASSUME LinkInv, NEW c \in Clients, Serve(c)
  PROVE  LinkInv'
<1> DEFINE response == Answer(model, Head(requests[c])).response
<1>1. /\ serving /\ serving' = serving /\ thread' = thread
      /\ receivers' = receivers
      /\ Receive(c)
  BY DEF Serve, Receive
<1>2. /\ IsSequence(responses[c])
      /\ responses'[c] = Append(responses[c], response)
      /\ DOMAIN responses' = Clients
      /\ \A d \in Clients \ {c} : responses'[d] = responses[d]
  BY DEF Serve, Respond, LinkInv, LinkTyped, QueuesTyped
<1>3. /\ IsSequence(responses'[c])
      /\ Len(responses'[c]) = Len(responses[c]) + 1
  BY <1>2, AppendFacts
<1>4. LinkTyped'
  <2>1. \A d \in Clients : IsSequence(requests'[d]) /\ IsSequence(responses'[d])
    BY <1>1, <1>2, <1>3, ReceiveFacts DEF LinkInv, LinkTyped, QueuesTyped
  <2>2. QueuesTyped'
    BY <1>1, <1>2, <2>1, ReceiveFacts
       DEF LinkInv, LinkTyped, QueuesTyped, IsSequence
  <2>3. \A t \in Tasks : ThreadTyped(t)'
    BY <1>1 DEF LinkInv, LinkTyped, ThreadTyped
  <2> QED
    BY <1>1, <2>2, <2>3 DEF LinkInv, LinkTyped
<1>5. WaitOnce(c)'
  BY <1>1 DEF LinkInv, ReceiversMatch, WaitOnce, Receivers
<1>6. MessagesMatch(c)'
  <2>1. MessagesMatch(c)
    BY DEF LinkInv, ReceiversMatch
  <2>2. Len(responses[c]) + Len(requests[c]) = Len(receivers[c])
    BY <1>1, <2>1 DEF MessagesMatch
  <2>3. /\ Len(requests[c]) \in Nat /\ Len(responses[c]) \in Nat
        /\ Len(receivers[c]) \in Nat
    BY Lengths DEF LinkInv, LinkTyped
  <2>4. Len(requests[c]) >= 1 /\ Len(requests'[c]) = Len(requests[c]) - 1
    BY <1>1, ReceiveFacts
  <2>5. /\ Len(responses'[c]) + Len(requests'[c]) <= Len(receivers'[c])
        /\ Len(responses'[c]) + Len(requests'[c]) = Len(receivers'[c])
    <3>1. /\ (Len(responses[c]) + 1) + (Len(requests[c]) - 1) = Len(receivers[c])
          /\ (Len(responses[c]) + 1) + (Len(requests[c]) - 1) <= Len(receivers[c])
      BY <2>2, <2>3, <2>4, OneServed
    <3> QED
      BY <1>1, <1>3, <2>4, <3>1
  <2>6. ASSUME NEW k \in 1 .. Len(requests'[c])
        PROVE  requests'[c][k] =
                 OnWire(thread'[receivers'[c][Len(responses'[c]) + k]].call)
    <3>1. k \in 1 .. (Len(requests[c]) - 1)
      BY <2>4
    <3>2. /\ k + 1 \in 1 .. Len(requests[c])
          /\ (Len(responses[c]) + 1) + k = Len(responses[c]) + (k + 1)
      BY <2>3, <3>1, NextPlace
    <3>3. requests'[c][k] = requests[c][k + 1]
      BY <1>1, <3>1, ReceiveFacts
    <3>4. requests[c][k + 1] =
            OnWire(thread[receivers[c][Len(responses[c]) + (k + 1)]].call)
      BY <1>1, <2>1, <3>2 DEF MessagesMatch
    <3> QED
      BY <1>1, <1>3, <3>2, <3>3, <3>4
  <2> QED
    BY <2>5, <2>6 DEF MessagesMatch
<1>7. ASSUME NEW d \in Clients, d # c PROVE WaitOnce(d)' /\ MessagesMatch(d)'
  <2>1. WaitersKept(d)
    BY <1>1 DEF WaitersKept
  <2>2. requests'[d] = requests[d] /\ responses'[d] = responses[d]
    BY <1>1, <1>2, <1>7, ReceiveFacts
  <2> QED
    BY <1>1, <2>1, <2>2, ClientUntouched
<1> QED
  BY <1>4, <1>5, <1>6, <1>7 DEF LinkInv, ReceiversMatch

\* Once the server task has ended only the order of waiting remains.
LEMMA ServerFailsKeeps ==
  ASSUME LinkInv, NEW c \in Clients, ServerFails(c)
  PROVE  LinkInv'
<1>1. /\ serving' = FALSE /\ thread' = thread
      /\ receivers' = receivers /\ responses' = responses
      /\ Receive(c)
  BY DEF ServerFails
<1>2. LinkTyped'
  <2>1. \A d \in Clients : IsSequence(requests'[d]) /\ IsSequence(responses'[d])
    BY <1>1, ReceiveFacts DEF LinkInv, LinkTyped, QueuesTyped
  <2>2. QueuesTyped'
    BY <1>1, <2>1, ReceiveFacts
       DEF LinkInv, LinkTyped, QueuesTyped, IsSequence
  <2>3. \A t \in Tasks : ThreadTyped(t)'
    BY <1>1 DEF LinkInv, LinkTyped, ThreadTyped
  <2> QED
    BY <1>1, <2>2, <2>3 DEF LinkInv, LinkTyped
<1>3. ASSUME NEW d \in Clients PROVE WaitOnce(d)' /\ MessagesMatch(d)'
  <2>1. WaitOnce(d)'
    BY <1>1 DEF LinkInv, ReceiversMatch, WaitOnce, Receivers
  <2>2. Len(responses[d]) + Len(requests[d]) <= Len(receivers[d])
    BY DEF LinkInv, ReceiversMatch, MessagesMatch
  <2>3. Len(responses'[d]) + Len(requests'[d]) <= Len(receivers'[d])
    <3>1. CASE d = c
      <4>1. Len(responses[c]) + (Len(requests[c]) - 1) <= Len(receivers[c])
        BY <1>1, <2>2, <3>1, Lengths, ReceiveFacts, OneLost
           DEF LinkInv, LinkTyped
      <4> QED
        BY <1>1, <3>1, <4>1, ReceiveFacts
    <3>2. CASE d # c
      BY <1>1, <2>2, <3>2, ReceiveFacts
    <3> QED
      BY <3>1, <3>2
  <2> QED
    BY <1>1, <2>1, <2>3 DEF MessagesMatch
<1> QED
  BY <1>2, <1>3 DEF LinkInv, ReceiversMatch

\* The coroutine that has waited longest gets the first response and leaves.
LEMMA GetResponseFacts ==
  ASSUME LinkInv, NEW c \in Clients, GetResponse(c)
  PROVE  LET head == receivers[c][1]
         IN /\ head \in Tasks /\ head \in Receivers(c)
            /\ Len(responses[c]) >= 1 /\ Len(receivers[c]) >= 1
            /\ IsSequence(responses'[c])
            /\ Len(responses'[c]) = Len(responses[c]) - 1
            /\ receivers'[c] \in Seq(Tasks)
            /\ Len(receivers'[c]) = Len(receivers[c]) - 1
            /\ \A i \in 1 .. Len(receivers[c]) - 1 :
                 receivers'[c][i] = receivers[c][i + 1]
            /\ thread' = [thread EXCEPT ![head] =
                            Returned(@.call, Head(responses[c]))]
<1>1. /\ IsSequence(responses[c]) /\ responses[c] # << >>
      /\ IsSequence(receivers[c]) /\ receivers[c] # << >>
      /\ receivers[c] \in Seq(Tasks)
  BY ReceiversSequence DEF GetResponse, LinkInv, LinkTyped, QueuesTyped
<1>2. /\ responses'[c] = Tail(responses[c])
      /\ receivers'[c] = Tail(receivers[c])
  BY DEF GetResponse, LinkInv, LinkTyped, QueuesTyped
<1>3. /\ Len(receivers[c]) >= 1 /\ Head(receivers[c]) = receivers[c][1]
      /\ Len(receivers[c]) \in Nat
  BY <1>1, TailFacts, SequenceFacts
<1>4. 1 \in 1 .. Len(receivers[c])
  BY <1>3
<1>5. receivers[c][1] \in Tasks /\ receivers[c][1] \in Receivers(c)
  BY <1>4, ReceiversSequence DEF Receivers, LinkInv, LinkTyped
<1>6. receivers'[c] \in Seq(Tasks)
  BY <1>1, <1>2, HeadTailProperties
<1>7. /\ IsSequence(responses'[c])
      /\ Len(responses[c]) >= 1
      /\ Len(responses'[c]) = Len(responses[c]) - 1
      /\ Len(receivers'[c]) = Len(receivers[c]) - 1
      /\ \A i \in 1 .. Len(receivers[c]) - 1 :
           receivers'[c][i] = receivers[c][i + 1]
  BY <1>1, <1>2, TailFacts
<1>8. thread' = [thread EXCEPT ![receivers[c][1]] =
                   Returned(@.call, Head(responses[c]))]
  BY <1>3 DEF GetResponse
<1> QED
  BY <1>3, <1>5, <1>6, <1>7, <1>8

LEMMA GetResponseKeeps ==
  ASSUME LinkInv, NEW c \in Clients, GetResponse(c)
  PROVE  LinkInv'
<1>0. PICK head : head = receivers[c][1]
  OBVIOUS
<1> DEFINE answer == Returned(thread[head].call, Head(responses[c]))
<1>1. /\ serving' = serving /\ requests' = requests
      /\ DOMAIN responses' = Clients /\ DOMAIN receivers' = Clients
      /\ \A d \in Clients \ {c} : /\ responses'[d] = responses[d]
                                  /\ receivers'[d] = receivers[d]
  BY DEF GetResponse, LinkInv, LinkTyped, QueuesTyped
<1>2. head \in Tasks /\ head \in Receivers(c)
  BY <1>0, GetResponseFacts
<1>3. WaitOnce(c) /\ MessagesMatch(c)
  BY DEF LinkInv, ReceiversMatch
<1>4. ClientOf[head] = c /\ thread[head].at = "waiting"
  BY <1>2, <1>3 DEF WaitOnce
<1>5. /\ DOMAIN thread' = Tasks
      /\ thread'[head] = answer /\ thread'[head].at = "returned"
      /\ \A u \in Tasks \ {head} : thread'[u] = thread[u]
  BY <1>0, <1>2, GetResponseFacts, ThreadFacts DEF LinkInv, LinkTyped
<1>6. LinkTyped'
  <2>1. ThreadTyped(head)'
    <3>1. ThreadTyped(head)
      BY <1>2 DEF LinkInv, LinkTyped
    <3>2. PICK call \in Calls : thread[head] = Waiting(call)
      <4>1. thread[head] # Idle
        BY <1>4, ThreadFacts
      <4>2. \A call \in Calls : thread[head] # Scheduled(call)
        BY <1>4, ThreadFacts
      <4>3. \A call \in Calls :
              thread[head] # Returned(call, thread[head].response)
        BY <1>4, ThreadFacts
      <4> QED
        BY <3>1, <4>1, <4>2, <4>3 DEF ThreadTyped
    <3>3. thread'[head] = Returned(call, Head(responses[c]))
      BY <1>5, <3>2, ThreadFacts
    <3>4. thread'[head].response = Head(responses[c])
      BY <3>3, ThreadFacts
    <3> QED
      BY <3>3, <3>4 DEF ThreadTyped, Returned
  <2>2. ASSUME NEW u \in Tasks, u # head PROVE ThreadTyped(u)'
    <3>1. ThreadTyped(u) /\ thread'[u] = thread[u]
      BY <1>5, <2>2 DEF LinkInv, LinkTyped
    <3> QED
      BY <3>1 DEF ThreadTyped, Idle, Scheduled, Waiting, Returned
  <2>3. \A d \in Clients : IsSequence(requests'[d]) /\ IsSequence(responses'[d])
    BY <1>1, GetResponseFacts DEF LinkInv, LinkTyped, QueuesTyped
  <2>4. receivers' \in [Clients -> Seq(Tasks)]
    <3>1. \A d \in Clients : receivers'[d] \in Seq(Tasks)
      BY <1>1, GetResponseFacts DEF LinkInv, LinkTyped, QueuesTyped
    <3>2. receivers' = [d \in Clients |-> receivers'[d]]
      BY DEF GetResponse, LinkInv, LinkTyped, QueuesTyped
    <3> QED
      BY <3>1, <3>2
  <2>5. DOMAIN requests' = Clients
    BY <1>1 DEF LinkInv, LinkTyped, QueuesTyped
  <2>6. QueuesTyped'
    BY <1>1, <2>3, <2>4, <2>5 DEF QueuesTyped, IsSequence
  <2> QED
    BY <1>1, <1>5, <2>1, <2>2, <2>6 DEF LinkInv, LinkTyped
<1>7. /\ Len(requests[c]) \in Nat /\ Len(responses[c]) \in Nat
      /\ Len(receivers[c]) \in Nat
      /\ Len(responses[c]) >= 1 /\ Len(receivers[c]) >= 1
      /\ Len(responses'[c]) = Len(responses[c]) - 1
      /\ Len(receivers'[c]) = Len(receivers[c]) - 1
  BY Lengths, GetResponseFacts DEF LinkInv, LinkTyped
<1>8. \A i \in 1 .. Len(receivers[c]) - 1 :
        receivers'[c][i] = receivers[c][i + 1]
  BY GetResponseFacts
<1>9. \A i \in 1 .. Len(receivers[c]) - 1 : i + 1 \in 2 .. Len(receivers[c])
  BY <1>7
<1>10. WaitOnce(c)'
  <2>1. ASSUME NEW i \in 1 .. Len(receivers'[c]), NEW j \in 1 .. Len(receivers'[c]),
               receivers'[c][i] = receivers'[c][j]
        PROVE  i = j
    <3>1. /\ i \in 1 .. Len(receivers[c]) - 1 /\ j \in 1 .. Len(receivers[c]) - 1
      BY <1>7
    <3>2. receivers[c][i + 1] = receivers[c][j + 1]
      BY <1>8, <2>1, <3>1
    <3>3. i + 1 \in 1 .. Len(receivers[c]) /\ j + 1 \in 1 .. Len(receivers[c])
      BY <1>7, <3>1
    <3>4. i + 1 = j + 1
      BY <1>3, <3>2, <3>3 DEF WaitOnce
    <3> QED
      BY <3>1, <3>4
  <2>2. Receivers(c)' = Receivers(c) \ {head}
    <3>1. ASSUME NEW i \in 1 .. Len(receivers'[c])
          PROVE  receivers'[c][i] \in Receivers(c) \ {head}
      <4>1. i \in 1 .. Len(receivers[c]) - 1
        BY <1>7
      <4>2. i + 1 \in 1 .. Len(receivers[c]) /\ i + 1 # 1 /\ 1 \in 1 .. Len(receivers[c])
        BY <1>7, <4>1
      <4>3. receivers[c][i + 1] # receivers[c][1]
        BY <1>3, <4>2 DEF WaitOnce
      <4> QED
        BY <1>0, <1>8, <4>1, <4>2, <4>3 DEF Receivers
    <3>2. ASSUME NEW j \in 1 .. Len(receivers[c]), receivers[c][j] # head
          PROVE  receivers[c][j] \in Receivers(c)'
      <4>1. j # 1
        BY <1>0, <3>2
      <4>2. j - 1 \in 1 .. Len(receivers[c]) - 1 /\ (j - 1) + 1 = j
        BY <1>7, <4>1
      <4>3. j - 1 \in 1 .. Len(receivers'[c])
        BY <1>7, <4>2
      <4>4. receivers'[c][j - 1] = receivers[c][j]
        BY <1>8, <4>2
      <4> QED
        BY <4>3, <4>4 DEF Receivers
    <3> QED
      BY <3>1, <3>2 DEF Receivers
  <2>3. Receivers(c)'
          = {u \in Tasks : ClientOf[u] = c /\ thread'[u].at = "waiting"}
    BY <1>2, <1>3, <1>5, <2>2 DEF WaitOnce
  <2> QED
    BY <2>1, <2>3 DEF WaitOnce
<1>11. MessagesMatch(c)'
  <2>1. Len(responses[c]) + Len(requests[c]) <= Len(receivers[c])
    BY <1>3 DEF MessagesMatch
  <2>2. Len(responses'[c]) + Len(requests'[c]) <= Len(receivers'[c])
    <3>1. (Len(responses[c]) - 1) + Len(requests[c]) <= Len(receivers[c]) - 1
      BY <1>7, <2>1, OneDelivered
    <3> QED
      BY <1>1, <1>7, <3>1
  <2>3. ASSUME serving'
        PROVE  Len(responses'[c]) + Len(requests'[c]) = Len(receivers'[c])
    <3>1. Len(responses[c]) + Len(requests[c]) = Len(receivers[c])
      BY <1>1, <1>3, <2>3 DEF MessagesMatch
    <3>2. (Len(responses[c]) - 1) + Len(requests[c]) = Len(receivers[c]) - 1
      BY <1>7, <3>1, OneDeliveredEach
    <3> QED
      BY <1>1, <1>7, <3>2
  <2>4. ASSUME serving', NEW k \in 1 .. Len(requests'[c])
        PROVE  requests'[c][k] =
                 OnWire(thread'[receivers'[c][Len(responses'[c]) + k]].call)
    <3> DEFINE place == (Len(responses[c]) - 1) + k
               u == receivers[c][Len(responses[c]) + k]
    <3>1. k \in 1 .. Len(requests[c])
      BY <1>1
    <3>2. /\ place \in 1 .. (Len(receivers[c]) - 1)
          /\ place + 1 = Len(responses[c]) + k
          /\ Len(responses[c]) + k # 1
      BY <1>7, <2>1, <3>1, PlaceBefore
    <3>3. receivers'[c][place] = u
      BY <1>8, <3>2
    <3>4. u \in Receivers(c) /\ Len(responses[c]) + k \in 1 .. Len(receivers[c])
      BY <3>1, PlaceOfRequest
    <3>5. u # head
      <4>1. 1 \in 1 .. Len(receivers[c])
        BY <1>7
      <4> QED
        BY <1>0, <1>3, <3>2, <3>4, <4>1 DEF WaitOnce
    <3>6. thread'[u] = thread[u]
      BY <1>3, <1>5, <3>4, <3>5 DEF WaitOnce
    <3>7. requests[c][k] = OnWire(thread[u].call)
      BY <1>1, <1>3, <2>4, <3>1 DEF MessagesMatch
    <3> QED
      BY <1>1, <1>7, <3>3, <3>6, <3>7
  <2> QED
    BY <2>2, <2>3, <2>4 DEF MessagesMatch
<1>12. ASSUME NEW d \in Clients, d # c PROVE WaitOnce(d)' /\ MessagesMatch(d)'
  <2>1. WaitersKept(d)
    BY <1>4, <1>5, <1>12 DEF WaitersKept
  <2> QED
    BY <1>1, <1>12, <2>1, ClientUntouched
<1> QED
  BY <1>6, <1>10, <1>11, <1>12 DEF LinkInv, ReceiversMatch

LEMMA StutterKeeps == LinkInv /\ UNCHANGED vars => LinkInv'
<1> SUFFICES ASSUME LinkInv, UNCHANGED vars PROVE LinkInv'
  OBVIOUS
<1>1. LinkTyped'
  BY ZenonT(30) DEF LinkInv, LinkTyped, ThreadTyped, QueuesTyped, IsSequence, vars
<1>2. ASSUME NEW c \in Clients PROVE WaitOnce(c)' /\ MessagesMatch(c)'
  <2>1. WaitersKept(c)
    BY DEF WaitersKept, vars
  <2> QED
    BY <2>1, ClientUntouched DEF vars
<1> QED
  BY <1>1, <1>2 DEF LinkInv, ReceiversMatch

LEMMA LinkInvariant == Spec => []LinkInv
<1>1. LinkInv /\ [Next]_vars => LinkInv'
  <2> SUFFICES ASSUME LinkInv, [Next]_vars PROVE LinkInv'
    OBVIOUS
  <2>1. ASSUME NEW t \in Tasks, NEW call \in Calls, RunSync(t, call)
        PROVE  LinkInv'
    BY <2>1, RunSyncKeeps
  <2>2. ASSUME NEW t \in Tasks, NEW call \in Calls, Transfer(t, call)
        PROVE  LinkInv'
    BY <2>2, TransferKeeps
  <2>3. ASSUME NEW c \in Clients, Serve(c) PROVE LinkInv'
    BY <2>3, ServeKeeps
  <2>4. ASSUME NEW c \in Clients, ServerFails(c) PROVE LinkInv'
    BY <2>4, ServerFailsKeeps
  <2>5. ASSUME NEW c \in Clients, GetResponse(c) PROVE LinkInv'
    BY <2>5, GetResponseKeeps
  <2>6. ASSUME NEW t \in Tasks, Return(t) PROVE LinkInv'
    BY <2>6, ReturnKeeps
  <2>7. CASE UNCHANGED vars
    BY <2>7, StutterKeeps
  <2> QED
    BY <2>1, <2>2, <2>3, <2>4, <2>5, <2>6, <2>7 DEF Next
<1> QED
  BY <1>1, InitLinkInv, PTL DEF Spec

\* Whatever the calls and however many threads share a client, a response on
\* its way can only reach the thread that made the call it answers.
THEOREM ResponsesReachCallers == Spec => []ReceiversMatch
<1>1. LinkInv => ReceiversMatch
  BY DEF LinkInv
<1> QED
  BY <1>1, LinkInvariant, PTL

-----------------------------------------------------------------------------
(* The type invariant.  That the emulator's model stays one, and that      *)
(* responses are messages, is a matter of what ProcessTransaction computes *)
(* and of what the calls put on the wire.                                  *)

\* What a thread's state says of its call and response, from the type.
ThreadOK(t) ==
  \/ thread[t] = Idle
  \/ \E call \in Calls : thread[t] \in {Scheduled(call), Waiting(call)}
  \/ /\ thread[t].at = "returned"
     /\ thread[t].call \in Calls
     /\ thread[t].response \in Messages

LEMMA OnWireIsMessage ==
  ASSUME NEW call \in Calls
  PROVE  /\ OnWire(call) \in Messages /\ OnWire(call) # << >>
<1> DEFINE X == Int \cup {NotInteger}
           Y == Int \cup {Sector, NotInteger}
<1>1. OnWire(call) \in Seq(X) /\ OnWire(call) # << >>
  BY CallsAssumption, OnWireIsSequence
<1>2. X \subseteq Y
  OBVIOUS
<1> HIDE DEF X, Y
<1>3. Seq(X) \subseteq Seq(Y)
  BY <1>2, SeqMonotonic
<1> QED
  BY <1>1, <1>3 DEF Messages, Y

\* The request the server serves next is a call's, while it serves.
LEMMA FirstRequest ==
  ASSUME LinkInv, serving, NEW c \in Clients, requests[c] # << >>
  PROVE  \E call \in Calls : Head(requests[c]) = OnWire(call)
<1>1. IsSequence(requests[c])
  BY DEF LinkInv, LinkTyped, QueuesTyped
<1>2. Len(requests[c]) >= 1 /\ Head(requests[c]) = requests[c][1]
  BY <1>1, TailFacts
<1>3. 1 \in 1 .. Len(requests[c])
  BY <1>1, <1>2, SequenceFacts
<1> DEFINE t == receivers[c][Len(responses[c]) + 1]
<1>4. WaitOnce(c) /\ MessagesMatch(c)
  BY DEF LinkInv, ReceiversMatch
<1>5. t \in Tasks /\ thread[t].at = "waiting"
  BY <1>3, <1>4, PlaceOfRequest DEF WaitOnce
<1>6. requests[c][1] = OnWire(thread[t].call)
  BY <1>3, <1>4 DEF MessagesMatch
<1> HIDE DEF t
<1>7. thread[t].call \in Calls
  BY <1>5, ThreadFacts DEF LinkInv, LinkTyped, ThreadTyped
<1> QED
  BY <1>2, <1>6, <1>7

LEMMA AnswerIsMessage ==
  ASSUME NEW m \in RegisterModels, NEW call \in Calls
  PROVE  /\ Answer(m, OnWire(call)).model \in RegisterModels
         /\ Answer(m, OnWire(call)).response \in Messages
<1> DEFINE X == Int \cup {NotInteger}
           Y == Int \cup {Sector, NotInteger}
           Z == X \cup Byte
           w == OnWire(call)
           answer == Answer(m, w)
<1>1. w \in Seq(X) /\ w # << >>
  BY CallsAssumption, OnWireIsSequence
<1>2. Z \subseteq Y
  BY Bytes DEF Byte, ByteModulus
<1> HIDE DEF X, Y, w
<1>3. answer.model \in RegisterModels /\ answer.response \in Seq(Z)
  BY <1>1, AnswerProperties
<1> HIDE DEF Z, answer
<1>4. Seq(Z) \subseteq Seq(Y)
  BY <1>2, SeqMonotonic
<1>5. answer.response \in Messages
  BY <1>3, <1>4 DEF Messages, Y
<1> QED
  BY <1>3, <1>5 DEF answer, w

LEMMA InitTypeOK == Init => TypeOK
<1> SUFFICES ASSUME Init PROVE TypeOK
  OBVIOUS
<1>1. model \in RegisterModels
  BY NewModelTyped DEF Init
<1>2. calls_made \in 0 .. MaxCalls
  BY TasksAssumption DEF Init
<1>3. << >> \in Seq(Messages) /\ << >> \in Seq(Tasks)
  OBVIOUS
<1> QED
  BY <1>1, <1>2, <1>3 DEF Init, TypeOK

\* One queue of a set of them changes.
LEMMA QueueChanges ==
  ASSUME NEW X, NEW C, NEW f \in [C -> Seq(X)], NEW c \in C, NEW q \in Seq(X)
  PROVE  [f EXCEPT ![c] = q] \in [C -> Seq(X)]
OBVIOUS

LEMMA ThreadChanges ==
  ASSUME TypeOK, DOMAIN thread = Tasks, NEW t \in Tasks, NEW state,
         thread' = [thread EXCEPT ![t] = state],
         \/ state = Idle
         \/ \E call \in Calls : state \in {Scheduled(call), Waiting(call)}
         \/ /\ state.at = "returned"
            /\ state.call \in Calls
            /\ state.response \in Messages
  PROVE  \A u \in Tasks : ThreadOK(u)'
<1> SUFFICES ASSUME NEW u \in Tasks PROVE ThreadOK(u)'
  OBVIOUS
<1>1. CASE u = t
  <2>1. thread'[u] = state
    BY <1>1
  <2> QED
    BY <2>1 DEF ThreadOK, Idle, Scheduled, Waiting
<1>2. CASE u # t
  <2>1. thread'[u] = thread[u]
    BY <1>2
  <2>2. ThreadOK(u)
    BY DEF TypeOK, ThreadOK
  <2> QED
    BY <2>1, <2>2 DEF ThreadOK, Idle, Scheduled, Waiting
<1> QED
  BY <1>1, <1>2

LEMMA TypeOKParts ==
  /\ TypeOK => \A t \in Tasks : ThreadOK(t)
  /\ TypeOK' <=>
       /\ model' \in RegisterModels
       /\ serving' \in BOOLEAN
       /\ \A t \in Tasks : ThreadOK(t)'
       /\ requests' \in [Clients -> Seq(Messages)]
       /\ responses' \in [Clients -> Seq(Messages)]
       /\ receivers' \in [Clients -> Seq(Tasks)]
       /\ calls_made' \in 0 .. MaxCalls
BY DEF TypeOK, ThreadOK, Idle, Scheduled, Waiting, RegisterModels, Messages,
       ShiftRegisters, SR_CAL, SR_TEST, RegisterAddresses, Byte, ByteModulus

LEMMA TypeOKInductive == TypeOK /\ LinkInv /\ [Next]_vars => TypeOK'
<1> SUFFICES ASSUME TypeOK, LinkInv, [Next]_vars PROVE TypeOK'
  OBVIOUS
<1>0. /\ DOMAIN thread = Tasks
      /\ \A t \in Tasks : ThreadOK(t)
      /\ MaxCalls \in Nat
  BY TypeOKParts, TasksAssumption DEF LinkInv, LinkTyped
<1>1. ASSUME NEW t \in Tasks, NEW call \in Calls, RunSync(t, call)
      PROVE  TypeOK'
  <2>1. \A u \in Tasks : ThreadOK(u)'
    BY <1>0, <1>1, ThreadChanges DEF RunSync
  <2>2. calls_made' \in 0 .. MaxCalls
    BY <1>0, <1>1 DEF RunSync, TypeOK
  <2> QED
    BY <1>1, <2>1, <2>2, TypeOKParts DEF RunSync, TypeOK
<1>2. ASSUME NEW t \in Tasks, NEW call \in Calls, Transfer(t, call)
      PROVE  TypeOK'
  <2>1. \A u \in Tasks : ThreadOK(u)'
    BY <1>0, <1>2, ThreadChanges DEF Transfer
  <2> DEFINE d == ClientOf[t]
             q == Append(requests[d], OnWire(call))
             r == Append(receivers[d], t)
  <2>2. d \in Clients
    BY TasksAssumption
  <2>3. q \in Seq(Messages) /\ r \in Seq(Tasks)
    BY <2>2, OnWireIsMessage, AppendProperties DEF TypeOK
  <2>4. /\ requests' = [requests EXCEPT ![d] = q]
        /\ receivers' = [receivers EXCEPT ![d] = r]
    BY <1>2, <2>2 DEF Transfer, Await
  <2> HIDE DEF d, q, r
  <2>5. /\ requests' \in [Clients -> Seq(Messages)]
        /\ receivers' \in [Clients -> Seq(Tasks)]
    BY <2>2, <2>3, <2>4, QueueChanges DEF TypeOK
  <2> QED
    BY <1>2, <2>1, <2>5, TypeOKParts DEF Transfer, TypeOK
<1>3. ASSUME NEW c \in Clients, Receive(c)
      PROVE  requests' \in [Clients -> Seq(Messages)]
  <2> DEFINE q == Tail(requests[c])
  <2>1. requests[c] \in Seq(Messages) /\ requests[c] # << >>
    BY <1>3 DEF TypeOK, Receive
  <2>2. q \in Seq(Messages)
    BY <2>1, HeadTailProperties
  <2>3. requests' = [requests EXCEPT ![c] = q]
    BY <1>3 DEF Receive
  <2> HIDE DEF q
  <2> QED
    BY <2>2, <2>3, QueueChanges DEF TypeOK
<1>4. ASSUME NEW c \in Clients, Serve(c) PROVE TypeOK'
  <2>1. Receive(c) /\ serving /\ requests[c] # << >>
    BY <1>4 DEF Serve, Receive
  <2>2. PICK call \in Calls : Head(requests[c]) = OnWire(call)
    BY <2>1, FirstRequest
  <2> DEFINE answer == Answer(model, OnWire(call))
             q == Append(responses[c], answer.response)
  <2>3. answer.model \in RegisterModels /\ answer.response \in Messages
    BY AnswerIsMessage DEF TypeOK
  <2>4. /\ model' = answer.model
        /\ responses' = [responses EXCEPT ![c] = q]
    BY <1>4, <2>2 DEF Serve, Respond
  <2> HIDE DEF answer
  <2>5. q \in Seq(Messages)
    BY <2>3, AppendProperties DEF TypeOK
  <2> HIDE DEF q
  <2>6. responses' \in [Clients -> Seq(Messages)]
    BY <2>4, <2>5, QueueChanges DEF TypeOK
  <2>7. \A t \in Tasks : ThreadOK(t)'
    BY <1>0, <1>4 DEF Serve, ThreadOK, Idle, Scheduled, Waiting
  <2> QED
    BY <1>3, <1>4, <2>1, <2>3, <2>4, <2>6, <2>7, TypeOKParts DEF Serve, TypeOK
<1>5. ASSUME NEW c \in Clients, ServerFails(c) PROVE TypeOK'
  <2>1. Receive(c)
    BY <1>5 DEF ServerFails
  <2>2. \A t \in Tasks : ThreadOK(t)'
    BY <1>0, <1>5 DEF ServerFails, ThreadOK, Idle, Scheduled, Waiting
  <2> QED
    BY <1>3, <1>5, <2>1, <2>2, TypeOKParts DEF ServerFails, TypeOK
<1>6. ASSUME NEW c \in Clients, GetResponse(c) PROVE TypeOK'
  <2>0. PICK head : head = receivers[c][1]
    OBVIOUS
  <2> DEFINE response == Head(responses[c])
             state == Returned(thread[head].call, response)
             q == Tail(responses[c])
             r == Tail(receivers[c])
  <2>1. head \in Tasks /\ head \in Receivers(c)
    BY <1>6, <2>0, GetResponseFacts
  <2>2. thread[head].at = "waiting"
    BY <2>1 DEF LinkInv, ReceiversMatch, WaitOnce
  <2>3. thread[head].call \in Calls
    BY <2>1, <2>2, ThreadFacts DEF LinkInv, LinkTyped, ThreadTyped
  <2>4. /\ responses[c] \in Seq(Messages) /\ responses[c] # << >>
        /\ receivers[c] \in Seq(Tasks) /\ receivers[c] # << >>
    BY <1>6 DEF GetResponse, TypeOK
  <2>5. response \in Messages /\ q \in Seq(Messages) /\ r \in Seq(Tasks)
    BY <2>4, HeadTailProperties
  <2>6. thread' = [thread EXCEPT ![head] = state]
    BY <1>0, <1>6, <2>0, <2>1, GetResponseFacts
  <2>7. /\ responses' = [responses EXCEPT ![c] = q]
        /\ receivers' = [receivers EXCEPT ![c] = r]
    BY <1>6 DEF GetResponse
  <2> HIDE DEF q, r, response
  <2>8. /\ state.at = "returned" /\ state.call \in Calls
        /\ state.response \in Messages
    BY <2>3, <2>5, ThreadFacts
  <2> HIDE DEF state
  <2>9. \A u \in Tasks : ThreadOK(u)'
    BY <1>0, <2>1, <2>6, <2>8, ThreadChanges
  <2>10. /\ responses' \in [Clients -> Seq(Messages)]
         /\ receivers' \in [Clients -> Seq(Tasks)]
    BY <2>5, <2>7, QueueChanges DEF TypeOK
  <2> QED
    BY <1>6, <2>9, <2>10, TypeOKParts DEF GetResponse, TypeOK
<1>7. ASSUME NEW t \in Tasks, Return(t) PROVE TypeOK'
  <2>1. \A u \in Tasks : ThreadOK(u)'
    BY <1>0, <1>7, ThreadChanges DEF Return
  <2> QED
    BY <1>7, <2>1, TypeOKParts DEF Return, TypeOK
<1>8. CASE UNCHANGED vars
  <2>1. \A t \in Tasks : ThreadOK(t)'
    BY <1>0, <1>8 DEF vars, ThreadOK, Idle, Scheduled, Waiting
  <2> QED
    BY <1>8, <2>1, TypeOKParts DEF vars, TypeOK
<1> QED
  BY <1>1, <1>2, <1>4, <1>5, <1>6, <1>7, <1>8 DEF Next

\* Threads, queues and the emulator's register model keep their types,
\* whatever the calls put on the wire: the model is one whenever the next
\* transaction meets it, and every response is a message.
THEOREM LinkTypeCorrect == Spec => []TypeOK
<1> QED
  BY InitTypeOK, TypeOKInductive, LinkInvariant, PTL DEF Spec

-----------------------------------------------------------------------------
(* The link implements AtomicService.  The call of a waiting thread takes  *)
(* effect when the server takes its transaction off the queue, which by    *)
(* ReceiversMatch is the one for the first thread still without a          *)
(* response; every other step of the queues is a stutter.                  *)

\* What ServiceTask makes of a thread, by what the thread is doing.
TaskValues ==
  \A t \in Tasks :
    /\ thread[t] = Idle => ServiceTask[t] = Service!Idle
    /\ \A call \in Calls :
         thread[t] = Scheduled(call) => ServiceTask[t] = Service!Called(call)
    /\ \A call \in Calls : \A k \in 1 .. Len(receivers[ClientOf[t]]) :
         /\ thread[t] = Waiting(call)
         /\ receivers[ClientOf[t]][k] = t
         => ServiceTask[t] =
              IF k <= Len(responses[ClientOf[t]])
              THEN Service!Answered(call, responses[ClientOf[t]][k])
              ELSE Service!Called(call)
    /\ \A call \in Calls :
         thread[t] = Returned(call, thread[t].response)
         => ServiceTask[t] = Service!Answered(call, thread[t].response)

LEMMA TaskValuesHold == LinkInv => TaskValues
<1> SUFFICES ASSUME LinkInv, NEW t \in Tasks
    PROVE
      /\ thread[t] = Idle => ServiceTask[t] = Service!Idle
      /\ \A call \in Calls :
           thread[t] = Scheduled(call) => ServiceTask[t] = Service!Called(call)
      /\ \A call \in Calls : \A k \in 1 .. Len(receivers[ClientOf[t]]) :
           /\ thread[t] = Waiting(call)
           /\ receivers[ClientOf[t]][k] = t
           => ServiceTask[t] =
                IF k <= Len(responses[ClientOf[t]])
                THEN Service!Answered(call, responses[ClientOf[t]][k])
                ELSE Service!Called(call)
      /\ \A call \in Calls :
           thread[t] = Returned(call, thread[t].response)
           => ServiceTask[t] = Service!Answered(call, thread[t].response)
  BY DEF TaskValues
<1>1. ASSUME thread[t] = Idle PROVE ServiceTask[t] = Service!Idle
  BY <1>1 DEF ServiceTask, TaskOf, Idle, Service!Idle
<1>2. ASSUME NEW call \in Calls, thread[t] = Scheduled(call)
      PROVE  ServiceTask[t] = Service!Called(call)
  BY <1>2 DEF ServiceTask, TaskOf, Scheduled, CalledTask, Service!Called
<1>3. ASSUME NEW call \in Calls, NEW k \in 1 .. Len(receivers[ClientOf[t]]),
             thread[t] = Waiting(call), receivers[ClientOf[t]][k] = t
      PROVE  ServiceTask[t] =
               IF k <= Len(responses[ClientOf[t]])
               THEN Service!Answered(call, responses[ClientOf[t]][k])
               ELSE Service!Called(call)
  <2>1. ClientOf[t] \in Clients
    BY TasksAssumption
  <2>2. WaitOnce(ClientOf[t])
    BY <2>1 DEF LinkInv, ReceiversMatch
  <2>3. Place(t) = k
    BY <1>3, <2>2 DEF Place, WaitOnce
  <2> QED
    BY <1>3, <2>3
       DEF ServiceTask, TaskOf, Waiting, CalledTask, AnsweredTask,
           Service!Called, Service!Answered
<1>4. ASSUME NEW call \in Calls, thread[t] = Returned(call, thread[t].response)
      PROVE  ServiceTask[t] = Service!Answered(call, thread[t].response)
  BY <1>4, ThreadFacts DEF ServiceTask, TaskOf, AnsweredTask, Service!Answered
<1> QED
  BY <1>1, <1>2, <1>3, <1>4

LEMMA NextTaskValues == LinkInv' => TaskValues'
BY TaskValuesHold, PTL

\* A waiting thread has a call and a place.
LEMMA WaitsAt ==
  ASSUME LinkInv, NEW t \in Tasks, thread[t].at = "waiting"
  PROVE  /\ \E call \in Calls : thread[t] = Waiting(call)
         /\ \E k \in 1 .. Len(receivers[ClientOf[t]]) :
              receivers[ClientOf[t]][k] = t
<1>1. \E call \in Calls : thread[t] = Waiting(call)
  <2>1. ThreadTyped(t)
    BY DEF LinkInv, LinkTyped
  <2>2. /\ thread[t] # Idle
        /\ \A call \in Calls : thread[t] # Scheduled(call)
        /\ \A call \in Calls : thread[t] # Returned(call, thread[t].response)
    BY ThreadFacts
  <2> QED
    BY <2>1, <2>2 DEF ThreadTyped
<1>2. t \in Receivers(ClientOf[t])
  BY TasksAssumption DEF LinkInv, ReceiversMatch, WaitOnce
<1> QED
  BY <1>1, <1>2 DEF Receivers

\* A thread that does not wait, whatever the queues do.
LEMMA TaskNotWaiting ==
  ASSUME LinkInv, LinkInv', NEW u \in Tasks, thread'[u] = thread[u],
         thread[u].at # "waiting"
  PROVE  ServiceTask'[u] = ServiceTask[u]
<1>1. ThreadTyped(u)
  BY DEF LinkInv, LinkTyped
<1>2. \A call \in Calls : thread[u] # Waiting(call)
  BY ThreadFacts
<1>3. CASE thread[u] = Idle
  BY <1>3, TaskValuesHold, NextTaskValues DEF TaskValues
<1>4. ASSUME NEW call \in Calls, thread[u] = Scheduled(call)
      PROVE  ServiceTask'[u] = ServiceTask[u]
  BY <1>4, TaskValuesHold, NextTaskValues DEF TaskValues
<1>5. ASSUME NEW call \in Calls, thread[u] = Returned(call, thread[u].response)
      PROVE  ServiceTask'[u] = ServiceTask[u]
  BY <1>5, TaskValuesHold, NextTaskValues DEF TaskValues
<1> QED
  BY <1>1, <1>2, <1>3, <1>4, <1>5 DEF ThreadTyped

\* A thread whose client's queues do not change.
LEMMA TaskUntouched ==
  ASSUME LinkInv, LinkInv', NEW u \in Tasks, thread'[u] = thread[u],
         receivers'[ClientOf[u]] = receivers[ClientOf[u]],
         responses'[ClientOf[u]] = responses[ClientOf[u]]
  PROVE  ServiceTask'[u] = ServiceTask[u]
<1>1. CASE thread[u].at # "waiting"
  BY <1>1, TaskNotWaiting
<1>2. CASE thread[u].at = "waiting"
  <2>1. PICK call \in Calls : thread[u] = Waiting(call)
    BY <1>2, WaitsAt
  <2>2. PICK k \in 1 .. Len(receivers[ClientOf[u]]) :
          receivers[ClientOf[u]][k] = u
    BY <1>2, WaitsAt
  <2> QED
    BY <2>1, <2>2, TaskValuesHold, NextTaskValues DEF TaskValues
<1> QED
  BY <1>1, <1>2

LEMMA FunctionUpdated ==
  ASSUME NEW f, NEW g, NEW t \in Tasks, NEW value,
         f = [u \in Tasks |-> f[u]], g = [u \in Tasks |-> g[u]],
         g[t] = value, \A u \in Tasks \ {t} : g[u] = f[u]
  PROVE  g = [f EXCEPT ![t] = value]
OBVIOUS

IsTaskFunction == ServiceTask = [u \in Tasks |-> ServiceTask[u]]

LEMMA TaskFunction == IsTaskFunction
BY DEF IsTaskFunction, ServiceTask

LEMMA NextTaskFunction == IsTaskFunction'
BY TaskFunction, PTL

LEMMA TaskUpdated ==
  ASSUME NEW t \in Tasks, NEW value, ServiceTask'[t] = value,
         \A u \in Tasks \ {t} : ServiceTask'[u] = ServiceTask[u]
  PROVE  ServiceTask' = [ServiceTask EXCEPT ![t] = value]
BY TaskFunction, NextTaskFunction, FunctionUpdated DEF IsTaskFunction

LEMMA TaskKept ==
  ASSUME \A u \in Tasks : ServiceTask'[u] = ServiceTask[u]
  PROVE  ServiceTask' = ServiceTask
BY TaskFunction, NextTaskFunction DEF IsTaskFunction

-----------------------------------------------------------------------------
LEMMA InitRefines == Init => Service!Init
BY ThreadFacts DEF Init, Service!Init, ServiceTask, TaskOf, Idle, Service!Idle

LEMMA RunSyncRefines ==
  ASSUME LinkInv, LinkInv', NEW t \in Tasks, NEW call \in Calls, RunSync(t, call)
  PROVE  Service!Call(t, call)
<1>1. /\ thread[t] = Idle /\ thread'[t] = Scheduled(call)
      /\ \A u \in Tasks \ {t} : thread'[u] = thread[u]
      /\ receivers' = receivers /\ responses' = responses /\ model' = model
  BY DEF RunSync, LinkInv, LinkTyped
<1>2. ServiceTask[t] = Service!Idle
  BY <1>1, TaskValuesHold DEF TaskValues
<1>3. ServiceTask'[t] = Service!Called(call)
  BY <1>1, NextTaskValues DEF TaskValues
<1>4. \A u \in Tasks \ {t} : ServiceTask'[u] = ServiceTask[u]
  BY <1>1, TaskUntouched
<1>5. ServiceTask' = [ServiceTask EXCEPT ![t] = Service!Called(call)]
  BY <1>3, <1>4, TaskUpdated
<1> QED
  BY <1>1, <1>2, <1>5 DEF Service!Call

LEMMA ReturnRefines ==
  ASSUME LinkInv, LinkInv', NEW t \in Tasks, Return(t)
  PROVE  Service!Return(t)
<1>1. /\ thread[t].at = "returned" /\ thread'[t] = Idle
      /\ \A u \in Tasks \ {t} : thread'[u] = thread[u]
      /\ receivers' = receivers /\ responses' = responses /\ model' = model
  BY DEF Return, LinkInv, LinkTyped
<1>2. PICK call \in Calls : thread[t] = Returned(call, thread[t].response)
  <2>1. ThreadTyped(t)
    BY DEF LinkInv, LinkTyped
  <2>2. /\ thread[t] # Idle
        /\ \A call \in Calls : thread[t] # Scheduled(call)
        /\ \A call \in Calls : thread[t] # Waiting(call)
    BY <1>1, ThreadFacts
  <2> QED
    BY <2>1, <2>2 DEF ThreadTyped
<1>3. ServiceTask[t] = Service!Answered(call, thread[t].response)
  BY <1>2, TaskValuesHold DEF TaskValues
<1>4. ServiceTask[t].at = "answered"
  BY <1>3 DEF Service!Answered
<1>5. ServiceTask'[t] = Service!Idle
  BY <1>1, NextTaskValues DEF TaskValues
<1>6. \A u \in Tasks \ {t} : ServiceTask'[u] = ServiceTask[u]
  BY <1>1, TaskUntouched
<1>7. ServiceTask' = [ServiceTask EXCEPT ![t] = Service!Idle]
  BY <1>5, <1>6, TaskUpdated
<1> QED
  BY <1>1, <1>4, <1>7 DEF Service!Return

LEMMA BehindResponses ==
  ASSUME NEW m \in Nat, NEW n \in Nat, NEW places \in Nat, m + n <= places
  PROVE  ~(places + 1 <= m)
OBVIOUS

\* The thread's place lies after every response under way.
LEMMA TransferRefines ==
  ASSUME LinkInv, LinkInv', NEW t \in Tasks, NEW call \in Calls, Transfer(t, call)
  PROVE  ServiceTask' = ServiceTask /\ model' = model
<1> DEFINE d == ClientOf[t]
<1>1. d \in Clients
  BY TasksAssumption
<1>2. /\ thread[t] = Scheduled(call) /\ thread'[t] = Waiting(call)
      /\ \A u \in Tasks \ {t} : thread'[u] = thread[u]
      /\ responses' = responses /\ model' = model
      /\ receivers'[d] = Append(receivers[d], t)
      /\ \A c \in Clients \ {d} : receivers'[c] = receivers[c]
  BY <1>1 DEF Transfer, Await, LinkInv, LinkTyped, QueuesTyped
<1>3. /\ Len(receivers'[d]) = Len(receivers[d]) + 1
      /\ \A k \in 1 .. Len(receivers[d]) : receivers'[d][k] = receivers[d][k]
      /\ receivers'[d][Len(receivers[d]) + 1] = t
  BY <1>1, <1>2, ReceiversSequence, AppendFacts DEF LinkInv, LinkTyped
<1>4. /\ Len(receivers[d]) \in Nat /\ Len(responses[d]) \in Nat
      /\ Len(requests[d]) \in Nat
  BY <1>1, Lengths DEF LinkInv, LinkTyped
<1>5. Len(responses[d]) + Len(requests[d]) <= Len(receivers[d])
  BY <1>1 DEF LinkInv, ReceiversMatch, MessagesMatch
<1>6. ServiceTask'[t] = ServiceTask[t]
  <2>1. ServiceTask[t] = Service!Called(call)
    BY <1>2, TaskValuesHold DEF TaskValues
  <2>2. PICK place : place = Len(receivers[d]) + 1
    OBVIOUS
  <2>3. /\ place \in 1 .. Len(receivers'[d])
        /\ receivers'[d][place] = t
        /\ ~(place <= Len(responses'[d]))
    <3>1. place \in 1 .. Len(receivers'[d]) /\ receivers'[d][place] = t
      BY <1>3, <1>4, <2>2
    <3>2. ~(Len(receivers[d]) + 1 <= Len(responses[d]))
      BY <1>4, <1>5, BehindResponses
    <3>3. responses'[d] = responses[d]
      BY <1>2
    <3> QED
      BY <2>2, <3>1, <3>2, <3>3
  <2>4. ServiceTask'[t] = Service!Called(call)
    BY <1>2, <2>3, NextTaskValues DEF TaskValues
  <2> QED
    BY <2>1, <2>4
<1>7. ASSUME NEW u \in Tasks, u # t PROVE ServiceTask'[u] = ServiceTask[u]
  <2>1. thread'[u] = thread[u]
    BY <1>2, <1>7
  <2>2. CASE ClientOf[u] # d
    BY <1>2, <2>1, <2>2, TaskUntouched, TasksAssumption
  <2>3. CASE thread[u].at # "waiting"
    BY <2>1, <2>3, TaskNotWaiting
  <2>4. CASE ClientOf[u] = d /\ thread[u].at = "waiting"
    <3>1. PICK waits \in Calls : thread[u] = Waiting(waits)
      BY <2>4, WaitsAt
    <3>2. PICK k \in 1 .. Len(receivers[d]) : receivers[d][k] = u
      BY <2>4, WaitsAt
    <3>3. k \in 1 .. Len(receivers'[d]) /\ receivers'[d][k] = u
      BY <1>3, <1>4, <3>2
    <3> QED
      BY <1>2, <2>1, <2>4, <3>1, <3>2, <3>3, TaskValuesHold, NextTaskValues, SMTT(30)
         DEF TaskValues
  <2> QED
    BY <2>2, <2>3, <2>4
<1> QED
  BY <1>2, <1>6, <1>7, TaskKept

\* The first request is that of the first thread without a response, and is
\* applied for it.
LEMMA ServeRefines ==
  ASSUME LinkInv, LinkInv', NEW c \in Clients, Serve(c)
  PROVE  \E t \in Tasks : \E call \in Calls : Service!Apply(t, call)
<1>1. /\ serving /\ thread' = thread /\ receivers' = receivers
      /\ Receive(c)
  BY DEF Serve, Receive
<1>2. PICK response : response = Answer(model, Head(requests[c])).response
  OBVIOUS
<1>3. /\ model' = Answer(model, Head(requests[c])).model
      /\ responses'[c] = Append(responses[c], response)
      /\ \A d \in Clients \ {c} : responses'[d] = responses[d]
  BY <1>2 DEF Serve, Respond, LinkInv, LinkTyped, QueuesTyped
<1>4. /\ Len(responses'[c]) = Len(responses[c]) + 1
      /\ \A k \in 1 .. Len(responses[c]) : responses'[c][k] = responses[c][k]
      /\ responses'[c][Len(responses[c]) + 1] = response
  BY <1>3, AppendFacts DEF LinkInv, LinkTyped, QueuesTyped
<1>5. /\ Len(receivers[c]) \in Nat /\ Len(responses[c]) \in Nat
      /\ Len(requests[c]) \in Nat /\ Len(requests[c]) >= 1
  BY <1>1, Lengths, ReceiveFacts DEF LinkInv, LinkTyped
<1>6. WaitOnce(c) /\ MessagesMatch(c)
  BY DEF LinkInv, ReceiversMatch
<1>7. PICK place : place = Len(responses[c]) + 1
  OBVIOUS
<1>8. 1 \in 1 .. Len(requests[c])
  BY <1>5
<1>9. place \in 1 .. Len(receivers[c]) /\ receivers[c][place] \in Receivers(c)
  BY <1>7, <1>8, PlaceOfRequest
<1>10. PICK t : t = receivers[c][place]
  OBVIOUS
<1>11. t \in Tasks /\ ClientOf[t] = c /\ thread[t].at = "waiting"
  BY <1>6, <1>9, <1>10 DEF WaitOnce
<1>12. PICK call \in Calls : thread[t] = Waiting(call)
  BY <1>11, WaitsAt
<1>13. Head(requests[c]) = OnWire(call)
  <2>1. requests[c][1] = OnWire(thread[t].call)
    BY <1>1, <1>6, <1>7, <1>8, <1>10 DEF MessagesMatch
  <2>2. thread[t].call = call
    BY <1>12, ThreadFacts
  <2>3. Head(requests[c]) = requests[c][1]
    BY <1>1, ReceiveFacts
  <2> QED
    BY <2>1, <2>2, <2>3
<1>14. ServiceTask[t] = Service!Called(call)
  <2>1. ~(place <= Len(responses[c]))
    BY <1>5, <1>7
  <2> QED
    BY <1>9, <1>10, <1>11, <1>12, <2>1, TaskValuesHold DEF TaskValues
<1>15. ServiceTask'[t] = Service!Answered(call, response)
  <2>1. place <= Len(responses'[c]) /\ responses'[c][place] = response
    BY <1>4, <1>5, <1>7
  <2> QED
    BY <1>1, <1>9, <1>10, <1>11, <1>12, <2>1, NextTaskValues DEF TaskValues
<1>16. ASSUME NEW u \in Tasks, u # t PROVE ServiceTask'[u] = ServiceTask[u]
  <2>1. CASE ClientOf[u] # c
    BY <1>1, <1>3, <2>1, TaskUntouched, TasksAssumption
  <2>2. CASE thread[u].at # "waiting"
    BY <1>1, <2>2, TaskNotWaiting
  <2>3. CASE ClientOf[u] = c /\ thread[u].at = "waiting"
    <3>1. PICK waits \in Calls : thread[u] = Waiting(waits)
      BY <2>3, WaitsAt
    <3>2. PICK k \in 1 .. Len(receivers[c]) : receivers[c][k] = u
      BY <2>3, WaitsAt
    <3>3. k # place
      BY <1>10, <1>16, <3>2
    <3>4. CASE k <= Len(responses[c])
      <4>1. k <= Len(responses'[c]) /\ responses'[c][k] = responses[c][k]
        BY <1>4, <1>5, <3>2, <3>4
      <4> QED
        BY <1>1, <2>3, <3>1, <3>2, <3>4, <4>1, TaskValuesHold, NextTaskValues
           DEF TaskValues
    <3>5. CASE ~(k <= Len(responses[c]))
      <4>1. ~(k <= Len(responses'[c]))
        BY <1>4, <1>5, <1>7, <3>2, <3>3, <3>5
      <4> QED
        BY <1>1, <2>3, <3>1, <3>2, <3>5, <4>1, TaskValuesHold, NextTaskValues
           DEF TaskValues
    <3> QED
      BY <3>4, <3>5
  <2> QED
    BY <2>1, <2>2, <2>3
<1>17. ServiceTask' = [ServiceTask EXCEPT ![t] = Service!Answered(call, response)]
  BY <1>11, <1>15, <1>16, TaskUpdated
<1>18. Service!Apply(t, call)
  BY <1>2, <1>3, <1>13, <1>14, <1>17 DEF Service!Apply, AnswerToCall
<1> QED
  BY <1>11, <1>18

LEMMA ServerFailsRefines ==
  ASSUME LinkInv, LinkInv', NEW c \in Clients, ServerFails(c)
  PROVE  ServiceTask' = ServiceTask /\ model' = model
<1>1. /\ thread' = thread /\ receivers' = receivers /\ responses' = responses
      /\ model' = model
  BY DEF ServerFails
<1>2. \A u \in Tasks : ServiceTask'[u] = ServiceTask[u]
  BY <1>1, TaskUntouched
<1> QED
  BY <1>1, <1>2, TaskKept

\* The response moves from the queue to its thread; the threads behind it
\* and their responses move up together.
LEMMA GetResponseRefines ==
  ASSUME LinkInv, LinkInv', NEW c \in Clients, GetResponse(c)
  PROVE  ServiceTask' = ServiceTask /\ model' = model
<1>1. PICK head : head = receivers[c][1]
  OBVIOUS
<1>2. /\ model' = model
      /\ \A d \in Clients \ {c} : /\ responses'[d] = responses[d]
                                  /\ receivers'[d] = receivers[d]
  BY DEF GetResponse, LinkInv, LinkTyped, QueuesTyped
<1>3. /\ IsSequence(responses[c]) /\ responses[c] # << >>
      /\ responses'[c] = Tail(responses[c])
  BY DEF GetResponse, LinkInv, LinkTyped, QueuesTyped
<1>4. /\ Len(responses'[c]) = Len(responses[c]) - 1
      /\ Head(responses[c]) = responses[c][1]
      /\ \A k \in 1 .. Len(responses[c]) - 1 :
           responses'[c][k] = responses[c][k + 1]
  BY <1>3, TailFacts
<1>5. /\ Len(responses[c]) \in Nat /\ Len(receivers[c]) \in Nat
      /\ Len(responses[c]) >= 1 /\ Len(receivers[c]) >= 1
      /\ Len(receivers'[c]) = Len(receivers[c]) - 1
      /\ \A k \in 1 .. Len(receivers[c]) - 1 :
           receivers'[c][k] = receivers[c][k + 1]
  BY Lengths, GetResponseFacts DEF LinkInv, LinkTyped
<1>6. head \in Tasks /\ head \in Receivers(c)
  BY <1>1, GetResponseFacts
<1>7. ClientOf[head] = c /\ thread[head].at = "waiting"
  BY <1>6 DEF LinkInv, ReceiversMatch, WaitOnce
<1>8. PICK call \in Calls : thread[head] = Waiting(call)
  BY <1>6, <1>7, WaitsAt
<1>9. /\ thread'[head] = Returned(call, responses[c][1])
      /\ \A u \in Tasks \ {head} : thread'[u] = thread[u]
  <2>1. thread'[head] = Returned(thread[head].call, Head(responses[c]))
    BY <1>1, <1>6, GetResponseFacts DEF LinkInv, LinkTyped
  <2>2. thread[head].call = call
    BY <1>8, ThreadFacts
  <2>3. \A u \in Tasks \ {head} : thread'[u] = thread[u]
    BY <1>1, GetResponseFacts DEF LinkInv, LinkTyped
  <2> QED
    BY <1>4, <2>1, <2>2, <2>3
<1>10. ServiceTask'[head] = ServiceTask[head]
  <2>1. 1 \in 1 .. Len(receivers[c]) /\ 1 <= Len(responses[c])
    BY <1>5
  <2>2. ServiceTask[head] = Service!Answered(call, responses[c][1])
    BY <1>1, <1>6, <1>7, <1>8, <2>1, TaskValuesHold DEF TaskValues
  <2>3. thread'[head].response = responses[c][1]
    BY <1>9, ThreadFacts
  <2>4. ServiceTask'[head] = Service!Answered(call, responses[c][1])
    BY <1>6, <1>9, <2>3, NextTaskValues DEF TaskValues
  <2> QED
    BY <2>2, <2>4
<1>11. ASSUME NEW u \in Tasks, u # head PROVE ServiceTask'[u] = ServiceTask[u]
  <2>1. thread'[u] = thread[u]
    BY <1>9, <1>11
  <2>2. CASE ClientOf[u] # c
    BY <1>2, <2>1, <2>2, TaskUntouched, TasksAssumption
  <2>3. CASE thread[u].at # "waiting"
    BY <2>1, <2>3, TaskNotWaiting
  <2>4. CASE ClientOf[u] = c /\ thread[u].at = "waiting"
    <3>1. PICK waits \in Calls : thread[u] = Waiting(waits)
      BY <2>4, WaitsAt
    <3>2. PICK k \in 1 .. Len(receivers[c]) : receivers[c][k] = u
      BY <2>4, WaitsAt
    <3>3. k # 1
      BY <1>1, <1>11, <3>2
    <3>4. PICK j : j = k - 1
      OBVIOUS
    <3>5. j \in 1 .. Len(receivers[c]) - 1 /\ j + 1 = k
      BY <1>5, <3>2, <3>3, <3>4
    <3>6. j \in 1 .. Len(receivers'[c]) /\ receivers'[c][j] = u
      BY <1>5, <3>2, <3>5
    <3>7. CASE k <= Len(responses[c])
      <4>1. j <= Len(responses'[c]) /\ responses'[c][j] = responses[c][k]
        BY <1>4, <1>5, <3>5, <3>7
      <4> QED
        BY <2>1, <2>4, <3>1, <3>2, <3>6, <3>7, <4>1, TaskValuesHold,
           NextTaskValues DEF TaskValues
    <3>8. CASE ~(k <= Len(responses[c]))
      <4>1. ~(j <= Len(responses'[c]))
        BY <1>4, <1>5, <3>5, <3>8
      <4> QED
        BY <2>1, <2>4, <3>1, <3>2, <3>6, <3>8, <4>1, TaskValuesHold,
           NextTaskValues DEF TaskValues
    <3> QED
      BY <3>7, <3>8
  <2> QED
    BY <2>2, <2>3, <2>4
<1> QED
  BY <1>2, <1>10, <1>11, TaskKept

\* Register access over the link is atomic: for any threads, clients and
\* calls, every call that returns took effect once, at one moment between its
\* call and its return, and returns the answer to its own transaction.
THEOREM LinkImplementsAtomicService == Spec => ImplementsAtomicService
<1>1. LinkInv /\ LinkInv' /\ [Next]_vars => [Service!Next]_(Service!vars)
  <2> SUFFICES ASSUME LinkInv, LinkInv', [Next]_vars
      PROVE  [Service!Next]_(Service!vars)
    OBVIOUS
  <2>1. ASSUME NEW t \in Tasks, NEW call \in Calls, RunSync(t, call)
        PROVE  Service!Next
    BY <2>1, RunSyncRefines DEF Service!Next
  <2>2. ASSUME NEW t \in Tasks, NEW call \in Calls, Transfer(t, call)
        PROVE  UNCHANGED Service!vars
    BY <2>2, TransferRefines DEF Service!vars
  <2>3. ASSUME NEW c \in Clients, Serve(c) PROVE Service!Next
    BY <2>3, ServeRefines DEF Service!Next
  <2>4. ASSUME NEW c \in Clients, ServerFails(c) PROVE UNCHANGED Service!vars
    BY <2>4, ServerFailsRefines DEF Service!vars
  <2>5. ASSUME NEW c \in Clients, GetResponse(c) PROVE UNCHANGED Service!vars
    BY <2>5, GetResponseRefines DEF Service!vars
  <2>6. ASSUME NEW t \in Tasks, Return(t) PROVE Service!Next
    BY <2>6, ReturnRefines DEF Service!Next
  <2>7. CASE UNCHANGED vars
    <3>1. \A u \in Tasks : ServiceTask'[u] = ServiceTask[u]
      BY <2>7, TaskUntouched DEF vars
    <3> QED
      BY <2>7, <3>1, TaskKept DEF vars, Service!vars
  <2> QED
    BY <2>1, <2>2, <2>3, <2>4, <2>5, <2>6, <2>7 DEF Next
<1> QED
  BY <1>1, InitRefines, LinkInvariant, PTL
     DEF Spec, ImplementsAtomicService, Service!Spec
=============================================================================
