-------------------------- MODULE HttpClientProofs --------------------------
(***************************************************************************)
(* Proofs, for every value of the constants, of the type invariant of      *)
(* HttpClient and of the safety properties its TLC run checks.            *)
(***************************************************************************)
EXTENDS HttpClient, OpampAgentProofs

-----------------------------------------------------------------------------
(* The type invariant. *)

\* Every step keeps the variables in their types.
LEMMA TypeStep == TypeOK /\ [Next]_vars => TypeOK'
<1> SUFFICES ASSUME TypeOK, [Next]_vars PROVE TypeOK'
  OBVIOUS
<1>1. CASE Reconnect
  BY <1>1, EvaluateType DEF Reconnect, TypeOK, States, Responses
<1>2. CASE Connect
  BY <1>2, EvaluateType DEF Connect, TypeOK, States, Responses
<1>3. CASE Handshake
  BY <1>3, EvaluateType, GetStatusType DEF Handshake, TypeOK, States, Responses, Kinds
<1>4. CASE Poll
  <2> USE DEF TypeOK
  <2>1. PICK h \in HealthChecked(agentState) :
              LET out == IF agentState.healthy THEN outbox ELSE Append(outbox, "Health")
              IN \/ PollFlush(out, h)
                 \/ PollHeartbeat(out, h)
                 \/ PollIdle(out, h)
                 \/ PollDispatch(out, h)
    BY <1>4 DEF Poll
  <2>2. h \in AgentRecords
    BY <1>4, HealthCheckedType DEF Poll
  <2> DEFINE out == IF agentState.healthy THEN outbox ELSE Append(outbox, "Health")
  <2>3. out \in Seq(Kinds)
    BY DEF Kinds
  <2>4. UNCHANGED <<backoff, seqno, heartbeatDue, wire>>
    BY <1>4 DEF Poll
  <2>5. CASE PollFlush(out, h)
    BY <2>2, <2>3, <2>4, <2>5, EvaluateType DEF PollFlush, States, Responses
  <2>6. CASE PollHeartbeat(out, h)
    BY <2>2, <2>4, <2>6, EvaluateType DEF PollHeartbeat, States, Responses, Kinds
  <2>7. CASE PollIdle(out, h)
    BY <2>2, <2>3, <2>4, <2>7, EvaluateType DEF PollIdle, States, Responses
  <2>8. CASE PollDispatch(out, h)
    <3> DEFINE m == inbox[Len(inbox)].msg
    <3>1. /\ inbox # <<>>
          /\ inbox' = SubSeq(inbox, 1, Len(inbox) - 1)
          /\ agentState' \in IF m.fullState = "self" THEN GetStatus(h) ELSE {h}
          /\ \E d \in Dispatch(m), l \in Answer(TRUE, "OnLoop") : outbox' = d \o l
      BY <2>8 DEF PollDispatch
    <3>2. m \in ServerMsgRecords
      <4>1. Len(inbox) \in 1..Len(inbox)
        BY <3>1, EmptySeq
      <4>2. inbox[Len(inbox)] \in [msg: ServerMsgRecords, req: Nat]
        BY <4>1, ElementOfSeq
      <4>3. QED
        BY <4>2 DEF m
    <3>3. inbox' \in Seq([msg: ServerMsgRecords, req: Nat])
      <4>1. \A i \in 1..(Len(inbox) - 1) : inbox[i] \in [msg: ServerMsgRecords, req: Nat]
        <5> SUFFICES ASSUME NEW i \in 1..(Len(inbox) - 1)
                     PROVE  inbox[i] \in [msg: ServerMsgRecords, req: Nat]
          OBVIOUS
        <5>1. i \in 1..Len(inbox)
          BY LenProperties
        <5>2. QED
          BY <5>1, ElementOfSeq
      <4>2. QED
        BY <3>1, <4>1, SubSeqProperties
    <3>7. agentState' \in AgentRecords
      BY <2>2, <3>1, GetStatusType
    <3>4. outbox' \in Seq(Kinds)
      <4>1. PICK d \in Dispatch(m), l \in Answer(TRUE, "OnLoop") : outbox' = d \o l
        BY <3>1
      <4>2. d \in Seq(Kinds) /\ l \in Seq(Kinds)
        BY <3>2, <4>1, DispatchType, AnswerType DEF Kinds
      <4>3. QED
        BY <4>1, <4>2
    <3>5. state' \in States
      BY <2>8, EvaluateType DEF PollDispatch, States, Responses
    <3>6. QED
      BY <2>4, <3>3, <3>7, <3>4, <3>5
  <2>9. QED
    BY <2>1, <2>5, <2>6, <2>7, <2>8
<1>5. CASE Send
  <2> USE DEF TypeOK
  <2>1. ServerReplies \subseteq ServerMsgRecords
    BY AgentAssumption DEF ServerReplies
  <2>2. ASSUME NEW n \in 0..Len(outbox)
        PROVE  Posted(n) \in Seq([kind: Kinds, seq: Nat, caps: Nat])
    <3>1. agentState # NoState => agentState.caps \in Nat
      BY AgentAssumption DEF AgentRecords
    <3>2. \A i \in 1..n : Stamp(outbox[i], i) \in [kind: Kinds, seq: Nat, caps: Nat]
      <4> SUFFICES ASSUME NEW i \in 1..n
                   PROVE  Stamp(outbox[i], i) \in [kind: Kinds, seq: Nat, caps: Nat]
        OBVIOUS
      <4>1. outbox[i] \in Kinds
        BY ElementOfSeq
      <4>2. QED
        BY <3>1, <4>1 DEF Stamp
    <3>3. QED
      BY <3>2, IsASeq DEF Posted
  <2>3. ASSUME NEW n \in 0..Len(outbox), NEW r \in [1..n -> ServerReplies]
        PROVE  Answers(n, r) \in Seq([msg: ServerMsgRecords, req: Nat])
    <3>1. \A i \in 1..n : [msg |-> r[i], req |-> seqno + i] \in [msg: ServerMsgRecords, req: Nat]
      BY <2>1
    <3>2. n \in Nat
      BY LenProperties
    <3>3. [i \in 1..n |-> [msg |-> r[i], req |-> seqno + i]] \in Seq([msg: ServerMsgRecords, req: Nat])
      BY <3>1, <3>2, IsASeq
    <3>4. QED
      BY <3>3 DEF Answers
  <2>4. CASE \E r \in [1..Len(outbox) -> ServerReplies] :
               /\ wire' = wire \o Posted(Len(outbox))
               /\ inbox' = inbox \o Answers(Len(outbox), r)
               /\ seqno' = seqno + Len(outbox)
               /\ state' = Evaluate("Sending", "Reply")
    <3>1. PICK r \in [1..Len(outbox) -> ServerReplies] :
               /\ wire' = wire \o Posted(Len(outbox))
               /\ inbox' = inbox \o Answers(Len(outbox), r)
               /\ seqno' = seqno + Len(outbox)
               /\ state' = Evaluate("Sending", "Reply")
      BY <2>4
    <3>2. Len(outbox) \in 0..Len(outbox)
      OBVIOUS
    <3>3. /\ Posted(Len(outbox)) \in Seq([kind: Kinds, seq: Nat, caps: Nat])
          /\ Answers(Len(outbox), r) \in Seq([msg: ServerMsgRecords, req: Nat])
      BY <3>2, <2>2, <2>3
    <3>4. Evaluate("Sending", "Reply") \in States
      BY EvaluateType DEF States, Responses
    <3>5. QED
      BY <1>5, <3>1, <3>3, <3>4 DEF Send
  <2>5. CASE \E n \in 0..(Len(outbox) - 1), reached \in BOOLEAN :
               \E r \in [1..n -> ServerReplies] :
                  /\ wire' = wire \o Posted(IF reached THEN n + 1 ELSE n)
                  /\ inbox' = inbox \o Answers(n, r)
                  /\ seqno' = seqno + n + 1
                  /\ state' = Evaluate("Sending", "Error")
    <3>1. PICK n \in 0..(Len(outbox) - 1), reached \in BOOLEAN :
               \E r \in [1..n -> ServerReplies] :
                  /\ wire' = wire \o Posted(IF reached THEN n + 1 ELSE n)
                  /\ inbox' = inbox \o Answers(n, r)
                  /\ seqno' = seqno + n + 1
                  /\ state' = Evaluate("Sending", "Error")
      BY <2>5
    <3>2. (IF reached THEN n + 1 ELSE n) \in 0..Len(outbox) /\ n \in 0..Len(outbox)
      BY <3>1
    <3>3. PICK r \in [1..n -> ServerReplies] :
                  /\ wire' = wire \o Posted(IF reached THEN n + 1 ELSE n)
                  /\ inbox' = inbox \o Answers(n, r)
                  /\ seqno' = seqno + n + 1
                  /\ state' = Evaluate("Sending", "Error")
      BY <3>1
    <3>4. /\ Posted(IF reached THEN n + 1 ELSE n) \in Seq([kind: Kinds, seq: Nat, caps: Nat])
          /\ Answers(n, r) \in Seq([msg: ServerMsgRecords, req: Nat])
      BY <3>2, <2>2, <2>3
    <3>5. Evaluate("Sending", "Error") \in States
      BY EvaluateType DEF States, Responses
    <3>6. QED
      BY <1>5, <3>3, <3>4, <3>5 DEF Send
  <2>6. QED
    BY <1>5, <2>4, <2>5 DEF Send
<1>6. CASE Wait
  BY <1>6, EvaluateType DEF Wait, TypeOK, States, Responses
<1>7. CASE TimePasses
  BY <1>7 DEF TimePasses, TypeOK
<1>8. CASE UNCHANGED vars
  BY <1>8 DEF vars, TypeOK
<1>9. QED
  BY <1>1, <1>2, <1>3, <1>4, <1>5, <1>6, <1>7, <1>8 DEF Next, Tick

\* The type invariant of HttpClient holds in every reachable state.
THEOREM TypeCorrect == Spec => []TypeOK
<1>1. Init => TypeOK
  BY DEF Init, TypeOK, States
<1>2. QED
  BY <1>1, TypeStep, PTL DEF Spec

-----------------------------------------------------------------------------
(* The safety invariants.  SeqIncreasing is not inductive by itself: a send
   appends messages numbered from seqno + 1, so every number already on the
   wire must be at most seqno.  CapsStable needs AgentStateReady (a send
   stamps the stored capabilities) and the fact that the stored state is
   never rebuilt once built. *)

IInv ==
  /\ TypeOK
  /\ AgentStateReady
  /\ SeqIncreasing
  /\ SeqBounded
  /\ CapsStable

\* A send that puts the first k messages of the outbox on the wire and
\* leaves seqno at q2 >= seqno + k keeps the wire increasing, bounded by
\* q2, and stamped with the stored capabilities.
LEMMA SendWire ==
  ASSUME IInv, state = "Sending", NEW k \in 0..Len(outbox),
         NEW q2 \in Nat, q2 >= seqno + k
  PROVE  LET w2 == wire \o Posted(k) IN
           /\ \A i, j \in 1..Len(w2) : i < j => w2[i].seq < w2[j].seq
           /\ \A i \in 1..Len(w2) : w2[i].seq <= q2
           /\ \A i \in 1..Len(w2) : w2[i].caps = agentState.caps
<1>1. agentState \in AgentRecords /\ StampOK /\ wire \in Seq(WireRecords)
  BY DEF IInv, AgentStateReady, Active, TypeOK, StampOK, WireRecords
<1>2. QED
  BY <1>1, AppendWire DEF IInv

\* poll() never rebuilds the stored state: the health check and a
\* ReportFullState for our instance_uid keep its capabilities.
LEMMA PollKeeps ==
  ASSUME IInv, Poll
  PROVE  agentState' \in AgentRecords /\ agentState'.caps = agentState.caps
<1>1. agentState \in AgentRecords
  BY DEF Poll, IInv, TypeOK
<1>2. PICK h \in HealthChecked(agentState) :
              LET out == IF agentState.healthy THEN outbox ELSE Append(outbox, "Health")
              IN \/ PollFlush(out, h)
                 \/ PollHeartbeat(out, h)
                 \/ PollIdle(out, h)
                 \/ PollDispatch(out, h)
  BY DEF Poll
<1>3. h \in AgentRecords /\ h.caps = agentState.caps
  BY <1>1, HealthCheckedKeeps
<1>4. GetStatus(h) = {h}
  BY <1>3, GetStatusKeeps
<1>5. agentState' = h
  BY <1>2, <1>4 DEF PollFlush, PollHeartbeat, PollIdle, PollDispatch
<1>6. QED
  BY <1>3, <1>5

\* send puts the first k messages of its batch on the wire, k at most the
\* batch, and moves seqno past them (also past a failed POST).
LEMMA SendAppends ==
  ASSUME TypeOK, Send
  PROVE  \E k \in 0..Len(outbox) : wire' = wire \o Posted(k) /\ seqno' >= seqno + k
<1>1. seqno \in Nat /\ Len(outbox) \in Nat
  BY LenProperties DEF TypeOK
<1>2. QED
  <2>1. CASE \E r \in [1..Len(outbox) -> ServerReplies] :
               /\ wire' = wire \o Posted(Len(outbox))
               /\ seqno' = seqno + Len(outbox)
    BY <1>1, <2>1
  <2>2. CASE \E n \in 0..(Len(outbox) - 1), reached \in BOOLEAN :
               /\ wire' = wire \o Posted(IF reached THEN n + 1 ELSE n)
               /\ seqno' = seqno + n + 1
    <3>1. PICK n \in 0..(Len(outbox) - 1), reached \in BOOLEAN :
               /\ wire' = wire \o Posted(IF reached THEN n + 1 ELSE n)
               /\ seqno' = seqno + n + 1
      BY <2>2
    <3>2. CASE reached
      <4>1. wire' = wire \o Posted(n + 1) /\ n + 1 \in 0..Len(outbox)
        BY <1>1, <3>1, <3>2
      <4>2. seqno' >= seqno + (n + 1)
        BY <1>1, <3>1
      <4> WITNESS n + 1 \in 0..Len(outbox)
      <4>3. QED
        BY <4>1, <4>2
    <3>3. CASE ~reached
      BY <1>1, <3>1, <3>3
    <3>4. QED
      BY <3>2, <3>3
  <2>3. QED
    BY <2>1, <2>2 DEF Send

\* The strengthened invariant is kept by every step.
LEMMA IInvStep == IInv /\ [Next]_vars => IInv'
<1> SUFFICES ASSUME IInv, [Next]_vars PROVE IInv'
  OBVIOUS
<1>0. TypeOK'
  BY TypeStep DEF IInv
<1> USE <1>0 DEF IInv
<1>1. CASE Reconnect
  <2>1. state' = "Connecting"
    BY <1>1, EvaluateArms DEF Reconnect
  <2>2. QED
    BY <1>1, <2>1 DEF Reconnect, AgentStateReady, Active, SeqIncreasing,
                      SeqBounded, CapsStable
<1>2. CASE Connect
  <2>1. state' \in {"Connected", "Disconnected"}
    BY <1>2, EvaluateArms DEF Connect, Responses
  <2>2. QED
    BY <1>2, <2>1 DEF Connect, AgentStateReady, Active, SeqIncreasing,
                      SeqBounded, CapsStable
<1>3. CASE Handshake
  <2>1. agentState' \in AgentRecords
    BY <1>3, GetStatusType DEF Handshake, TypeOK
  <2>2. agentState' # NoState
    BY <2>1, AgentAssumption
  <2>3. wire # <<>> => agentState' = agentState
    <3> HAVE wire # <<>>
    <3>1. 1 \in 1..Len(wire)
      BY EmptySeq DEF TypeOK
    <3>2. agentState \in AgentRecords
      BY <3>1 DEF CapsStable, TypeOK
    <3>3. QED
      BY <1>3, <3>2, GetStatusKeeps DEF Handshake
  <2>4. CapsStable'
    <3>1. CASE wire = <<>>
      BY <1>3, <3>1 DEF Handshake, CapsStable
    <3>2. CASE wire # <<>>
      BY <1>3, <2>2, <2>3, <3>2 DEF Handshake, CapsStable
    <3>3. QED
      BY <3>1, <3>2
  <2>5. QED
    BY <1>3, <2>2, <2>4 DEF Handshake, AgentStateReady, SeqIncreasing, SeqBounded
<1>4. CASE Poll
  <2>1. agentState' \in AgentRecords /\ agentState'.caps = agentState.caps
    BY <1>4, PollKeeps
  <2>2. agentState' # NoState
    BY <2>1, AgentAssumption
  <2>3. QED
    BY <1>4, <2>1, <2>2 DEF Poll, AgentStateReady, SeqIncreasing, SeqBounded,
                            CapsStable
<1>5. CASE Send
  <2>1. state = "Sending" /\ agentState' = agentState /\ agentState # NoState
    BY <1>5 DEF Send, AgentStateReady, Active
  <2>2. seqno \in Nat /\ Len(outbox) \in Nat
    BY LenProperties DEF TypeOK
  <2>3. PICK k \in 0..Len(outbox) : wire' = wire \o Posted(k) /\ seqno' >= seqno + k
    BY <1>5, SendAppends
  <2>4. seqno' \in Nat
    BY DEF TypeOK
  <2>5. /\ \A i, j \in 1..Len(wire') : i < j => wire'[i].seq < wire'[j].seq
        /\ \A i \in 1..Len(wire') : wire'[i].seq <= seqno'
        /\ \A i \in 1..Len(wire') : wire'[i].caps = agentState.caps
    BY <2>1, <2>3, <2>4, SendWire
  <2>6. QED
    BY <2>1, <2>5 DEF AgentStateReady, SeqIncreasing, SeqBounded, CapsStable
<1>6. CASE Wait
  <2>1. state' = "Polling"
    BY <1>6, EvaluateArms DEF Wait
  <2>2. QED
    BY <1>6, <2>1 DEF Wait, AgentStateReady, Active, SeqIncreasing,
                      SeqBounded, CapsStable
<1>7. CASE TimePasses
  BY <1>7 DEF TimePasses, AgentStateReady, SeqIncreasing, SeqBounded, CapsStable
<1>8. CASE UNCHANGED vars
  BY <1>8 DEF vars, AgentStateReady, SeqIncreasing, SeqBounded, CapsStable
<1>9. QED
  BY <1>1, <1>2, <1>3, <1>4, <1>5, <1>6, <1>7, <1>8 DEF Next, Tick

\* The strengthened invariant holds in every reachable state.
THEOREM InvariantHolds == Spec => []IInv
<1>1. Init => IInv
  BY DEF Init, IInv, TypeOK, States, Active, AgentStateReady, SeqIncreasing,
         SeqBounded, CapsStable
<1>2. QED
  BY <1>1, IInvStep, PTL DEF Spec

\* Spec §8 for every value of the constants: the sequence numbers the server
\* receives from send_and_receive are strictly increasing, also across
\* failed and timed-out POSTs.
THEOREM SeqIncreasingHolds == Spec => []SeqIncreasing
BY InvariantHolds, PTL DEF IInv

\* Spec §8 for every value of the constants: every message the server
\* receives carries the capabilities get_features returned once.
THEOREM CapsStableHolds == Spec => []CapsStable
BY InvariantHolds, PTL DEF IInv

\* The unwrap of agent_state in get_health (poll) never panics: no state of
\* Polling, Sending or Waiting is reached without the handshake's get_status.
THEOREM AgentStateReadyHolds == Spec => []AgentStateReady
BY InvariantHolds, PTL DEF IInv

(* The retry budget.  backoff only changes in connect; connect only runs
   before the first send, because no arm of evaluate the HTTP client can
   take leads back to Disconnected or Connecting once the handshake is done
   (its poll, send and wait never answer Err, and poll never Error). *)

\* The arms of State::evaluate that the HTTP poll and send take.
LEMMA EvaluateSessionArms ==
  /\ \A r \in {"Reply", "None"} : Evaluate("Polling", r) \in {"Sending", "Polling"}
  /\ \A r \in {"Reply", "Error"} : Evaluate("Sending", r) \in {"Waiting", "Polling"}
  /\ Evaluate("Connected", "Reply") = "Sending"
BY DEF Evaluate, Transition, Responses

\* PreSession, with the type invariant, is kept by every step.
LEMMA PreSessionStep == TypeOK /\ PreSession /\ [Next]_vars => PreSession'
<1> SUFFICES ASSUME TypeOK, PreSession, [Next]_vars PROVE PreSession'
  OBVIOUS
<1>1. CASE Reconnect \/ Connect \/ Wait \/ TimePasses \/ UNCHANGED vars
  <2>1. wire' = wire /\ (state' # state => state \in {"Disconnected", "Connecting", "Waiting"})
    BY <1>1 DEF Reconnect, Connect, Wait, TimePasses, vars
  <2>2. state = "Waiting" /\ state' # state => state' = "Polling"
    BY <1>1, EvaluateArms DEF Reconnect, Connect, Wait, TimePasses, vars
  <2>3. QED
    BY <2>1, <2>2 DEF PreSession
<1>2. CASE Handshake
  BY <1>2, EvaluateSessionArms DEF Handshake, PreSession
<1>3. CASE Poll
  <2>1. state' \in {"Sending", "Polling"}
    <3>1. PICK h \in HealthChecked(agentState) :
              LET out == IF agentState.healthy THEN outbox ELSE Append(outbox, "Health")
              IN \/ PollFlush(out, h)
                 \/ PollHeartbeat(out, h)
                 \/ PollIdle(out, h)
                 \/ PollDispatch(out, h)
      BY <1>3 DEF Poll
    <3>2. QED
      BY <3>1, EvaluateSessionArms DEF PollFlush, PollHeartbeat, PollIdle, PollDispatch
  <2>2. QED
    BY <2>1 DEF PreSession
<1>4. CASE Send
  <2>1. state' \in {"Waiting", "Polling"}
    BY <1>4, EvaluateSessionArms DEF Send
  <2>2. QED
    BY <2>1 DEF PreSession
<1>5. QED
  BY <1>1, <1>2, <1>3, <1>4 DEF Next, Tick

\* connect never resets backoff, but for every value of the constants
\* backoff only grows before the first message reaches the server, so the
\* missing reset never shortens the retry budget of a later session.
THEOREM BackoffOnlyBeforeSessionHolds == Spec => BackoffOnlyBeforeSession
<1>1. Init => PreSession
  BY DEF Init, PreSession
<1>2. TypeOK /\ PreSession /\ [Next]_vars => [backoff' # backoff => wire = <<>>]_backoff
  <2> SUFFICES ASSUME TypeOK, PreSession, [Next]_vars, backoff' # backoff
               PROVE  wire = <<>>
    OBVIOUS
  <2>1. state = "Connecting"
    BY DEF Next, Tick, Reconnect, Connect, Handshake, Poll, Send, Wait, TimePasses, vars
  <2>2. QED
    BY <2>1 DEF PreSession
<1>3. QED
  BY <1>1, <1>2, PreSessionStep, TypeCorrect, PTL DEF Spec, BackoffOnlyBeforeSession

-----------------------------------------------------------------------------
(* The health report.  poll stores the state healthy in the step that
   enqueues the report, and nothing the HTTP client can do afterwards sets
   it unhealthy again: only the handshake stores a state (get_status, which
   keeps a built one), and the handshake runs in Connected, where no report
   is pending (HealthPending) and none has been sent (PreSession). *)

\* The invariant the health report rests on.
HealthInv == TypeOK /\ PreSession /\ HealthPending /\ HealthyAfterReport

\* Every poll stores a healthy state and ends in Polling or Sending.
LEMMA PollHealthy ==
  ASSUME TypeOK, Poll
  PROVE  /\ agentState' \in AgentRecords /\ agentState'.healthy = TRUE
         /\ state' \in {"Polling", "Sending"}
<1>1. agentState \in AgentRecords
  BY DEF Poll, TypeOK
<1>2. PICK h \in HealthChecked(agentState) :
          LET out == IF agentState.healthy THEN outbox ELSE Append(outbox, "Health")
          IN \/ PollFlush(out, h)
             \/ PollHeartbeat(out, h)
             \/ PollIdle(out, h)
             \/ PollDispatch(out, h)
  BY DEF Poll
<1>3. h \in AgentRecords /\ h.healthy = TRUE
  BY <1>1, HealthCheckedType, HealthCheckedHealthy
<1>4. agentState' = h
  <2>1. GetStatus(h) = {h}
    BY <1>3, GetStatusKeeps
  <2>2. QED
    BY <1>2, <2>1 DEF PollFlush, PollHeartbeat, PollIdle, PollDispatch
<1>5. state' \in {"Polling", "Sending"}
  BY <1>2, EvaluateSessionArms DEF PollFlush, PollHeartbeat, PollIdle, PollDispatch
<1>6. QED
  BY <1>3, <1>4, <1>5

\* HealthInv is kept by every step.
LEMMA HealthStep == HealthInv /\ [Next]_vars => HealthInv'
<1> SUFFICES ASSUME TypeOK, PreSession, HealthPending, HealthyAfterReport, [Next]_vars
             PROVE  HealthInv'
  BY DEF HealthInv
<1>1. TypeOK' /\ PreSession'
  BY TypeStep, PreSessionStep
<1>2. CASE Reconnect \/ Connect \/ Wait \/ TimePasses \/ UNCHANGED vars
  <2>1. outbox' = outbox /\ wire' = wire /\ agentState' = agentState
    BY <1>2 DEF Reconnect, Connect, Wait, TimePasses, vars
  <2>2. state' # state => state \notin {"Polling", "Sending"}
    BY <1>2 DEF Reconnect, Connect, Wait, TimePasses, vars
  <2>3. HealthPending'
    BY <2>1, <2>2 DEF HealthPending, HealthInOutbox
  <2>4. HealthyAfterReport'
    BY <2>1 DEF HealthyAfterReport
  <2>5. QED
    BY <1>1, <2>3, <2>4 DEF HealthInv
<1>3. CASE Handshake
  <2>1. ~HealthInOutbox /\ wire = <<>>
    BY <1>3 DEF Handshake, HealthPending, PreSession
  <2>2. outbox' = Append(outbox, "Handshake") /\ wire' = wire
    BY <1>3 DEF Handshake
  <2>3. ~HealthInOutbox'
    BY <2>1, <2>2 DEF HealthInOutbox, TypeOK
  <2>4. ~HealthOnWire'
    BY <2>1, <2>2 DEF HealthOnWire
  <2>5. QED
    BY <1>1, <2>3, <2>4 DEF HealthInv, HealthPending, HealthyAfterReport,
                            HealthInOutbox, HealthOnWire
<1>4. CASE Poll
  <2>1. /\ agentState' \in AgentRecords /\ agentState'.healthy = TRUE
        /\ state' \in {"Polling", "Sending"}
    BY <1>4, PollHealthy
  <2>2. agentState' # NoState
    BY <2>1, AgentAssumption
  <2>3. QED
    BY <1>1, <2>1, <2>2 DEF HealthInv, HealthPending, HealthyAfterReport
<1>5. CASE Send
  <2>1. outbox' = <<>> /\ agentState' = agentState
    BY <1>5 DEF Send
  <2>2. PICK k \in 0..Len(outbox) : wire' = wire \o Posted(k)
    BY <1>5, SendAppends
  <2>3. HealthOnWire' => HealthOnWire \/ HealthInOutbox
    <3> SUFFICES ASSUME NEW i \in 1..Len(wire'), wire'[i].kind = "Health"
                 PROVE  HealthOnWire \/ HealthInOutbox
      BY DEF HealthOnWire
    <3>1. StampOK /\ wire \in Seq(WireRecords)
      BY DEF TypeOK, StampOK, WireRecords
    <3>2. QED
      BY <2>2, <3>1, HealthPosted
  <2>4. ~HealthInOutbox'
    BY <2>1 DEF HealthInOutbox
  <2>5. HealthyAfterReport'
    BY <2>1, <2>3, <2>4 DEF HealthyAfterReport, HealthInOutbox, HealthOnWire
  <2>6. QED
    BY <1>1, <2>4, <2>5 DEF HealthInv, HealthPending
<1>6. QED
  BY <1>2, <1>3, <1>4, <1>5 DEF Next, Tick

\* Spec §8 for every value of the constants: after a poll() that produced a
\* health report, the stored state is healthy, while the report waits and
\* after the server has received it.
THEOREM HealthyAfterReportHolds == Spec => []HealthyAfterReport
<1>1. Init => HealthInv
  BY DEF Init, HealthInv, TypeOK, States, PreSession, HealthPending, HealthyAfterReport,
         HealthInOutbox
<1>2. QED
  BY <1>1, HealthStep, PTL DEF Spec, HealthInv

=============================================================================
