--------------------------- MODULE WsClientProofs ---------------------------
(***************************************************************************)
(* Proofs, for every value of the constants, about the websocket client of *)
(* WsClient: its type invariant, the safety invariants its TLC run checks  *)
(* (poll never unwraps a missing stream; what the server receives is       *)
(* strictly numbered and stamped with capabilities fixed once), and that   *)
(* it implements the abstract outbound stream of OutboundChannel.  The     *)
(* panics of flush and to_sink are part of the model: the proofs cover     *)
(* the writes a panic interrupts.                                          *)
(***************************************************************************)
EXTENDS WsClient, OpampAgentProofs

-----------------------------------------------------------------------------
(* Lemmas about the operators of WsClient. *)

\* set_health builds the stored state if needed; what it stores is a state.
LEMMA SetHealthType ==
  ASSUME NEW s \in AgentRecords \cup {NoState}, NEW b \in BOOLEAN
  PROVE  SetHealth(s, b) \subseteq AgentRecords
<1> SUFFICES ASSUME NEW x \in SetHealth(s, b) PROVE x \in AgentRecords
  OBVIOUS
<1>1. PICK y \in GetStatus(s) : x = [y EXCEPT !.healthy = b]
  BY DEF SetHealth
<1>2. y \in AgentRecords
  BY GetStatusType
<1>3. QED
  BY <1>1, <1>2 DEF AgentRecords

\* set_health on a built state keeps its capabilities.
LEMMA SetHealthKeeps ==
  ASSUME NEW s \in AgentRecords, NEW b \in BOOLEAN, NEW x \in SetHealth(s, b)
  PROVE  x \in AgentRecords /\ x.caps = s.caps
<1>1. PICK y \in GetStatus(s) : x = [y EXCEPT !.healthy = b]
  BY DEF SetHealth
<1>2. y = s
  BY <1>1, GetStatusKeeps
<1>3. QED
  BY <1>1, <1>2 DEF AgentRecords

\* What the dispatcher enqueues for a frame is a sequence of messages.
LEMMA DispatchedType ==
  ASSUME NEW f \in Frames
  PROVE  Dispatched(f) \subseteq Seq(Kinds)
<1>1. f.msg \in ServerMsgRecords /\ f.decoded \in BOOLEAN
  BY DEF Frames
<1>2. <<>> \in Seq(Kinds)
  OBVIOUS
<1>3. QED
  BY <1>1, <1>2, DispatchType DEF Dispatched

\* The stored state after a frame is dispatched keeps the capabilities of h.
LEMMA ReportedKeeps ==
  ASSUME NEW f \in Frames, NEW h \in AgentRecords, NEW x \in Reported(f, h)
  PROVE  x \in AgentRecords /\ x.caps = h.caps
<1>1. CASE f.decoded /\ f.msg.fullState = "self"
  BY <1>1, SetHealthKeeps DEF Reported
<1>2. CASE ~(f.decoded /\ f.msg.fullState = "self")
  BY <1>2 DEF Reported
<1>3. QED
  BY <1>1, <1>2

\* The frames the server may write.
LEMMA PushedType ==
  {[decoded |-> TRUE, msg |-> m] : m \in ServerReplies}
    \cup {[decoded |-> FALSE, msg |-> Quiet]} \subseteq Frames
<1>1. ServerReplies \subseteq ServerMsgRecords /\ Quiet \in ServerMsgRecords
  BY AgentAssumption DEF ServerReplies
<1>2. \A m \in ServerReplies : [decoded |-> TRUE, msg |-> m] \in Frames
  BY <1>1 DEF Frames
<1>3. [decoded |-> FALSE, msg |-> Quiet] \in Frames
  BY <1>1 DEF Frames
<1>4. QED
  BY <1>2, <1>3

\* poll never rebuilds the stored state: the health check, and a
\* ReportFullState for our instance_uid, keep its capabilities.
LEMMA PollKeeps ==
  ASSUME TypeOK, Poll
  PROVE  agentState' \in AgentRecords /\ agentState'.caps = agentState.caps
<1>1. agentState \in AgentRecords
  BY DEF Poll, TypeOK
<1>2. PICK h \in HealthChecked(agentState) :
              LET out == IF agentState.healthy THEN outbox ELSE Append(outbox, "Health")
              IN \/ PollFlush(out, h)
                 \/ PollReceive(out, h)
                 \/ PollClosed(out, h)
  BY DEF Poll
<1>3. h \in AgentRecords /\ h.caps = agentState.caps
  BY <1>1, HealthCheckedKeeps
<1>4. CASE agentState' = h
  BY <1>3, <1>4
<1>5. CASE agentState' # h
  <2>1. downlink # <<>> /\ agentState' \in Reported(Head(downlink), h)
    BY <1>2, <1>5 DEF PollFlush, PollClosed, PollReceive
  <2>2. Head(downlink) \in Frames
    BY <2>1, HeadTailProperties DEF TypeOK
  <2>3. QED
    BY <1>3, <2>1, <2>2, ReportedKeeps
<1>6. QED
  BY <1>4, <1>5

\* Stamping nothing leaves the wire as it is.
LEMMA PostedNone ==
  ASSUME StampOK, wire \in Seq(WireRecords)
  PROVE  wire \o Posted(0) = wire
<1>1. Posted(0) \in Seq(WireRecords) /\ Len(Posted(0)) = 0
  BY PostedFacts
<1>2. Posted(0) = <<>>
  BY <1>1, EmptySeq
<1>3. QED
  BY <1>2, ConcatEmptySeq

\* flush puts the first k messages of the outbox on the wire, k at most the
\* outbox, and moves seqno past them: past the failed write too when a
\* write panics, and past the first message when to_sink finds no stream.
LEMMA FlushAppends ==
  ASSUME TypeOK, Flush
  PROVE  \E k \in 0..Len(outbox) :
            /\ wire' = wire \o Posted(k)
            /\ seqno' \in Nat
            /\ seqno' >= seqno + k
<1>1. seqno \in Nat /\ Len(outbox) \in Nat /\ StampOK /\ wire \in Seq(WireRecords)
  BY LenProperties DEF TypeOK, StampOK, WireRecords
<1>2. CASE /\ stream = "Open"
           /\ wire' = wire \o Posted(Len(outbox))
           /\ seqno' = seqno + Len(outbox)
  <2> WITNESS Len(outbox) \in 0..Len(outbox)
  <2> QED
    BY <1>1, <1>2
<1>3. CASE \E n \in 0..(Len(outbox) - 1) :
             /\ wire' = wire \o Posted(n)
             /\ seqno' = seqno + n + 1
  <2>1. PICK n \in 0..(Len(outbox) - 1) :
             /\ wire' = wire \o Posted(n)
             /\ seqno' = seqno + n + 1
    BY <1>3
  <2> WITNESS n \in 0..Len(outbox)
  <2> QED
    BY <1>1, <2>1
<1>4. CASE wire' = wire /\ seqno' = seqno + 1
  <2>1. wire' = wire \o Posted(0)
    BY <1>1, <1>4, PostedNone
  <2> WITNESS 0 \in 0..Len(outbox)
  <2> QED
    BY <1>1, <1>4, <2>1
<1>5. QED
  BY <1>2, <1>3, <1>4 DEF Flush

-----------------------------------------------------------------------------
(* The type invariant. *)

\* Every step keeps the variables in their types.
LEMMA TypeStep == TypeOK /\ [Next]_vars => TypeOK'
<1> SUFFICES ASSUME TypeOK, [Next]_vars PROVE TypeOK'
  OBVIOUS
<1>1. CASE Reconnect
  BY <1>1, EvaluateType DEF Reconnect, TypeOK, States, Responses
<1>2. CASE Connect
  <2>1. agentState' \in AgentRecords
    BY <1>2, SetHealthType DEF Connect, TypeOK
  <2>2. state' \in States
    BY <1>2, EvaluateType DEF Connect, States, Responses
  <2>3. <<>> \in Seq(Frames)
    OBVIOUS
  <2>4. backoff' \in Nat /\ stream' \in {"None", "Open", "Closed"} /\ downlink' \in Seq(Frames)
    <3>1. \/ stream' = "Open" /\ downlink' = <<>> /\ backoff' = backoff
          \/ backoff' = backoff + 1 /\ stream' = stream /\ downlink' = downlink
      BY <1>2, Zenon DEF Connect
    <3>2. CASE stream' = "Open" /\ downlink' = <<>> /\ backoff' = backoff
      BY <2>3, <3>2 DEF TypeOK
    <3>3. CASE backoff' = backoff + 1 /\ stream' = stream /\ downlink' = downlink
      BY <3>3 DEF TypeOK
    <3>4. QED
      BY <3>1, <3>2, <3>3
  <2>5. UNCHANGED <<seqno, outbox, wire, panicked>>
    BY <1>2 DEF Connect
  <2>6. QED
    BY <2>1, <2>2, <2>4, <2>5 DEF TypeOK
<1>3. CASE Handshake
  <2>1. agentState' \in AgentRecords
    BY <1>3, SetHealthType DEF Handshake, TypeOK
  <2>2. outbox' \in Seq(Kinds)
    BY <1>3, AppendProperties DEF Handshake, TypeOK, Kinds
  <2>3. state' \in States
    BY <1>3, EvaluateType DEF Handshake, States, Responses
  <2>4. UNCHANGED <<backoff, seqno, wire, stream, downlink, panicked>>
    BY <1>3 DEF Handshake
  <2>5. QED
    BY <2>1, <2>2, <2>3, <2>4 DEF TypeOK
<1>4. CASE Poll
  <2>1. agentState \in AgentRecords
    BY <1>4 DEF Poll, TypeOK
  <2>2. PICK h \in HealthChecked(agentState) :
              LET out == IF agentState.healthy THEN outbox ELSE Append(outbox, "Health")
              IN \/ PollFlush(out, h)
                 \/ PollReceive(out, h)
                 \/ PollClosed(out, h)
    BY <1>4 DEF Poll
  <2>3. h \in AgentRecords
    BY <2>1, HealthCheckedType
  <2>4. (IF agentState.healthy THEN outbox ELSE Append(outbox, "Health")) \in Seq(Kinds)
    BY DEF TypeOK, Kinds
  <2>5. Answer(TRUE, "OnLoop") \subseteq Seq(Kinds)
    BY AnswerType DEF Kinds
  <2>6. agentState' \in AgentRecords /\ outbox' \in Seq(Kinds) /\ downlink' \in Seq(Frames)
    <3>1. CASE PollFlush(IF agentState.healthy THEN outbox ELSE Append(outbox, "Health"), h)
      BY <2>3, <2>4, <3>1 DEF PollFlush, TypeOK
    <3>2. CASE PollReceive(IF agentState.healthy THEN outbox ELSE Append(outbox, "Health"), h)
      <4>1. downlink # <<>> /\ Head(downlink) \in Frames /\ Tail(downlink) \in Seq(Frames)
        BY <3>2, HeadTailProperties DEF PollReceive, TypeOK
      <4>2. Dispatched(Head(downlink)) \subseteq Seq(Kinds)
        BY <4>1, DispatchedType
      <4>3. agentState' \in AgentRecords
        BY <2>3, <3>2, <4>1, ReportedKeeps DEF PollReceive
      <4>4. outbox' \in Seq(Kinds)
        <5>1. PICK d \in Dispatched(Head(downlink)), l \in Answer(TRUE, "OnLoop") :
                outbox' = d \o l
          BY <3>2 DEF PollReceive
        <5>2. d \in Seq(Kinds) /\ l \in Seq(Kinds)
          BY <2>5, <4>2
        <5>3. QED
          BY <5>1, <5>2, ConcatProperties
      <4>5. QED
        BY <3>2, <4>1, <4>3, <4>4 DEF PollReceive
    <3>3. CASE PollClosed(IF agentState.healthy THEN outbox ELSE Append(outbox, "Health"), h)
      BY <2>3, <2>5, <3>3 DEF PollClosed, TypeOK
    <3>4. QED
      BY <2>2, <3>1, <3>2, <3>3
  <2>7. state' \in States
    BY <1>4, EvaluateType DEF Poll, States, Responses
  <2>8. QED
    BY <1>4, <2>6, <2>7 DEF Poll, TypeOK
<1>5. CASE Send
  <2>1. PICK k \in 0..Len(outbox) :
            /\ wire' = wire \o Posted(k) /\ seqno' \in Nat /\ seqno' >= seqno + k
    BY <1>5, FlushAppends DEF Send
  <2>2. wire' \in Seq(WireRecords)
    <3>1. Posted(k) \in Seq(WireRecords) /\ wire \in Seq(WireRecords)
      BY PostedFacts DEF TypeOK, StampOK, WireRecords
    <3>2. QED
      BY <2>1, <3>1, ConcatProperties
  <2>3. stream' \in {"None", "Open", "Closed"} /\ panicked' \in BOOLEAN /\ outbox' = <<>>
    BY <1>5 DEF Send, Flush, TypeOK
  <2>4. state' \in States
    BY <1>5, EvaluateType DEF Send, TypeOK, States, Responses
  <2>5. QED
    BY <1>5, <2>1, <2>2, <2>3, <2>4 DEF Send, TypeOK, WireRecords
<1>6. CASE Wait
  BY <1>6, EvaluateType DEF Wait, TypeOK, States, Responses
<1>7. CASE ServerPush
  <2>1. PICK f \in {[decoded |-> TRUE, msg |-> m] : m \in ServerReplies}
                     \cup {[decoded |-> FALSE, msg |-> Quiet]} :
          downlink' = Append(downlink, f)
    BY <1>7 DEF ServerPush
  <2>2. f \in Frames
    BY PushedType
  <2>3. QED
    BY <1>7, <2>1, <2>2, AppendProperties DEF ServerPush, TypeOK
<1>8. CASE ServerClose
  BY <1>8 DEF ServerClose, TypeOK
<1>9. CASE Aborted \/ UNCHANGED vars
  BY <1>9 DEF Aborted, vars, TypeOK
<1>10. QED
  BY <1>1, <1>2, <1>3, <1>4, <1>5, <1>6, <1>7, <1>8, <1>9 DEF Next, Tick

\* The type invariant of WsClient holds in every reachable state.
THEOREM TypeCorrect == Spec => []TypeOK
<1>1. Init => TypeOK
  <2> SUFFICES ASSUME Init PROVE TypeOK
    OBVIOUS
  <2>1. <<>> \in Seq(Kinds) /\ <<>> \in Seq(WireRecords) /\ <<>> \in Seq(Frames)
    OBVIOUS
  <2>2. QED
    BY <2>1 DEF Init, TypeOK, States, WireRecords
<1>2. QED
  BY <1>1, TypeStep, PTL DEF Spec

-----------------------------------------------------------------------------
(* The safety invariants.  PollHasStream is not inductive by itself: Polling
   is entered from Sending through Waiting, so Waiting must have a stream
   too, and a send reaches Waiting only when every write went to an open
   stream (a failed write or a missing stream panics and leaves the state as
   it is).  CapsStable needs the stored state to exist in every state that
   writes (connect builds it with set_health(false)), and SeqIncreasing
   needs SeqBounded, as for HTTP. *)

\* connect's set_health builds the stored state before anything is sent.
AgentBuilt == state \in {"Connected", "Polling", "Sending", "Waiting"} => agentState # NoState

\* poll and the wait before it run on a stream that connect opened.
StreamReady == state \in {"Polling", "Waiting"} => stream # "None"

IInv ==
  /\ TypeOK
  /\ AgentBuilt
  /\ StreamReady
  /\ SeqIncreasing
  /\ SeqBounded
  /\ CapsStable

\* The arms of State::evaluate the websocket client takes.
LEMMA WsEvaluateArms ==
  /\ Evaluate("Disconnected", "None") = "Connecting"
  /\ \A r \in Responses : Evaluate("Connecting", r) \in {"Connected", "Disconnected"}
  /\ Evaluate("Connected", "Reply") = "Sending"
  /\ \A r \in {"Reply", "None"} : Evaluate("Polling", r) \in {"Sending", "Polling"}
  /\ Evaluate("Sending", "Reply") = "Waiting"
  /\ Evaluate("Waiting", "Reply") = "Polling"
BY DEF Evaluate, Transition, Responses

\* connect and handshake store set_health(false): a built state, with the
\* capabilities of the state already built if there was one.
LEMMA SetHealthStep ==
  ASSUME TypeOK, NEW a \in SetHealth(agentState, FALSE)
  PROVE  /\ a \in AgentRecords /\ a # NoState
         /\ agentState # NoState => a.caps = agentState.caps
<1>1. a \in AgentRecords
  BY SetHealthType DEF TypeOK
<1>2. agentState # NoState => a.caps = agentState.caps
  BY SetHealthKeeps DEF TypeOK
<1>3. QED
  BY <1>1, <1>2, AgentAssumption

\* The wire facts of IInv, for a step that changes neither the wire nor
\* seqno and keeps the capabilities of a state that is built.
LEMMA WireKept ==
  ASSUME IInv, wire' = wire, seqno' = seqno,
         agentState' # NoState,
         agentState # NoState => agentState'.caps = agentState.caps
  PROVE  SeqIncreasing' /\ SeqBounded' /\ CapsStable'
<1>1. SeqIncreasing' /\ SeqBounded'
  BY DEF IInv, SeqIncreasing, SeqBounded
<1>2. CapsStable'
  <2>1. CASE wire = <<>>
    BY <2>1 DEF CapsStable
  <2>2. CASE wire # <<>>
    <3>1. 1 \in 1..Len(wire)
      BY <2>2, EmptySeq DEF IInv, TypeOK
    <3>2. agentState # NoState
      BY <3>1 DEF IInv, CapsStable
    <3>3. QED
      BY <3>2 DEF IInv, CapsStable
  <2>3. QED
    BY <2>1, <2>2
<1>3. QED
  BY <1>1, <1>2

\* The strengthened invariant is kept by every step.
LEMMA IInvStep == IInv /\ [Next]_vars => IInv'
<1> SUFFICES ASSUME IInv, [Next]_vars PROVE IInv'
  OBVIOUS
<1>0. TypeOK'
  BY TypeStep DEF IInv
<1>1. CASE Reconnect
  <2>1. state' = "Connecting"
    BY <1>1, WsEvaluateArms DEF Reconnect
  <2>2. QED
    BY <1>0, <1>1, <2>1 DEF Reconnect, IInv, AgentBuilt, StreamReady,
                                  SeqIncreasing, SeqBounded, CapsStable
<1>2. CASE Connect
  <2>1. state' \in {"Connected", "Disconnected"}
    BY <1>2, WsEvaluateArms DEF Connect, Responses
  <2>2. /\ agentState' \in AgentRecords /\ agentState' # NoState
        /\ agentState # NoState => agentState'.caps = agentState.caps
    BY <1>2, SetHealthStep DEF Connect, IInv
  <2>3. SeqIncreasing' /\ SeqBounded' /\ CapsStable'
    BY <1>2, <2>2, WireKept DEF Connect
  <2>4. QED
    BY <1>0, <2>1, <2>2, <2>3 DEF IInv, AgentBuilt, StreamReady
<1>3. CASE Handshake
  <2>1. state' = "Sending"
    BY <1>3, WsEvaluateArms DEF Handshake
  <2>2. /\ agentState' \in AgentRecords /\ agentState' # NoState
        /\ agentState # NoState => agentState'.caps = agentState.caps
    BY <1>3, SetHealthStep DEF Handshake, IInv
  <2>3. SeqIncreasing' /\ SeqBounded' /\ CapsStable'
    BY <1>3, <2>2, WireKept DEF Handshake
  <2>4. QED
    BY <1>0, <2>1, <2>2, <2>3 DEF IInv, AgentBuilt, StreamReady
<1>4. CASE Poll
  <2>1. state' \in {"Sending", "Polling"}
    BY <1>4, WsEvaluateArms DEF Poll
  <2>2. agentState' \in AgentRecords /\ agentState'.caps = agentState.caps
    BY <1>4, PollKeeps DEF IInv
  <2>3. agentState' # NoState
    BY <2>2, AgentAssumption
  <2>4. SeqIncreasing' /\ SeqBounded' /\ CapsStable'
    BY <1>4, <2>2, <2>3, WireKept DEF Poll
  <2>5. stream' # "None"
    BY <1>4 DEF Poll
  <2>6. QED
    BY <1>0, <2>1, <2>3, <2>4, <2>5 DEF IInv, AgentBuilt, StreamReady
<1>5. CASE Send
  <2>1. state = "Sending" /\ agentState' = agentState /\ agentState # NoState
    BY <1>5 DEF Send, IInv, AgentBuilt
  <2>2. agentState \in AgentRecords
    BY <2>1 DEF IInv, TypeOK
  <2>3. PICK k \in 0..Len(outbox) :
            /\ wire' = wire \o Posted(k) /\ seqno' \in Nat /\ seqno' >= seqno + k
    BY <1>5, FlushAppends DEF Send, IInv
  <2>4. /\ \A i, j \in 1..Len(wire') : i < j => wire'[i].seq < wire'[j].seq
        /\ \A i \in 1..Len(wire') : wire'[i].seq <= seqno'
        /\ \A i \in 1..Len(wire') : wire'[i].caps = agentState.caps
    <3>1. StampOK /\ wire \in Seq(WireRecords)
      BY DEF IInv, TypeOK, StampOK, WireRecords
    <3>2. QED
      BY <2>2, <2>3, <3>1, AppendWire DEF IInv
  <2>5. SeqIncreasing' /\ SeqBounded' /\ CapsStable'
    BY <2>1, <2>4 DEF SeqIncreasing, SeqBounded, CapsStable
  <2>6. ~panicked' => stream' = "Open" /\ state' = "Waiting"
    <3>1. ~panicked
      BY <1>5 DEF Send
    <3>2. ~panicked' => stream = "Open" /\ stream' = stream
      BY <1>5, <3>1 DEF Send, Flush
    <3>3. QED
      BY <1>5, <3>2, WsEvaluateArms DEF Send
  <2>7. panicked' => state' = state
    BY <1>5 DEF Send
  <2>8. QED
    BY <1>0, <2>1, <2>5, <2>6, <2>7 DEF IInv, AgentBuilt, StreamReady
<1>6. CASE Wait
  <2>1. state = "Waiting" /\ state' = "Polling"
    BY <1>6, WsEvaluateArms DEF Wait
  <2>2. QED
    BY <1>0, <1>6, <2>1 DEF Wait, IInv, AgentBuilt, StreamReady,
                            SeqIncreasing, SeqBounded, CapsStable
<1>7. CASE ServerPush
  BY <1>0, <1>7 DEF ServerPush, IInv, AgentBuilt, StreamReady,
                   SeqIncreasing, SeqBounded, CapsStable
<1>8. CASE ServerClose
  BY <1>0, <1>8 DEF ServerClose, IInv, AgentBuilt, StreamReady,
                   SeqIncreasing, SeqBounded, CapsStable
<1>9. CASE Aborted \/ UNCHANGED vars
  BY <1>0, <1>9 DEF Aborted, vars, IInv, AgentBuilt, StreamReady,
                   SeqIncreasing, SeqBounded, CapsStable
<1>10. QED
  BY <1>1, <1>2, <1>3, <1>4, <1>5, <1>6, <1>7, <1>8, <1>9 DEF Next, Tick

\* The strengthened invariant holds in every reachable state.
THEOREM InvariantHolds == Spec => []IInv
<1>1. Init => IInv
  <2> SUFFICES ASSUME Init PROVE IInv
    OBVIOUS
  <2>1. TypeOK
    <3>1. <<>> \in Seq(Kinds) /\ <<>> \in Seq(WireRecords) /\ <<>> \in Seq(Frames)
      OBVIOUS
    <3>2. QED
      BY <3>1 DEF Init, TypeOK, States, WireRecords
  <2>2. QED
    BY <2>1 DEF Init, IInv, AgentBuilt, StreamReady, SeqIncreasing, SeqBounded,
                CapsStable
<1>2. QED
  BY <1>1, IInvStep, PTL DEF Spec

\* The unwrap of self.stream in receive (poll) never panics: for every value
\* of the constants, Polling is only reached on a stream connect opened, even
\* though a failed connect leads to Connected with no stream.
THEOREM PollHasStreamHolds == Spec => []PollHasStream
<1>1. IInv => PollHasStream
  BY DEF IInv, StreamReady, PollHasStream
<1>2. QED
  BY <1>1, InvariantHolds, PTL

\* Spec §8 for every value of the constants: the sequence numbers the server
\* receives from flush are strictly increasing, also when a write failed.
THEOREM SeqIncreasingHolds == Spec => []SeqIncreasing
BY InvariantHolds, PTL DEF IInv

\* Spec §8 for every value of the constants: every frame the server receives
\* carries the capabilities get_features returned once.
THEOREM CapsStableHolds == Spec => []CapsStable
BY InvariantHolds, PTL DEF IInv

-----------------------------------------------------------------------------
(* Refinement: the websocket client implements OutboundChannel under the
   mapping of OpampAgent.  connect and handshake store set_health(false),
   the first of them the abstract Choose; a flush that writes is a Deliver,
   whether or not a later write of its batch panics; the server's frames
   and its close, poll, wait and the aborted process change nothing the
   server received. *)

\* Every step of the websocket client is a step of OutboundChannel under the
\* mapping, or leaves the mapping unchanged.
LEMMA StepRefines == IInv /\ IInv' /\ [Next]_vars => [Channel!Next]_Channel!vars
<1> SUFFICES ASSUME IInv, IInv', [Next]_vars PROVE [Channel!Next]_Channel!vars
  OBVIOUS
<1>0. agentState \in AgentRecords \cup {NoState}
  BY DEF IInv, TypeOK
<1>1. CASE Reconnect \/ Wait \/ ServerPush \/ ServerClose \/ Aborted \/ UNCHANGED vars
  <2>1. wire' = wire /\ agentState' = agentState
    BY <1>1 DEF Reconnect, Wait, ServerPush, ServerClose, Aborted, vars
  <2>2. QED
    BY <2>1, MappingKept DEF StoredCaps
<1>2. CASE Connect \/ Handshake
  <2>1. PICK a \in SetHealth(agentState, FALSE) : agentState' = a
    BY <1>2 DEF Connect, Handshake
  <2>2. wire' = wire
    BY <1>2 DEF Connect, Handshake
  <2>3. QED
    BY <1>0, <2>1, <2>2, SetHealthStep, StoreStep DEF IInv
<1>3. CASE Poll
  <2>1. agentState \in AgentRecords /\ wire' = wire
    BY <1>3 DEF Poll, IInv, TypeOK
  <2>2. agentState' \in AgentRecords /\ agentState'.caps = agentState.caps
    BY <1>3, PollKeeps DEF IInv
  <2>3. QED
    BY <2>1, <2>2, StoreStep
<1>4. CASE Send
  <2>1. agentState' = agentState /\ agentState \in AgentRecords
    BY <1>4 DEF Send, IInv, TypeOK, AgentBuilt
  <2>2. PICK k \in 0..Len(outbox) : wire' = wire \o Posted(k)
    BY <1>4, FlushAppends DEF Send, IInv
  <2>3. StampOK /\ wire \in Seq(WireRecords)
    BY DEF IInv, StampOK, TypeOK, WireRecords
  <2>4. /\ \A i, j \in 1..Len(wire') : i < j => wire'[i].seq < wire'[j].seq
        /\ \A i \in 1..Len(wire') : wire'[i].caps = agentState.caps
    BY <2>1 DEF IInv, SeqIncreasing, CapsStable
  <2>5. QED
    BY <2>1, <2>2, <2>3, <2>4, AppendStep
<1>5. QED
  BY <1>1, <1>2, <1>3, <1>4 DEF Next, Tick

\* The websocket client implements OutboundChannel (the run ws_channel checks
\* the same formula on the small instance): what flush writes to the socket
\* is append-only, strictly numbered and stamped with the capabilities of
\* the one get_status that built the stored state, for every value of the
\* constants and although a write may fail and panic mid-batch.
THEOREM RefinesChannel == Spec => ImplementsChannel
<1>1. Init => Channel!Init
  <2> SUFFICES ASSUME Init PROVE Channel!Init
    OBVIOUS
  <2>1. Received(wire) = <<>>
    BY DEF Init, Received
  <2>2. QED
    BY <2>1 DEF Init, StoredCaps, Channel!Init
<1>2. IInv /\ IInv' /\ [Next]_vars => [Channel!Next]_Channel!vars
  BY StepRefines
<1>3. QED
  BY <1>1, <1>2, InvariantHolds, PTL DEF Spec, ImplementsChannel, Channel!Spec

-----------------------------------------------------------------------------
(* The session.  connect and handshake, the two steps that call
   set_health(false) and the only one that changes backoff, run before the
   first flush; no arm of evaluate the websocket client takes leads back
   to Connecting or Connected, and a panic stops the process where it is. *)

\* PreSession, with the type invariant, is kept by every step.
LEMMA PreSessionStep == TypeOK /\ PreSession /\ [Next]_vars => PreSession'
<1> SUFFICES ASSUME TypeOK, PreSession, [Next]_vars PROVE PreSession'
  OBVIOUS
<1>1. CASE Reconnect \/ Connect \/ ServerPush \/ ServerClose \/ Aborted \/ UNCHANGED vars
  BY <1>1 DEF Reconnect, Connect, ServerPush, ServerClose, Aborted, vars, PreSession
<1>2. CASE Handshake
  BY <1>2, WsEvaluateArms DEF Handshake, PreSession
<1>3. CASE Poll
  BY <1>3, WsEvaluateArms DEF Poll, PreSession
<1>4. CASE Send
  <2>1. state' \in {"Sending", "Waiting"}
    BY <1>4, WsEvaluateArms DEF Send
  <2>2. QED
    BY <2>1 DEF PreSession
<1>5. CASE Wait
  BY <1>5, WsEvaluateArms DEF Wait, PreSession
<1>6. QED
  BY <1>1, <1>2, <1>3, <1>4, <1>5 DEF Next, Tick

\* connect never resets backoff, but for every value of the constants
\* backoff only grows before the first frame reaches the server, so the
\* missing reset never shortens the retry budget of a later session.
THEOREM BackoffOnlyBeforeSessionHolds == Spec => BackoffOnlyBeforeSession
<1>1. Init => PreSession
  BY DEF Init, PreSession
<1>2. TypeOK /\ PreSession /\ [Next]_vars => [backoff' # backoff => wire = <<>>]_backoff
  <2> SUFFICES ASSUME TypeOK, PreSession, [Next]_vars, backoff' # backoff
               PROVE  wire = <<>>
    OBVIOUS
  <2>1. state = "Connecting"
    BY DEF Next, Tick, Reconnect, Connect, Handshake, Poll, Send, Wait,
           ServerPush, ServerClose, Aborted, vars
  <2>2. QED
    BY <2>1 DEF PreSession
<1>3. QED
  BY <1>1, <1>2, PreSessionStep, TypeCorrect, PTL DEF Spec, BackoffOnlyBeforeSession

(* The health report.  poll stores the state healthy in the step that
   enqueues the report, and the frames it reads after that only call
   set_health(true); set_health(false) runs in connect and handshake,
   where no report is pending (HealthPending) and none has been sent
   (PreSession). *)

\* The initial state is well typed.
LEMMA InitType == Init => TypeOK
<1> SUFFICES ASSUME Init PROVE TypeOK
  OBVIOUS
<1>1. <<>> \in Seq(Kinds) /\ <<>> \in Seq(WireRecords) /\ <<>> \in Seq(Frames)
  OBVIOUS
<1>2. QED
  BY <1>1 DEF Init, TypeOK, States, WireRecords

\* The invariant the health report rests on.
HealthInv == TypeOK /\ PreSession /\ HealthPending /\ HealthyAfterReport

\* set_health(b) stores a state whose health is b.
LEMMA SetHealthValue ==
  ASSUME NEW s \in AgentRecords, NEW b \in BOOLEAN, NEW x \in SetHealth(s, b)
  PROVE  x.healthy = b
<1>1. PICK y \in GetStatus(s) : x = [y EXCEPT !.healthy = b]
  BY DEF SetHealth
<1>2. y \in AgentRecords
  BY GetStatusKeeps
<1>3. QED
  BY <1>1, <1>2 DEF AgentRecords

\* Every poll stores a healthy state and ends in Polling or Sending.
LEMMA PollHealthy ==
  ASSUME TypeOK, Poll
  PROVE  /\ agentState' \in AgentRecords /\ agentState'.healthy = TRUE
         /\ state' \in {"Polling", "Sending"}
<1>1. agentState \in AgentRecords
  BY DEF Poll, TypeOK
<1>2. PICK h \in HealthChecked(agentState) :
          LET out == IF agentState.healthy THEN outbox ELSE Append(outbox, "Health")
          IN \/ PollFlush(out, h)
             \/ PollReceive(out, h)
             \/ PollClosed(out, h)
  BY DEF Poll
<1>3. h \in AgentRecords /\ h.healthy = TRUE
  BY <1>1, HealthCheckedType, HealthCheckedHealthy
<1>4. agentState' \in AgentRecords /\ agentState'.healthy = TRUE
  <2>1. CASE agentState' = h
    BY <1>3, <2>1
  <2>2. CASE agentState' # h
    <3>1. downlink # <<>> /\ agentState' \in Reported(Head(downlink), h)
      BY <1>2, <2>2 DEF PollFlush, PollReceive, PollClosed
    <3>2. Head(downlink) \in Frames
      BY <3>1 DEF TypeOK
    <3>3. CASE Head(downlink).decoded /\ Head(downlink).msg.fullState = "self"
      BY <1>3, <3>1, <3>3, SetHealthValue, SetHealthType DEF Reported
    <3>4. CASE ~(Head(downlink).decoded /\ Head(downlink).msg.fullState = "self")
      BY <1>3, <3>1, <3>4 DEF Reported
    <3>5. QED
      BY <3>3, <3>4
  <2>3. QED
    BY <2>1, <2>2
<1>5. state' \in {"Polling", "Sending"}
  BY WsEvaluateArms DEF Poll
<1>6. QED
  BY <1>4, <1>5

\* HealthInv is kept by every step.
LEMMA HealthStep == HealthInv /\ [Next]_vars => HealthInv'
<1> SUFFICES ASSUME TypeOK, PreSession, HealthPending, HealthyAfterReport, [Next]_vars
             PROVE  HealthInv'
  BY DEF HealthInv
<1>1. TypeOK' /\ PreSession'
  BY TypeStep, PreSessionStep
<1>2. CASE Reconnect \/ Wait \/ ServerPush \/ ServerClose \/ Aborted \/ UNCHANGED vars
  <2>1. outbox' = outbox /\ wire' = wire /\ agentState' = agentState
    BY <1>2 DEF Reconnect, Wait, ServerPush, ServerClose, Aborted, vars
  <2>2. state' # state => state \notin {"Polling", "Sending"}
    BY <1>2 DEF Reconnect, Wait, ServerPush, ServerClose, Aborted, vars
  <2>3. QED
    BY <1>1, <2>1, <2>2 DEF HealthInv, HealthPending, HealthInOutbox, HealthyAfterReport
<1>3. CASE Connect \/ Handshake
  <2>1. ~HealthInOutbox /\ wire = <<>>
    BY <1>3 DEF Connect, Handshake, HealthPending, PreSession
  <2>2. \/ outbox' = outbox
        \/ outbox' = Append(outbox, "Handshake")
    BY <1>3 DEF Connect, Handshake
  <2>3. wire' = wire
    BY <1>3 DEF Connect, Handshake
  <2>4. ~HealthInOutbox'
    BY <2>1, <2>2 DEF HealthInOutbox, TypeOK
  <2>5. ~HealthOnWire'
    BY <2>1, <2>3 DEF HealthOnWire
  <2>6. QED
    BY <1>1, <2>4, <2>5 DEF HealthInv, HealthPending, HealthyAfterReport,
                            HealthInOutbox, HealthOnWire
<1>4. CASE Poll
  <2>1. /\ agentState' \in AgentRecords /\ agentState'.healthy = TRUE
        /\ state' \in {"Polling", "Sending"}
    BY <1>4, PollHealthy
  <2>2. agentState' # NoState
    BY <2>1, AgentAssumption
  <2>3. QED
    BY <1>1, <2>1, <2>2 DEF HealthInv, HealthPending, HealthyAfterReport
<1>5. CASE Send
  <2>1. outbox' = <<>> /\ agentState' = agentState
    BY <1>5 DEF Send, Flush
  <2>2. PICK k \in 0..Len(outbox) : wire' = wire \o Posted(k)
    BY <1>5, FlushAppends DEF Send
  <2>3. HealthOnWire' => HealthOnWire \/ HealthInOutbox
    <3> SUFFICES ASSUME NEW i \in 1..Len(wire'), wire'[i].kind = "Health"
                 PROVE  HealthOnWire \/ HealthInOutbox
      BY DEF HealthOnWire
    <3>1. StampOK /\ wire \in Seq(WireRecords)
      BY DEF TypeOK, StampOK, WireRecords
    <3>2. QED
      BY <2>2, <3>1, HealthPosted
  <2>4. ~HealthInOutbox'
    BY <2>1 DEF HealthInOutbox
  <2>5. HealthyAfterReport'
    BY <2>1, <2>3, <2>4 DEF HealthyAfterReport, HealthInOutbox, HealthOnWire
  <2>6. QED
    BY <1>1, <2>4, <2>5 DEF HealthInv, HealthPending
<1>6. QED
  BY <1>2, <1>3, <1>4, <1>5 DEF Next, Tick

\* Spec §8 for every value of the constants: after a poll() that produced a
\* health report, the stored state is healthy, while the report waits and
\* after the server has received it.
THEOREM HealthyAfterReportHolds == Spec => []HealthyAfterReport
<1>1. Init => HealthInv
  <2> SUFFICES ASSUME Init PROVE HealthInv
    OBVIOUS
  <2>1. TypeOK
    BY InitType
  <2>2. QED
    BY <2>1 DEF Init, HealthInv, PreSession, HealthPending, HealthyAfterReport,
                HealthInOutbox
<1>2. QED
  BY <1>1, HealthStep, PTL DEF Spec, HealthInv

-----------------------------------------------------------------------------
(* Numbering without gaps.  Every number flush takes is written, except the
   one of a write that fails; that write panics and nothing is written
   after it.  So while the process runs, seqno counts the frames the
   server received. *)

\* The invariant SeqConsecutive rests on.
ConsInv == TypeOK /\ SeqConsecutive /\ (~panicked => seqno = Len(wire))

\* ConsInv is kept by every step.
LEMMA ConsStep == ConsInv /\ [Next]_vars => ConsInv'
<1> SUFFICES ASSUME TypeOK, SeqConsecutive, ~panicked => seqno = Len(wire), [Next]_vars
             PROVE  ConsInv'
  BY DEF ConsInv
<1>1. TypeOK'
  BY TypeStep
<1>2. CASE Reconnect \/ Connect \/ Handshake \/ Poll \/ Wait \/ ServerPush \/ ServerClose
             \/ Aborted \/ UNCHANGED vars
  <2>1. wire' = wire /\ seqno' = seqno /\ panicked' = panicked
    BY <1>2 DEF Reconnect, Connect, Handshake, Poll, Wait, ServerPush, ServerClose,
                Aborted, vars
  <2>2. QED
    BY <1>1, <2>1 DEF ConsInv, SeqConsecutive
<1>3. CASE Send
  <2>1. seqno = Len(wire) /\ StampOK /\ wire \in Seq(WireRecords)
    BY <1>3 DEF Send, TypeOK, StampOK, WireRecords
  <2>2. \A i \in 1..Len(wire) : wire[i].seq = i
    BY DEF SeqConsecutive
  <2>3. CASE stream = "Open" /\ wire' = wire \o Posted(Len(outbox))
             /\ seqno' = seqno + Len(outbox) /\ panicked' = panicked
    <3>1. Len(outbox) \in 0..Len(outbox)
      BY DEF TypeOK
    <3>2. QED
      BY <1>1, <2>1, <2>2, <2>3, <3>1, ConcatConsecutive DEF ConsInv, SeqConsecutive
  <2>4. CASE \E n \in 0..(Len(outbox) - 1) : wire' = wire \o Posted(n) /\ panicked'
    <3>1. PICK n \in 0..(Len(outbox) - 1) : wire' = wire \o Posted(n) /\ panicked'
      BY <2>4
    <3>2. n \in 0..Len(outbox)
      BY DEF TypeOK
    <3>3. QED
      BY <1>1, <2>1, <2>2, <3>1, <3>2, ConcatConsecutive DEF ConsInv, SeqConsecutive
  <2>5. CASE wire' = wire /\ panicked'
    BY <1>1, <2>5 DEF ConsInv, SeqConsecutive
  <2>6. QED
    BY <1>3, <2>3, <2>4, <2>5 DEF Send, Flush
<1>4. QED
  BY <1>2, <1>3 DEF Next, Tick

\* Spec §3 and scenarios 1 and 4 for every value of the constants: the
\* websocket server receives the sequence numbers 1, 2, 3, ... with no gap,
\* although a write that fails mid-batch has taken a number.
THEOREM SeqConsecutiveHolds == Spec => []SeqConsecutive
<1>1. Init => ConsInv
  <2> SUFFICES ASSUME Init PROVE ConsInv
    OBVIOUS
  <2>1. TypeOK
    BY InitType
  <2>2. QED
    BY <2>1 DEF Init, ConsInv, SeqConsecutive
<1>2. QED
  BY <1>1, ConsStep, PTL DEF Spec, ConsInv

=============================================================================
