------------------------- MODULE HttpClientRefinement -------------------------
(***************************************************************************)
(* The HTTP client implements the abstract outbound stream of              *)
(* OutboundChannel under the mapping of OpampAgent (received <- the wire   *)
(* without the kinds, caps <- the stored capabilities): the initial state  *)
(* maps to the abstract initial state, the handshake that builds the       *)
(* stored state is a Choose step, a send that puts messages on the wire    *)
(* is a Deliver step, and every other step leaves the mapping unchanged.   *)
(* The argument rests on the invariant IInv of HttpClientProofs, taken in  *)
(* the state after the step as well as before it.                          *)
(***************************************************************************)
EXTENDS HttpClientProofs

\* Every step of the HTTP client is a step of OutboundChannel under the
\* mapping, or leaves the mapping unchanged.
LEMMA StepRefines == IInv /\ IInv' /\ [Next]_vars => [Channel!Next]_Channel!vars
<1> SUFFICES ASSUME IInv, IInv', [Next]_vars PROVE [Channel!Next]_Channel!vars
  OBVIOUS
<1>1. CASE Reconnect \/ Connect \/ Wait \/ TimePasses \/ UNCHANGED vars
  <2>1. wire' = wire /\ agentState' = agentState
    BY <1>1 DEF Reconnect, Connect, Wait, TimePasses, vars
  <2>2. QED
    BY <2>1, MappingKept DEF StoredCaps
<1>2. CASE Handshake
  <2>1. agentState \in AgentRecords \cup {NoState} /\ wire' = wire
    BY <1>2 DEF Handshake, IInv, TypeOK
  <2>2. agentState' \in AgentRecords
    BY <1>2, <2>1, GetStatusType DEF Handshake
  <2>3. agentState # NoState => agentState' = agentState
    BY <1>2, <2>1, GetStatusKeeps DEF Handshake
  <2>4. QED
    BY <2>1, <2>2, <2>3, StoreStep
<1>3. CASE Poll
  <2>1. agentState \in AgentRecords /\ wire' = wire
    BY <1>3 DEF Poll, IInv, TypeOK
  <2>2. agentState' \in AgentRecords /\ agentState'.caps = agentState.caps
    BY <1>3, PollKeeps
  <2>3. QED
    BY <2>1, <2>2, StoreStep
<1>4. CASE Send
  <2>1. agentState' = agentState /\ agentState \in AgentRecords
    BY <1>4 DEF Send, IInv, TypeOK, AgentStateReady, Active
  <2>2. PICK k \in 0..Len(outbox) : wire' = wire \o Posted(k)
    BY <1>4, SendAppends DEF IInv
  <2>3. StampOK /\ wire \in Seq(WireRecords)
    BY DEF IInv, StampOK, TypeOK, WireRecords
  <2>4. /\ \A i, j \in 1..Len(wire') : i < j => wire'[i].seq < wire'[j].seq
        /\ \A i \in 1..Len(wire') : wire'[i].caps = agentState.caps
    BY <2>1 DEF IInv, SeqIncreasing, CapsStable
  <2>5. QED
    BY <2>1, <2>2, <2>3, <2>4, AppendStep
<1>5. QED
  BY <1>1, <1>2, <1>3, <1>4 DEF Next, Tick

\* The HTTP client implements OutboundChannel (the run http_channel checks
\* the same formula on the small instance): what its send_and_receive POSTs
\* put in front of the server is append-only, strictly numbered and stamped
\* with the capabilities of the one get_status that built the stored state,
\* for every value of the constants.
THEOREM RefinesChannel == Spec => ImplementsChannel
<1>1. Init => Channel!Init
  <2> SUFFICES ASSUME Init PROVE Channel!Init
    OBVIOUS
  <2>1. Received(wire) = <<>>
    BY DEF Init, Received
  <2>2. QED
    BY <2>1 DEF Init, StoredCaps, Channel!Init
<1>2. IInv /\ IInv' /\ [Next]_vars => [Channel!Next]_Channel!vars
  BY StepRefines
<1>3. QED
  BY <1>1, <1>2, InvariantHolds, PTL DEF Spec, ImplementsChannel, Channel!Spec

=============================================================================
