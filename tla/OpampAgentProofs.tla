--------------------------- MODULE OpampAgentProofs ---------------------------
(***************************************************************************)
(* Facts about the operators both transports are built from (OpampAgent    *)
(* and OpampState): the types of what evaluate, the callbacks, the         *)
(* dispatcher and the state store return, what a stamped batch looks like, *)
(* how appending a batch keeps the wire increasing and stamped, and what    *)
(* appending looks like through the refinement mapping to OutboundChannel. *)
(* HttpClientProofs and WsClientProofs cite them.                          *)
(***************************************************************************)
EXTENDS OpampAgent, SequenceTheorems, TLAPS

\* A message on the wire, and one the abstract stream sees.
WireRecords == [kind: Kinds, seq: Nat, caps: Nat]
AbstractRecords == [seq: Nat, caps: Nat]

\* The variables a stamp reads, in their types.
StampOK ==
  /\ seqno \in Nat
  /\ agentState \in AgentRecords \cup {NoState}
  /\ outbox \in Seq(Kinds)

\* Every arm of State::evaluate lands in a state of `enum State`.
LEMMA EvaluateType ==
  ASSUME NEW s \in States, NEW r \in Responses
  PROVE  Evaluate(s, r) \in States
BY DEF Evaluate, Transition, States, Responses

\* A callback outcome is a sequence of at most one message.
LEMMA AnswerType ==
  ASSUME NEW b \in BOOLEAN, NEW k \in Kinds
  PROVE  Answer(b, k) \subseteq Seq(Kinds)
<1>1. <<>> \in Seq(Kinds) /\ <<k>> \in Seq(Kinds)
  OBVIOUS
<1>2. CASE b /\ CanReply
  BY <1>1, <1>2 DEF Answer
<1>3. CASE ~(b /\ CanReply)
  BY <1>1, <1>3 DEF Answer
<1>4. QED
  BY <1>2, <1>3

\* Running two blocks that enqueue sequences of messages enqueues a sequence.
LEMMA ThenType ==
  ASSUME NEW S \in SUBSET Seq(Kinds), NEW T \in SUBSET Seq(Kinds)
  PROVE  Then(S, T) \subseteq Seq(Kinds)
<1> SUFFICES ASSUME NEW z \in Then(S, T) PROVE z \in Seq(Kinds)
  OBVIOUS
<1>1. PICK x \in S, y \in T : z = x \o y
  BY DEF Then
<1>2. QED
  BY <1>1

\* What the dispatcher enqueues for one ServerToAgent is a sequence of messages.
LEMMA DispatchType ==
  ASSUME NEW m \in ServerMsgRecords
  PROVE  Dispatch(m) \subseteq Seq(Kinds)
<1>1. /\ m.command \in BOOLEAN /\ m.remoteConfig \in BOOLEAN /\ m.packages \in BOOLEAN
      /\ ("metrics" \in m.offers) \in BOOLEAN /\ ("traces" \in m.offers) \in BOOLEAN
      /\ ("logs" \in m.offers) \in BOOLEAN /\ (m.fullState = "other") \in BOOLEAN
  BY DEF ServerMsgRecords
<1>2. FullStateAnswer(m) \subseteq Seq(Kinds)
  <2>1. <<"FullState">> \in Seq(Kinds)
    BY DEF Kinds
  <2>2. QED
    BY <1>1, <2>1, AnswerType DEF FullStateAnswer, Kinds
<1>3. /\ Answer(m.command, "OnCommand") \subseteq Seq(Kinds)
      /\ Answer(m.remoteConfig, "OnRemoteConfig") \subseteq Seq(Kinds)
      /\ Answer("metrics" \in m.offers, "OnOffer") \subseteq Seq(Kinds)
      /\ Answer("traces" \in m.offers, "OnOffer") \subseteq Seq(Kinds)
      /\ Answer("logs" \in m.offers, "OnOffer") \subseteq Seq(Kinds)
      /\ Answer(m.packages, "OnPackages") \subseteq Seq(Kinds)
  BY <1>1, AnswerType DEF Kinds
<1>4. QED
  BY <1>2, <1>3, ThenType DEF Dispatch

\* The stored state get_status returns is a stored state.
LEMMA GetStatusType ==
  ASSUME NEW s \in AgentRecords \cup {NoState}
  PROVE  GetStatus(s) \subseteq AgentRecords
<1>1. CASE s = NoState
  <2>1. \A f \in Features : [caps |-> f, healthy |-> FALSE] \in AgentRecords
    BY DEF AgentRecords
  <2>2. QED
    BY <1>1, <2>1 DEF GetStatus
<1>2. CASE s # NoState
  BY <1>2 DEF GetStatus
<1>3. QED
  BY <1>1, <1>2

\* So is the one the health check of poll() leaves.
LEMMA HealthCheckedType ==
  ASSUME NEW s \in AgentRecords
  PROVE  HealthChecked(s) \subseteq AgentRecords
BY AgentAssumption DEF HealthChecked, GetStatus, AgentRecords

\* Once built, the stored state is what get_status returns.
LEMMA GetStatusKeeps ==
  ASSUME NEW s \in AgentRecords
  PROVE  GetStatus(s) = {s}
BY AgentAssumption DEF GetStatus

\* The health check of poll() keeps the stored capabilities.
LEMMA HealthCheckedKeeps ==
  ASSUME NEW s \in AgentRecords, NEW x \in HealthChecked(s)
  PROVE  x \in AgentRecords /\ x.caps = s.caps
<1>1. CASE s.healthy
  BY <1>1 DEF HealthChecked
<1>2. CASE ~s.healthy
  <2>1. PICK y \in GetStatus(s) : x = [y EXCEPT !.healthy = TRUE]
    BY <1>2 DEF HealthChecked
  <2>2. y = s
    BY <2>1, GetStatusKeeps
  <2>3. QED
    BY <2>1, <2>2 DEF AgentRecords
<1>3. QED
  BY <1>1, <1>2

\* Appending messages numbered q+1, q+2, ... to a wire whose numbers are
\* increasing and at most q keeps the numbers increasing, at most q + Len(P).
LEMMA ConcatIncreasing ==
  ASSUME NEW w \in Seq(WireRecords), NEW P \in Seq(WireRecords), NEW q \in Nat,
         \A i, j \in 1..Len(w) : i < j => w[i].seq < w[j].seq,
         \A i \in 1..Len(w) : w[i].seq <= q,
         \A i \in 1..Len(P) : P[i].seq = q + i
  PROVE  /\ \A i, j \in 1..Len(w \o P) : i < j => (w \o P)[i].seq < (w \o P)[j].seq
         /\ \A i \in 1..Len(w \o P) : (w \o P)[i].seq <= q + Len(P)
<1>1. /\ Len(w \o P) = Len(w) + Len(P)
      /\ \A i \in 1..Len(w) + Len(P) :
            (w \o P)[i] = IF i <= Len(w) THEN w[i] ELSE P[i - Len(w)]
  BY ConcatProperties
<1>2. ASSUME NEW i \in 1..Len(w) PROVE w[i].seq \in Nat
  <2>1. w[i] \in WireRecords
    BY ElementOfSeq
  <2>2. QED
    BY <2>1 DEF WireRecords
<1>3. Len(w) \in Nat /\ Len(P) \in Nat
  BY LenProperties
<1>4. \A i, j \in 1..Len(w \o P) : i < j => (w \o P)[i].seq < (w \o P)[j].seq
  <2> SUFFICES ASSUME NEW i \in 1..Len(w \o P), NEW j \in 1..Len(w \o P), i < j
               PROVE  (w \o P)[i].seq < (w \o P)[j].seq
    OBVIOUS
  <2>1. CASE j <= Len(w)
    BY <1>1, <1>3, <2>1
  <2>2. CASE i <= Len(w) /\ j > Len(w)
    <3>1. j - Len(w) \in 1..Len(P) /\ i \in 1..Len(w)
      BY <1>1, <1>3, <2>2
    <3>2. (w \o P)[j] = P[j - Len(w)] /\ (w \o P)[i] = w[i]
      BY <1>1, <1>3, <2>2
    <3>3. P[j - Len(w)].seq = q + (j - Len(w)) /\ w[i].seq <= q
      BY <3>1
    <3>4. w[i].seq \in Nat
      BY <1>2, <3>1
    <3>5. QED
      BY <1>3, <3>1, <3>2, <3>3, <3>4
  <2>3. CASE i > Len(w)
    <3>1. j - Len(w) \in 1..Len(P) /\ i - Len(w) \in 1..Len(P)
      BY <1>1, <1>3, <2>3
    <3>2. (w \o P)[j] = P[j - Len(w)] /\ (w \o P)[i] = P[i - Len(w)]
      BY <1>1, <1>3, <2>3
    <3>3. P[j - Len(w)].seq = q + (j - Len(w)) /\ P[i - Len(w)].seq = q + (i - Len(w))
      BY <3>1
    <3>4. QED
      BY <1>3, <3>2, <3>3
  <2>4. QED
    BY <1>3, <2>1, <2>2, <2>3
<1>5. \A i \in 1..Len(w \o P) : (w \o P)[i].seq <= q + Len(P)
  <2> SUFFICES ASSUME NEW i \in 1..Len(w \o P)
               PROVE  (w \o P)[i].seq <= q + Len(P)
    OBVIOUS
  <2>1. CASE i <= Len(w)
    <3>1. i \in 1..Len(w)
      BY <1>1, <1>3, <2>1
    <3>2. (w \o P)[i] = w[i]
      BY <1>1, <1>3, <2>1
    <3>3. w[i].seq <= q /\ w[i].seq \in Nat
      BY <1>2, <3>1
    <3>4. QED
      BY <1>3, <3>2, <3>3
  <2>2. CASE i > Len(w)
    <3>1. i - Len(w) \in 1..Len(P)
      BY <1>1, <1>3, <2>2
    <3>2. (w \o P)[i] = P[i - Len(w)]
      BY <1>1, <1>3, <2>2
    <3>3. P[i - Len(w)].seq = q + (i - Len(w))
      BY <3>1
    <3>4. QED
      BY <1>3, <3>1, <3>2, <3>3
  <2>3. QED
    BY <1>3, <2>1, <2>2
<1>6. QED
  BY <1>4, <1>5

\* The messages a send stamps: numbered from seqno + 1, with the stored
\* capabilities.
LEMMA PostedFacts ==
  ASSUME StampOK, NEW n \in 0..Len(outbox)
  PROVE  /\ Posted(n) \in Seq(WireRecords)
         /\ Len(Posted(n)) = n
         /\ \A i \in 1..n : Posted(n)[i].seq = seqno + i
         /\ agentState # NoState =>
               \A i \in 1..n : Posted(n)[i].caps = agentState.caps
<1>1. agentState # NoState => agentState.caps \in Nat
  BY AgentAssumption DEF AgentRecords, StampOK
<1>2. \A i \in 1..n : Stamp(outbox[i], i) \in WireRecords
  <2> SUFFICES ASSUME NEW i \in 1..n
               PROVE  Stamp(outbox[i], i) \in WireRecords
    OBVIOUS
  <2>1. outbox[i] \in Kinds
    BY ElementOfSeq DEF StampOK
  <2>2. QED
    BY <1>1, <2>1 DEF Stamp, WireRecords, StampOK
<1>3. Posted(n) \in Seq(WireRecords)
  BY <1>2, IsASeq DEF Posted
<1>4. QED
  BY <1>3 DEF Posted, Stamp

\* Every message of two concatenated wires carries the capabilities c when
\* every message of each does.
LEMMA ConcatCaps ==
  ASSUME NEW w \in Seq(WireRecords), NEW P \in Seq(WireRecords), NEW c,
         \A i \in 1..Len(w) : w[i].caps = c,
         \A i \in 1..Len(P) : P[i].caps = c
  PROVE  \A i \in 1..Len(w \o P) : (w \o P)[i].caps = c
<1> SUFFICES ASSUME NEW i \in 1..Len(w \o P) PROVE (w \o P)[i].caps = c
  OBVIOUS
<1>1. /\ Len(w \o P) = Len(w) + Len(P)
      /\ \A k \in 1..Len(w) + Len(P) :
            (w \o P)[k] = IF k <= Len(w) THEN w[k] ELSE P[k - Len(w)]
  BY ConcatProperties
<1>2. Len(w) \in Nat /\ Len(P) \in Nat
  BY LenProperties
<1>3. CASE i <= Len(w)
  <2>1. i \in 1..Len(w) /\ (w \o P)[i] = w[i]
    BY <1>1, <1>2, <1>3
  <2>2. QED
    BY <2>1
<1>4. CASE i > Len(w)
  <2>1. i - Len(w) \in 1..Len(P) /\ (w \o P)[i] = P[i - Len(w)]
    BY <1>1, <1>2, <1>4
  <2>2. QED
    BY <2>1
<1>5. QED
  BY <1>3, <1>4, <1>2

\* The arms of State::evaluate that leave Disconnected, Connecting and Waiting.
LEMMA EvaluateArms ==
  /\ Evaluate("Disconnected", "None") = "Connecting"
  /\ \A r \in Responses : Evaluate("Connecting", r) \in {"Connected", "Disconnected"}
  /\ Evaluate("Waiting", "Reply") = "Polling"
BY DEF Evaluate, Transition, Responses

\* Every sequence number the server has seen was taken from seqno.
SeqBounded == \A i \in 1..Len(wire) : wire[i].seq <= seqno

\* A send or flush that puts the first k messages of the outbox on a wire
\* that is increasing, bounded by seqno and stamped with the stored
\* capabilities, and leaves seqno at q2 >= seqno + k, keeps the wire
\* increasing, bounded by q2, and stamped with the stored capabilities.
LEMMA AppendWire ==
  ASSUME StampOK, agentState \in AgentRecords, wire \in Seq(WireRecords),
         SeqIncreasing, SeqBounded, CapsStable,
         NEW k \in 0..Len(outbox), NEW q2 \in Nat, q2 >= seqno + k
  PROVE  LET w2 == wire \o Posted(k) IN
           /\ \A i, j \in 1..Len(w2) : i < j => w2[i].seq < w2[j].seq
           /\ \A i \in 1..Len(w2) : w2[i].seq <= q2
           /\ \A i \in 1..Len(w2) : w2[i].caps = agentState.caps
<1>1. agentState # NoState
  BY AgentAssumption
<1>2. /\ Posted(k) \in Seq(WireRecords)
      /\ Len(Posted(k)) = k
      /\ \A i \in 1..k : Posted(k)[i].seq = seqno + i
      /\ \A i \in 1..k : Posted(k)[i].caps = agentState.caps
  BY <1>1, PostedFacts
<1>3. wire \in Seq(WireRecords) /\ seqno \in Nat
  BY DEF StampOK
<1>4. /\ \A i, j \in 1..Len(wire \o Posted(k)) :
            i < j => (wire \o Posted(k))[i].seq < (wire \o Posted(k))[j].seq
      /\ \A i \in 1..Len(wire \o Posted(k)) : (wire \o Posted(k))[i].seq <= seqno + k
  BY <1>2, <1>3, ConcatIncreasing DEF SeqIncreasing, SeqBounded
<1>5. \A i \in 1..Len(wire \o Posted(k)) : (wire \o Posted(k))[i].seq \in Nat
  <2>1. wire \o Posted(k) \in Seq(WireRecords)
    BY <1>2, <1>3, ConcatProperties
  <2> SUFFICES ASSUME NEW i \in 1..Len(wire \o Posted(k))
               PROVE  (wire \o Posted(k))[i].seq \in Nat
    OBVIOUS
  <2>2. (wire \o Posted(k))[i] \in WireRecords
    BY <2>1, ElementOfSeq
  <2>3. QED
    BY <2>2 DEF WireRecords
<1>6. \A i \in 1..Len(wire \o Posted(k)) : (wire \o Posted(k))[i].caps = agentState.caps
  BY <1>2, <1>3, ConcatCaps DEF CapsStable
<1>7. \A i \in 1..Len(wire \o Posted(k)) : (wire \o Posted(k))[i].seq <= q2
  BY <1>3, <1>4, <1>5
<1>8. QED
  BY <1>4, <1>6, <1>7

\* Forgetting the kinds keeps the length of a wire and each number and stamp.
LEMMA ReceivedFacts ==
  ASSUME NEW w \in Seq(WireRecords)
  PROVE  /\ Received(w) \in Seq(AbstractRecords)
         /\ Len(Received(w)) = Len(w)
         /\ \A i \in 1..Len(w) : /\ Received(w)[i].seq = w[i].seq
                                 /\ Received(w)[i].caps = w[i].caps
<1>1. Len(w) \in Nat /\ \A i \in 1..Len(w) : w[i] \in WireRecords
  BY LenProperties, ElementOfSeq
<1>2. Received(w) \in Seq(AbstractRecords)
  BY <1>1, IsASeq DEF Received, WireRecords, AbstractRecords
<1>3. Len(Received(w)) = Len(w)
  BY <1>1, <1>2, LenProperties DEF Received
<1>4. QED
  BY <1>2, <1>3 DEF Received

\* Appending a non-empty batch P to a wire w, when the result is increasing
\* and stamped with c throughout, is a Deliver step of the forgetful images.
LEMMA AppendDelivers ==
  ASSUME NEW w \in Seq(WireRecords), NEW P \in Seq(WireRecords), P # <<>>, NEW c,
         \A i, j \in 1..Len(w \o P) : i < j => (w \o P)[i].seq < (w \o P)[j].seq,
         \A i \in 1..Len(w \o P) : (w \o P)[i].caps = c
  PROVE  /\ Len(Received(w \o P)) > Len(Received(w))
         /\ SubSeq(Received(w \o P), 1, Len(Received(w))) = Received(w)
         /\ \A i \in Len(Received(w)) + 1 .. Len(Received(w \o P)) :
               /\ Received(w \o P)[i].caps = c
               /\ \A j \in 1 .. i - 1 :
                     Received(w \o P)[j].seq < Received(w \o P)[i].seq
<1> DEFINE W2 == w \o P
           R == Received(w)
           R2 == Received(W2)
<1>1. /\ W2 \in Seq(WireRecords)
      /\ Len(W2) = Len(w) + Len(P)
      /\ \A i \in 1..Len(w) : W2[i] = w[i]
  BY ConcatProperties
<1>2. Len(P) > 0 /\ Len(w) \in Nat
  BY EmptySeq, LenProperties
<1>3. /\ R \in Seq(AbstractRecords) /\ Len(R) = Len(w)
      /\ \A i \in 1..Len(w) : R[i].seq = w[i].seq /\ R[i].caps = w[i].caps
  BY ReceivedFacts
<1>4. /\ R2 \in Seq(AbstractRecords) /\ Len(R2) = Len(W2)
      /\ \A i \in 1..Len(W2) : R2[i].seq = W2[i].seq /\ R2[i].caps = W2[i].caps
  BY <1>1, ReceivedFacts
<1>5. Len(R2) > Len(R)
  BY <1>1, <1>2, <1>3, <1>4
<1>6. SubSeq(R2, 1, Len(R)) = R
  <2>1. \A i \in 1..Len(w) : R2[i] \in AbstractRecords
    BY <1>1, <1>2, <1>4, ElementOfSeq
  <2>2. /\ SubSeq(R2, 1, Len(w)) \in Seq(AbstractRecords)
        /\ Len(SubSeq(R2, 1, Len(w))) = Len(w)
        /\ \A i \in 1..Len(w) : SubSeq(R2, 1, Len(w))[i] = R2[i]
    BY <1>2, <2>1, SubSeqProperties
  <2>3. \A i \in 1..Len(w) : R2[i] = R[i]
    <3> SUFFICES ASSUME NEW i \in 1..Len(w) PROVE R2[i] = R[i]
      OBVIOUS
    <3>1. i \in 1..Len(W2) /\ W2[i] = w[i]
      BY <1>1, <1>2
    <3>2. QED
      BY <3>1 DEF Received
  <2>4. QED
    BY <1>3, <2>2, <2>3, SeqEqual
<1>7. ASSUME NEW i \in Len(R) + 1 .. Len(R2)
      PROVE  /\ R2[i].caps = c
             /\ \A j \in 1 .. i - 1 : R2[j].seq < R2[i].seq
  <2>1. i \in 1..Len(W2)
    BY <1>2, <1>3, <1>4
  <2>2. R2[i].caps = c
    BY <1>4, <2>1
  <2>3. ASSUME NEW j \in 1 .. i - 1 PROVE R2[j].seq < R2[i].seq
    <3>1. j \in 1..Len(W2) /\ j < i
      BY <2>1
    <3>2. W2[j].seq < W2[i].seq
      BY <2>1, <3>1
    <3>3. QED
      BY <1>4, <2>1, <3>1, <3>2
  <2>4. QED
    BY <2>2, <2>3
<1>8. QED
  BY <1>5, <1>6, <1>7

\* A step that changes neither the wire nor the stored capabilities is a
\* stuttering step of the abstract stream.
LEMMA MappingKept ==
  ASSUME wire' = wire, StoredCaps' = StoredCaps
  PROVE  [Channel!Next]_Channel!vars
BY DEF Channel!vars

\* A step that keeps the wire and stores a built state is the abstract
\* Choose when it builds the first one, and a stutter when it keeps the
\* capabilities of the one already built.
LEMMA StoreStep ==
  ASSUME agentState \in AgentRecords \cup {NoState}, agentState' \in AgentRecords,
         wire' = wire,
         agentState # NoState => agentState'.caps = agentState.caps
  PROVE  [Channel!Next]_Channel!vars
<1>1. CASE agentState = NoState
  <2>1. StoredCaps = 0 /\ StoredCaps' = agentState'.caps /\ agentState'.caps \in Features
    BY <1>1, AgentAssumption DEF StoredCaps, AgentRecords
  <2>2. Channel!Choose
    BY <2>1 DEF Channel!Choose
  <2>3. QED
    BY <2>2 DEF Channel!Next
<1>2. CASE agentState # NoState
  <2>1. agentState' # NoState
    BY AgentAssumption
  <2>2. StoredCaps' = StoredCaps
    BY <1>2, <2>1 DEF StoredCaps
  <2>3. QED
    BY <2>2, MappingKept
<1>3. QED
  BY <1>1, <1>2

\* A step that appends the first k messages of the outbox to the wire,
\* keeps the built state, and leaves the wire increasing and stamped with
\* its capabilities, is the abstract Deliver, or a stutter when k = 0.
LEMMA AppendStep ==
  ASSUME StampOK, wire \in Seq(WireRecords), agentState \in AgentRecords,
         NEW k \in 0..Len(outbox), wire' = wire \o Posted(k),
         agentState' = agentState,
         \A i, j \in 1..Len(wire') : i < j => wire'[i].seq < wire'[j].seq,
         \A i \in 1..Len(wire') : wire'[i].caps = agentState.caps
  PROVE  [Channel!Next]_Channel!vars
<1>1. Posted(k) \in Seq(WireRecords) /\ Len(Posted(k)) = k
  BY PostedFacts
<1>2. StoredCaps = agentState.caps /\ StoredCaps' = StoredCaps /\ StoredCaps # 0
  BY AgentAssumption DEF StoredCaps, AgentRecords
<1>3. CASE k = 0
  <2>1. wire' = wire
    BY <1>1, <1>3, EmptySeq, ConcatEmptySeq
  <2>2. QED
    BY <1>2, <2>1, MappingKept
<1>4. CASE k # 0
  <2>1. Posted(k) # <<>>
    BY <1>1, <1>4, EmptySeq
  <2>2. /\ Len(Received(wire \o Posted(k))) > Len(Received(wire))
        /\ SubSeq(Received(wire \o Posted(k)), 1, Len(Received(wire))) = Received(wire)
        /\ \A i \in Len(Received(wire)) + 1 .. Len(Received(wire \o Posted(k))) :
              /\ Received(wire \o Posted(k))[i].caps = StoredCaps
              /\ \A j \in 1 .. i - 1 :
                    Received(wire \o Posted(k))[j].seq < Received(wire \o Posted(k))[i].seq
    <3>1. \A i, j \in 1..Len(wire \o Posted(k)) :
            i < j => (wire \o Posted(k))[i].seq < (wire \o Posted(k))[j].seq
      OBVIOUS
    <3>2. \A i \in 1..Len(wire \o Posted(k)) : (wire \o Posted(k))[i].caps = StoredCaps
      BY <1>2
    <3>3. QED
      BY <1>1, <2>1, <3>1, <3>2, AppendDelivers
  <2>3. Channel!Deliver
    BY <1>2, <2>2 DEF Channel!Deliver
  <2>4. QED
    BY <2>3 DEF Channel!Next
<1>5. QED
  BY <1>3, <1>4

-----------------------------------------------------------------------------
(* The session.  connect and handshake, the steps that change backoff or
   set the stored health to false, run only before anything was sent; a
   health report, once enqueued, is sent before the client can get there. *)

\* Before the handshake has been sent, nothing is on the wire.
PreSession == state \in {"Disconnected", "Connecting", "Connected"} => wire = <<>>

\* A health report waits in the outbox.
HealthInOutbox == \E i \in 1..Len(outbox) : outbox[i] = "Health"

\* A health report has reached the server.
HealthOnWire == \E i \in 1..Len(wire) : wire[i].kind = "Health"

\* A pending health report is flushed before the client can leave poll
\* and send: it only waits in Polling or Sending.
HealthPending == HealthInOutbox => state \in {"Polling", "Sending"}

\* The state get_health leaves stored is healthy: it was, or set_health(true)
\* made it so.
LEMMA HealthCheckedHealthy ==
  ASSUME NEW s \in AgentRecords, NEW x \in HealthChecked(s)
  PROVE  x.healthy = TRUE
<1>1. CASE s.healthy
  BY <1>1 DEF HealthChecked, AgentRecords
<1>2. CASE ~s.healthy
  <2>1. PICK y \in GetStatus(s) : x = [y EXCEPT !.healthy = TRUE]
    BY <1>2 DEF HealthChecked
  <2>2. y \in AgentRecords
    BY GetStatusKeeps
  <2>3. QED
    BY <2>1, <2>2 DEF AgentRecords
<1>3. QED
  BY <1>1, <1>2

\* Appending the first k stamped messages of the outbox to a wire numbered
\* 1..Len(wire), when seqno is the number of the last of them, keeps the
\* wire numbered without a gap.
LEMMA ConcatConsecutive ==
  ASSUME StampOK, wire \in Seq(WireRecords), seqno = Len(wire),
         \A i \in 1..Len(wire) : wire[i].seq = i,
         NEW k \in 0..Len(outbox)
  PROVE  /\ Len(wire \o Posted(k)) = seqno + k
         /\ \A i \in 1..Len(wire \o Posted(k)) : (wire \o Posted(k))[i].seq = i
<1>1. Posted(k) \in Seq(WireRecords) /\ Len(Posted(k)) = k
      /\ \A i \in 1..k : Posted(k)[i].seq = seqno + i
  BY PostedFacts
<1>2. Len(wire \o Posted(k)) = seqno + k
  BY <1>1
<1>3. ASSUME NEW i \in 1..Len(wire \o Posted(k)) PROVE (wire \o Posted(k))[i].seq = i
  <2>1. CASE i <= Len(wire)
    BY <1>1, <2>1
  <2>2. CASE i > Len(wire)
    <3>1. i - Len(wire) \in 1..k /\ (wire \o Posted(k))[i] = Posted(k)[i - Len(wire)]
      BY <1>1, <2>2
    <3>2. QED
      BY <1>1, <3>1
  <2>3. QED
    BY <2>1, <2>2
<1>4. QED
  BY <1>2, <1>3

\* A health report on the wire after a send or flush of the first k
\* messages of the outbox was on the wire before or in the outbox.
LEMMA HealthPosted ==
  ASSUME StampOK, wire \in Seq(WireRecords), NEW k \in 0..Len(outbox),
         NEW i \in 1..Len(wire \o Posted(k)), (wire \o Posted(k))[i].kind = "Health"
  PROVE  HealthOnWire \/ HealthInOutbox
<1>1. Posted(k) \in Seq(WireRecords) /\ Len(Posted(k)) = k
  BY PostedFacts
<1>2. CASE i <= Len(wire)
  <2>1. (wire \o Posted(k))[i] = wire[i]
    BY <1>1, <1>2
  <2>2. QED
    BY <1>2, <2>1 DEF HealthOnWire
<1>3. CASE i > Len(wire)
  <2> DEFINE j == i - Len(wire)
  <2>1. j \in 1..k /\ (wire \o Posted(k))[i] = Posted(k)[j]
    BY <1>1, <1>3
  <2>2. Posted(k)[j].kind = outbox[j]
    BY <2>1 DEF Posted, Stamp
  <2>3. QED
    BY <2>1, <2>2 DEF HealthInOutbox
<1>4. QED
  BY <1>2, <1>3

=============================================================================
