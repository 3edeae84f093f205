------------------------------ MODULE OpampAgent ------------------------------
(***************************************************************************)
(* What the two transports of src/src/httpclient and src/src/wsclient     *)
(* share: the agent state store (get_status, set_health), the inbound     *)
(* dispatcher of poll() (the same chain of callback blocks in both), the  *)
(* stamping of an outbound message with seqno and the stored              *)
(* capabilities, and the server's answers.  The functions are written     *)
(* twice in the code, once per transport, with the same lines; the map     *)
(* names the HTTP copy and each transport module maps its own actions.     *)
(***************************************************************************)
EXTENDS Naturals, Sequences, OpampState

CONSTANTS
  Features,        \* the capability values get_features may return
  ServerMsgs,      \* the ServerToAgent messages the server may send
  NoState,         \* agent_state = None
  ConnectRetries,  \* OPAMP_CONNECT_RETRIES
  MaxSeq           \* bound: callbacks and the server stop producing new
                   \* messages once seqno reaches it


\* The fields of a ServerToAgent message the dispatcher looks at.
FullStateFlags == {"none", "self", "other"}  \* ReportFullState flag unset / set
                                             \* with our instance_uid / another
Offers == {"metrics", "traces", "logs"}      \* connection_settings offers
ServerMsgRecords ==
  [command: BOOLEAN, error: BOOLEAN, fullState: FullStateFlags,
   remoteConfig: BOOLEAN, offers: SUBSET Offers, packages: BOOLEAN]

\* A ServerToAgent with none of these fields (the server has nothing to say).
Quiet ==
  [command |-> FALSE, error |-> FALSE, fullState |-> "none",
   remoteConfig |-> FALSE, offers |-> {}, packages |-> FALSE]

\* The stored AgentToServer, abstracted to what the client reads back from it.
AgentRecords == [caps: Features, healthy: BOOLEAN]

ASSUME AgentAssumption ==
  /\ Features \subseteq Nat \ {0}
  /\ Features # {}
  /\ ServerMsgs \subseteq ServerMsgRecords
  /\ Quiet \in ServerMsgs
  /\ NoState \notin AgentRecords
  /\ ConnectRetries \in Nat
  /\ MaxSeq \in Nat

\* What an outbound AgentToServer is: the full status enqueued by the
\* handshake or by a ReportFullState request, the one-field health report,
\* the empty heartbeat, or the reply of a user callback.
Kinds == {"Handshake", "FullState", "Health", "Heartbeat",
          "OnCommand", "OnHealthCheck", "OnRemoteConfig", "OnOffer",
          "OnPackages", "OnLoop"}

VARIABLES
  state,         \* self.state
  backoff,       \* self.backoff
  seqno,         \* self.seqno
  agentState,    \* self.agent_state
  outbox,        \* self.outbox
  wire           \* the messages the server has received, in order

-----------------------------------------------------------------------------
(* Helpers *)

\* Bound: a user callback may return a reply only while seqno < MaxSeq.
CanReply == seqno < MaxSeq

\* The outcomes of invoking a callback that returns Result<Option<AgentToServer>>:
\* Ok(Some(reply)) enqueues the reply; Ok(None) and Err (logged) enqueue nothing.
Answer(invoked, kind) ==
  IF invoked /\ CanReply THEN {<<>>, <<kind>>} ELSE {<<>>}

\* A mutant of GetStatus: the `is_none` test is dropped and the state is
\* rebuilt, with a fresh get_features, on every call.
GetStatusAlways(s) == {[caps |-> f, healthy |-> FALSE] : f \in Features}

\* get_status with s stored: the stored AgentToServer, built on first use
\* from get_features with the unhealthy default health.
GetStatus(s) ==
  IF s = NoState
    THEN {[caps |-> f, healthy |-> FALSE] : f \in Features}
    ELSE {s}

\* The first block of poll(): get_health unwraps the stored state; if it is
\* unhealthy, set_health(true) rewrites the result of get_status as healthy.
\* A mutant of HealthChecked: the copy is marked healthy for the report but
\* set_health(true) is not called, so the stored state stays unhealthy.
HealthCheckedNoStore(s) == IF s.healthy THEN {s} ELSE GetStatus(s)

HealthChecked(s) ==
  IF s.healthy THEN {s} ELSE {[x EXCEPT !.healthy = TRUE] : x \in GetStatus(s)}

\* A mutant of Stamp: the sequence number is taken once per send batch.
StampBatch(kind, i) ==
  [kind |-> kind, seq |-> seqno + 1,
   caps |-> IF agentState # NoState THEN agentState.caps ELSE 0]

\* A mutant of Stamp: seqno is post-incremented, so the first message
\* carries 0.
StampPostIncrement(kind, i) ==
  [kind |-> kind, seq |-> seqno + i - 1,
   caps |-> IF agentState # NoState THEN agentState.caps ELSE 0]

\* send_and_receive (HTTP) and flush (websocket) for the i-th message of a
\* batch: pre-increment seqno, then copy capabilities from the stored state
\* (left at 0 when there is none).
Stamp(kind, i) ==
  [kind |-> kind, seq |-> seqno + i,
   caps |-> IF agentState # NoState THEN agentState.caps ELSE 0]

\* The messages of the outbox the server receives when the first n of a
\* batch reach it.
Posted(n) == [i \in 1..n |-> Stamp(outbox[i], i)]

\* The ServerToAgent the server answers with; a quiet one once the bound is hit.
ServerReplies == IF seqno < MaxSeq THEN ServerMsgs ELSE {Quiet}


\* The outcomes of running one block of code, then another: each pair of
\* their enqueued messages, the first block's first.
Then(S, T) == {x \o y : x \in S, y \in T}

\* The ReportFullState block: our instance_uid enqueues get_status; another
\* instance_uid goes to on_health_check.
FullStateAnswer(m) ==
  IF m.fullState = "self" THEN {<<"FullState">>}
  ELSE Answer(m.fullState = "other", "OnHealthCheck")

\* The replies the dispatcher of poll() enqueues for one ServerToAgent m, in
\* the order the code tests its fields: command, error_response (on_error,
\* no reply), ReportFullState, remote_config, the three connection-settings
\* offers, packages_available.
Dispatch(m) ==
  Then(Answer(m.command, "OnCommand"),
  Then(FullStateAnswer(m),
  Then(Answer(m.remoteConfig, "OnRemoteConfig"),
  Then(Answer("metrics" \in m.offers, "OnOffer"),
  Then(Answer("traces" \in m.offers, "OnOffer"),
  Then(Answer("logs" \in m.offers, "OnOffer"),
       Answer(m.packages, "OnPackages")))))))
-----------------------------------------------------------------------------
(* Properties of what the server receives, stated for both transports. *)

\* Spec §8: the sequence numbers of the messages the server receives are
\* strictly increasing, also when a send failed after the server got it.
SeqIncreasing ==
  \A i, j \in 1..Len(wire) : i < j => wire[i].seq < wire[j].seq

\* Spec §8: every message the server receives carries the capabilities that
\* get_features returned on its first (and only) call.
CapsStable ==
  \A i \in 1..Len(wire) : agentState # NoState /\ wire[i].caps = agentState.caps

\* Spec §8: after a poll() that produced an outbound health message, the
\* stored state is healthy; it stays so while that report waits in the
\* outbox and after it has reached the server (connect and handshake, the
\* only callers of set_health(false), never run again by then).
HealthyAfterReport ==
  (\/ \E i \in 1..Len(outbox) : outbox[i] = "Health"
   \/ \E i \in 1..Len(wire) : wire[i].kind = "Health")
    => agentState # NoState /\ agentState.healthy

\* connect never resets backoff after a successful connect (spec §9 leaves
\* open whether it should).  The missing reset cannot shorten the retry
\* budget of a later session: backoff only grows before the first message
\* reaches the server, because no arm of evaluate leads either client back
\* to Connecting once its handshake has been sent.
BackoffOnlyBeforeSession == [][backoff' # backoff => wire = <<>>]_backoff

-----------------------------------------------------------------------------
(* Refinement: both transports implement the abstract outbound stream.   *)

\* What the server received, forgetting the kind of each message.
Received(w) == [i \in 1..Len(w) |-> [seq |-> w[i].seq, caps |-> w[i].caps]]

\* The capabilities of the stored state (0 while there is none).
StoredCaps == IF agentState = NoState THEN 0 ELSE agentState.caps

Channel == INSTANCE OutboundChannel
             WITH received <- Received(wire), caps <- StoredCaps, NoCaps <- 0

\* Spec §3/§8: what the server receives is append-only, strictly numbered and
\* stamped with capabilities fixed once: every step of connect, handshake,
\* poll and send/flush is a step of OutboundChannel or leaves it unchanged.
ImplementsChannel == Channel!Spec

=============================================================================
