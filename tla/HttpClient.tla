----------------------------- MODULE HttpClient -----------------------------
(***************************************************************************)
(* The half-duplex OpAMP client of src/src/httpclient/mod.rs driven by the *)
(* finite-state machine of src/src/state.rs.  One step of `Tick` is one    *)
(* call of `Api::poll` -> `HttpClient::trigger`: `State::evaluate` invokes *)
(* the transport operation of the current state (connect, handshake,      *)
(* poll, send, wait) to completion and moves to the state it selects.     *)
(* The HTTP server and the network are folded into the send step (which   *)
(* POSTs, how many succeed, what the server answers); the user callbacks  *)
(* are nondeterministic; the wall clock is abstracted to whether the      *)
(* 30-second heartbeat delay has elapsed since the last POST.             *)
(***************************************************************************)
EXTENDS OpampAgent

VARIABLES
  heartbeatDue,  \* get_time_nanos() >= last_sent_timestamp + SERVER_POLL_DELAY
  inbox          \* self.inbox: the responses, each with the seq it answers

vars == <<state, backoff, seqno, heartbeatDue, agentState, inbox, outbox, wire>>

Active == {"Polling", "Sending", "Waiting"}

TypeOK ==
  /\ state \in States
  /\ backoff \in Nat
  /\ seqno \in Nat
  /\ heartbeatDue \in BOOLEAN
  /\ agentState \in AgentRecords \cup {NoState}
  /\ inbox \in Seq([msg: ServerMsgRecords, req: Nat])
  /\ outbox \in Seq(Kinds)
  /\ wire \in Seq([kind: Kinds, seq: Nat, caps: Nat])

Init ==
  /\ state = "Disconnected"
  /\ backoff = 0
  /\ seqno = 0
  /\ heartbeatDue = TRUE     \* last_sent_timestamp = 0
  /\ agentState = NoState
  /\ inbox = <<>>
  /\ outbox = <<>>
  /\ wire = <<>>


\* The inbox entries for the answers r to the first n POSTs of this batch.
Answers(n, r) == [i \in 1..n |-> [msg |-> r[i], req |-> seqno + i]]

-----------------------------------------------------------------------------
(* The transport operations, each composed with its arm of State::evaluate. *)

\* Disconnected: no I/O, straight to Connecting.
Reconnect ==
  /\ state = "Disconnected"
  /\ state' = Evaluate("Disconnected", "None")
  /\ UNCHANGED <<backoff, seqno, heartbeatDue, agentState, inbox, outbox, wire>>

\* connect: a HEAD request.  Any status but 404 is a present server; a 404 is
\* an Error; a transport error bumps backoff (never reset), sleeps and returns
\* Error, or Err once backoff exceeds OPAMP_CONNECT_RETRIES.  Transport errors
\* are possible while backoff <= ConnectRetries (the bound).
Connect ==
  /\ state = "Connecting"
  /\ \/ /\ state' = Evaluate("Connecting", "Reply")
        /\ UNCHANGED backoff
     \/ /\ state' = Evaluate("Connecting", "Error")
        /\ UNCHANGED backoff
     \/ /\ backoff <= ConnectRetries
        /\ backoff' = backoff + 1
        /\ state' = Evaluate("Connecting",
                             IF backoff' > ConnectRetries THEN "Err" ELSE "Error")
  /\ UNCHANGED <<seqno, heartbeatDue, agentState, inbox, outbox, wire>>

\* handshake: enqueue the full status (get_status never fails) and Reply.
Handshake ==
  /\ state = "Connected"
  /\ \E s \in GetStatus(agentState) : agentState' = s
  /\ outbox' = Append(outbox, "Handshake")
  /\ state' = Evaluate("Connected", "Reply")
  /\ UNCHANGED <<backoff, seqno, heartbeatDue, inbox, wire>>

\* poll(), after the health check has left the stored state h and the
\* outbox out: a non-empty outbox is flushed.
PollFlush(out, h) ==
  /\ out # <<>>
  /\ outbox' = out
  /\ agentState' = h
  /\ state' = Evaluate("Polling", "Reply")
  /\ UNCHANGED inbox

\* ... else 30 s after the last POST a heartbeat is enqueued.
PollHeartbeat(out, h) ==
  /\ out = <<>>
  /\ heartbeatDue
  /\ outbox' = <<"Heartbeat">>
  /\ agentState' = h
  /\ state' = Evaluate("Polling", "Reply")
  /\ UNCHANGED inbox

\* ... else with an empty inbox there is nothing to do: None, stay Polling.
PollIdle(out, h) ==
  /\ out = <<>>
  /\ ~heartbeatDue
  /\ inbox = <<>>
  /\ outbox' = out
  /\ agentState' = h
  /\ state' = Evaluate("Polling", "None")
  /\ UNCHANGED inbox

\* ... else `inbox.pop()` takes the LAST response, the dispatcher runs the
\* callbacks its fields call for (a ReportFullState for our instance_uid
\* enqueues get_status), on_loop may add a message, and the result is Reply
\* if anything was enqueued and None otherwise.
PollDispatch(out, h) ==
  /\ out = <<>>
  /\ ~heartbeatDue
  /\ inbox # <<>>
  /\ LET m == inbox[Len(inbox)].msg IN
       /\ inbox' = SubSeq(inbox, 1, Len(inbox) - 1)
       /\ agentState' \in IF m.fullState = "self" THEN GetStatus(h) ELSE {h}
       /\ \E d \in Dispatch(m), l \in Answer(TRUE, "OnLoop") : outbox' = d \o l
  /\ state' = Evaluate("Polling", IF outbox' = <<>> THEN "None" ELSE "Reply")

\* poll: first, a stored health that is unhealthy is set healthy and a
\* health report is enqueued; then one of the four outcomes above.
Poll ==
  /\ state = "Polling"
  /\ agentState # NoState           \* get_health unwraps agent_state
  /\ \E h \in HealthChecked(agentState) :
       LET out == IF agentState.healthy THEN outbox ELSE Append(outbox, "Health")
       IN \/ PollFlush(out, h)
          \/ PollHeartbeat(out, h)
          \/ PollIdle(out, h)
          \/ PollDispatch(out, h)
  /\ UNCHANGED <<backoff, seqno, heartbeatDue, wire>>

\* send: take the whole outbox and POST its messages in order.  Each POST
\* stamps seqno and last_sent_timestamp; each answer is pushed on the inbox.
\* If all succeed: Reply.  If the POST of message n+1 fails (transport error,
\* timeout or non-2xx), the server may or may not have received it, the rest
\* of the batch is discarded, and the result is Error.
Send ==
  /\ state = "Sending"
  /\ outbox' = <<>>
  /\ heartbeatDue' = (heartbeatDue /\ outbox = <<>>)
  /\ \/ \E r \in [1..Len(outbox) -> ServerReplies] :
          /\ wire' = wire \o Posted(Len(outbox))
          /\ inbox' = inbox \o Answers(Len(outbox), r)
          /\ seqno' = seqno + Len(outbox)
          /\ state' = Evaluate("Sending", "Reply")
     \/ \E n \in 0..(Len(outbox) - 1), reached \in BOOLEAN :
          \E r \in [1..n -> ServerReplies] :
             /\ wire' = wire \o Posted(IF reached THEN n + 1 ELSE n)
             /\ inbox' = inbox \o Answers(n, r)
             /\ seqno' = seqno + n + 1
             /\ state' = Evaluate("Sending", "Error")
  /\ UNCHANGED <<backoff, agentState>>

\* A mutant of Wait: wait blocks for inbound data, which HTTP never has.
WaitForInbound ==
  /\ state = "Waiting"
  /\ state' = Evaluate("Waiting", "None")
  /\ UNCHANGED <<backoff, seqno, heartbeatDue, agentState, inbox, outbox, wire>>

\* wait: a no-op that replies at once.
Wait ==
  /\ state = "Waiting"
  /\ state' = Evaluate("Waiting", "Reply")
  /\ UNCHANGED <<backoff, seqno, heartbeatDue, agentState, inbox, outbox, wire>>

\* One call of Api::poll.
Tick == Reconnect \/ Connect \/ Handshake \/ Poll \/ Send \/ Wait

\* The wall clock passes SERVER_POLL_DELAY since the last POST (bounded).
TimePasses ==
  /\ ~heartbeatDue
  /\ seqno < MaxSeq
  /\ heartbeatDue' = TRUE
  /\ UNCHANGED <<state, backoff, seqno, agentState, inbox, outbox, wire>>

Next == Tick \/ TimePasses

\* The embedder calls Api::poll in a loop, so a tick that can change the
\* state is eventually taken.
Spec == Init /\ [][Next]_vars /\ WF_vars(Tick)

-----------------------------------------------------------------------------
(* Properties *)

\* get_health, at the top of every poll, unwraps agent_state: every path of
\* the state machine into Polling, Sending or Waiting goes through the
\* handshake, which builds the stored state first.
AgentStateReady == state \in Active => agentState # NoState

\* The heartbeat of poll(): once connected, when 30 s have passed since the
\* last POST, a POST is eventually made.
HeartbeatSent == (heartbeatDue /\ state \in Active) ~> ~heartbeatDue

\* Spec §3: the inbox is drained FIFO: poll() dispatches the oldest response.
InboxFifo ==
  [][state = "Polling" /\ Len(inbox') < Len(inbox) => inbox' = Tail(inbox)]_vars

\* Spec §4.2: send drains the outbox to the wire, each message a POST: every
\* message send takes out of the outbox is POSTed (given a sequence number).
SendAttemptsAll ==
  [][state = "Sending" /\ state' # "Sending" => seqno' = seqno + Len(outbox)]_vars

\* Spec §4.3 step 4: once poll finds nothing to flush and no heartbeat due, it
\* drains the inbox "if any" and then invokes on_loop, whose reply is
\* enqueued: a poll at that point can always end with on_loop's message in
\* the outbox, whether or not a server response is waiting.
OnLoopInvoked ==
  (/\ state = "Polling" /\ agentState # NoState /\ agentState.healthy
   /\ outbox = <<>> /\ ~heartbeatDue /\ CanReply)
    => ENABLED (Poll /\ \E i \in 1..Len(outbox') : outbox'[i] = "OnLoop")

=============================================================================
