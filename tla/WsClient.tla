------------------------------ MODULE WsClient ------------------------------
(***************************************************************************)
(* The full-duplex OpAMP client of src/src/wsclient/mod.rs driven by the   *)
(* state machine of src/src/state.rs.  One step of `Tick` is one call of   *)
(* `Api::poll` -> `WsClient::trigger`.  The websocket is `stream`: None    *)
(* before the first successful connect, Open, or Closed once the server or *)
(* the network has closed it (the handle stays Some; reads then return    *)
(* None and writes fail).  The server pushes frames onto `downlink` and    *)
(* may close the stream at any time.  A panic (an unwrap or expect that    *)
(* fails) aborts the process: `panicked` is set and nothing happens after. *)
(***************************************************************************)
EXTENDS OpampAgent

CONSTANT MaxFrames     \* bound: frames in flight from the server

ASSUME WsAssumption == MaxFrames \in Nat \ {0}

VARIABLES
  stream,      \* self.stream: "None", "Open" or "Closed"
  downlink,    \* the frames the server has written and the client not read
  panicked     \* the process aborted on a failed unwrap or expect

vars == <<state, backoff, seqno, agentState, outbox, wire, stream, downlink, panicked>>

Active == {"Polling", "Sending", "Waiting"}

\* A websocket frame: a binary frame that decodes to a ServerToAgent, or
\* anything else (text, ping, close, or bytes that fail to decode).
Frames == [decoded: BOOLEAN, msg: ServerMsgRecords]

TypeOK ==
  /\ state \in States
  /\ backoff \in Nat
  /\ seqno \in Nat
  /\ agentState \in AgentRecords \cup {NoState}
  /\ outbox \in Seq(Kinds)
  /\ wire \in Seq([kind: Kinds, seq: Nat, caps: Nat])
  /\ stream \in {"None", "Open", "Closed"}
  /\ downlink \in Seq(Frames)
  /\ panicked \in BOOLEAN

Init ==
  /\ state = "Disconnected"
  /\ backoff = 0
  /\ seqno = 0
  /\ agentState = NoState
  /\ outbox = <<>>
  /\ wire = <<>>
  /\ stream = "None"
  /\ downlink = <<>>
  /\ panicked = FALSE

-----------------------------------------------------------------------------
(* Helpers *)

\* set_health(b): get_status (building the state on first use), with the
\* health overwritten, stored back.
SetHealth(s, b) == {[x EXCEPT !.healthy = b] : x \in GetStatus(s)}

\* What the dispatcher of poll() enqueues for a frame: a binary frame that
\* decodes goes through the callbacks; any other frame is skipped.
Dispatched(f) == IF f.decoded THEN Dispatch(f.msg) ELSE {<<>>}

\* The stored state after dispatching frame f: a ReportFullState for our
\* instance_uid calls set_health(true) before it enqueues get_status.
Reported(f, h) ==
  IF f.decoded /\ f.msg.fullState = "self" THEN SetHealth(h, TRUE) ELSE {h}

-----------------------------------------------------------------------------
(* The transport operations, each composed with its arm of State::evaluate. *)

\* Disconnected: no I/O, straight to Connecting.
Reconnect ==
  /\ ~panicked
  /\ state = "Disconnected"
  /\ state' = Evaluate("Disconnected", "None")
  /\ UNCHANGED <<backoff, seqno, agentState, outbox, wire, stream, downlink, panicked>>

\* connect: set_health(false), then open the websocket.  On success the new
\* stream replaces the old one.  On failure backoff is bumped (never reset),
\* the client sleeps and answers None (which evaluate maps to Connected),
\* or Err once backoff exceeds OPAMP_CONNECT_RETRIES; the stream is left as
\* it was.  Failures are possible while backoff <= ConnectRetries (bound).
Connect ==
  /\ ~panicked
  /\ state = "Connecting"
  /\ \E a \in SetHealth(agentState, FALSE) : agentState' = a
  /\ \/ /\ stream' = "Open"
        /\ downlink' = <<>>
        /\ state' = Evaluate("Connecting", "Reply")
        /\ UNCHANGED backoff
     \/ /\ backoff <= ConnectRetries
        /\ backoff' = backoff + 1
        /\ state' = Evaluate("Connecting",
                             IF backoff' > ConnectRetries THEN "Err" ELSE "None")
        /\ UNCHANGED <<stream, downlink>>
  /\ UNCHANGED <<seqno, outbox, wire, panicked>>

\* handshake: set_health(false), then enqueue get_status and Reply.
Handshake ==
  /\ ~panicked
  /\ state = "Connected"
  /\ \E a \in SetHealth(agentState, FALSE) : agentState' = a
  /\ outbox' = Append(outbox, "Handshake")
  /\ state' = Evaluate("Connected", "Reply")
  /\ UNCHANGED <<backoff, seqno, wire, stream, downlink, panicked>>

\* A mutant of PollFlush: the outbox is only checked when receive() would
\* not block (the receive awaited before the outbox test).
PollFlushAfterReceive(out, h) ==
  /\ out # <<>>
  /\ stream # "Open" \/ downlink # <<>>
  /\ outbox' = out
  /\ agentState' = h
  /\ UNCHANGED downlink

\* poll(), after the health check has left the stored state h and the
\* outbox out: a non-empty outbox is flushed.
PollFlush(out, h) ==
  /\ out # <<>>
  /\ outbox' = out
  /\ agentState' = h
  /\ UNCHANGED downlink

\* ... else receive() awaits the next frame of an open stream (the call
\* blocks while there is none), dispatches it, and runs on_loop.
PollReceive(out, h) ==
  /\ out = <<>>
  /\ stream = "Open"
  /\ downlink # <<>>
  /\ downlink' = Tail(downlink)
  /\ agentState' \in Reported(Head(downlink), h)
  /\ \E d \in Dispatched(Head(downlink)), l \in Answer(TRUE, "OnLoop") :
       outbox' = d \o l

\* ... else a closed stream reads None (or an error), which poll ignores;
\* on_loop runs.
PollClosed(out, h) ==
  /\ out = <<>>
  /\ stream = "Closed"
  /\ agentState' = h
  /\ outbox' \in Answer(TRUE, "OnLoop")
  /\ UNCHANGED downlink

\* A mutant of Poll: a closed stream is noticed and answered with Err, so
\* that evaluate leads back to Connecting (a reconnect with the backoff of
\* the first session, never reset).
PollClosedErr ==
  /\ ~panicked
  /\ state = "Polling"
  /\ agentState # NoState
  /\ stream # "None"
  /\ \E h \in HealthChecked(agentState) :
       LET out == IF agentState.healthy THEN outbox ELSE Append(outbox, "Health")
       IN \/ PollFlush(out, h)
          \/ PollReceive(out, h)
          \/ PollClosed(out, h)
  /\ state' = Evaluate("Polling", IF stream = "Closed" THEN "Err"
                                  ELSE IF outbox' = <<>> THEN "None" ELSE "Reply")
  /\ UNCHANGED <<backoff, seqno, wire, stream, panicked>>

\* poll: get_health unwraps the stored state; an unhealthy one is set
\* healthy and a health report enqueued; then one of the outcomes above,
\* Reply if the outbox is non-empty and None otherwise.  receive() unwraps
\* the stream, which is never None here (PollHasStream).
Poll ==
  /\ ~panicked
  /\ state = "Polling"
  /\ agentState # NoState
  /\ stream # "None"
  /\ \E h \in HealthChecked(agentState) :
       LET out == IF agentState.healthy THEN outbox ELSE Append(outbox, "Health")
       IN \/ PollFlush(out, h)
          \/ PollReceive(out, h)
          \/ PollClosed(out, h)
  /\ state' = Evaluate("Polling", IF outbox' = <<>> THEN "None" ELSE "Reply")
  /\ UNCHANGED <<backoff, seqno, wire, stream, panicked>>

\* A mutant of Flush: to_sink skips the write when there is no stream
\* (`if let Some(s)` in place of the unwrap) and the batch is lost.
FlushSkipsMissing ==
  /\ outbox' = <<>>
  /\ \/ /\ stream = "Open"
        /\ wire' = wire \o Posted(Len(outbox))
        /\ seqno' = seqno + Len(outbox)
        /\ UNCHANGED <<stream, panicked>>
     \/ /\ stream = "None"
        /\ seqno' = seqno + Len(outbox)
        /\ UNCHANGED <<wire, stream, panicked>>
     \/ /\ stream \in {"Open", "Closed"}
        /\ outbox # <<>>
        /\ \E n \in 0..(Len(outbox) - 1) :
             /\ wire' = wire \o Posted(n)
             /\ seqno' = seqno + n + 1
        /\ stream' = "Closed"
        /\ panicked' = TRUE

\* flush: take the outbox; stamp each message with the stored capabilities
\* and the pre-incremented seqno and write it with to_sink.  All writes to
\* an open stream may succeed; or the stream closes (or is closed) and the
\* write of message n+1 fails, which `expect` turns into a panic; with no
\* stream, the unwrap of to_sink panics on the first message.
Flush ==
  /\ outbox' = <<>>
  /\ \/ /\ stream = "Open"
        /\ wire' = wire \o Posted(Len(outbox))
        /\ seqno' = seqno + Len(outbox)
        /\ UNCHANGED <<stream, panicked>>
     \/ /\ stream \in {"Open", "Closed"}
        /\ outbox # <<>>
        /\ \E n \in 0..(Len(outbox) - 1) :
             /\ wire' = wire \o Posted(n)
             /\ seqno' = seqno + n + 1
        /\ stream' = "Closed"
        /\ panicked' = TRUE
     \/ /\ stream = "None"
        /\ outbox # <<>>
        /\ seqno' = seqno + 1
        /\ panicked' = TRUE
        /\ UNCHANGED <<wire, stream>>

\* send: flush (which returns Ok unless it panicked), then Reply.
Send ==
  /\ ~panicked
  /\ state = "Sending"
  /\ Flush
  /\ state' = IF panicked' THEN state ELSE Evaluate("Sending", "Reply")
  /\ UNCHANGED <<backoff, agentState, downlink>>

\* wait: a no-op that replies at once.
Wait ==
  /\ ~panicked
  /\ state = "Waiting"
  /\ state' = Evaluate("Waiting", "Reply")
  /\ UNCHANGED <<backoff, seqno, agentState, outbox, wire, stream, downlink, panicked>>

\* One call of Api::poll (each operation requires the process to be running).
Tick == Reconnect \/ Connect \/ Handshake \/ Poll \/ Send \/ Wait

\* The server writes a frame: a ServerToAgent it may send (a quiet one once
\* the bound is hit) or a frame poll() skips.
ServerPush ==
  /\ stream = "Open"
  /\ Len(downlink) < MaxFrames
  /\ \E f \in {[decoded |-> TRUE, msg |-> m] : m \in ServerReplies}
                \cup {[decoded |-> FALSE, msg |-> Quiet]} :
       downlink' = Append(downlink, f)
  /\ UNCHANGED <<state, backoff, seqno, agentState, outbox, wire, stream, panicked>>

\* The server or the network closes the websocket; unread frames are lost.
ServerClose ==
  /\ stream = "Open"
  /\ stream' = "Closed"
  /\ downlink' = <<>>
  /\ UNCHANGED <<state, backoff, seqno, agentState, outbox, wire, panicked>>

\* After a panic the process is gone: nothing changes any more.
Aborted ==
  /\ panicked
  /\ UNCHANGED vars

Next == Tick \/ ServerPush \/ ServerClose \/ Aborted

\* The embedder calls Api::poll in a loop; the server is not assumed to
\* ever write or close.
Spec == Init /\ [][Next]_vars /\ WF_vars(Tick)

-----------------------------------------------------------------------------
(* Properties *)

\* receive() unwraps the stream at every poll that finds the outbox empty:
\* no path reaches Polling without an open (or since closed) stream.  A
\* failed connect answers None, which leads to Connected with no stream,
\* but the handshake's send panics before any poll.
PollHasStream == state = "Polling" => stream # "None"

\* Spec §3 and scenarios 1 and 4: sequence_num starts at 0 and is
\* pre-incremented, so the server receives 1, 2, 3, ... with no gap: each
\* frame carries the previous number plus one.  A write that fails has
\* taken a number, but flush then panics and nothing is written after it.
SeqConsecutive == \A i \in 1..Len(wire) : wire[i].seq = i

\* Spec §4.4 steps 1-2: when poll() finds the stored health unhealthy it
\* enqueues a health report and has it flushed; the report then reaches the
\* server (or the process has aborted), even if the server never writes:
\* the outbox test comes before the blocking receive.
HealthReported ==
  (state = "Polling" /\ agentState # NoState /\ ~agentState.healthy)
    ~> (panicked \/ \E i \in 1..Len(wire) : wire[i].kind = "Health")

\* Spec §7: transport I/O errors degrade the state machine; the process is
\* never aborted by them.
NoAbort == ~panicked

\* Spec §4.2: during the connect backoff the transport answers so that the
\* state machine retries the connect: a failed connect leads back to
\* Connecting (or, after the last retry, to Disconnected), never on.
ConnectFailureRetried ==
  [][state = "Connecting" /\ backoff' = backoff + 1
       => state' \in {"Connecting", "Disconnected"}]_vars

\* Spec §4.4 and §7: a disconnect is signalled by the socket layer and the
\* state machine perpetually reconnects: a closed websocket is eventually
\* replaced by a new open one.
ClosedReconnects == (stream = "Closed") ~> (stream = "Open")

\* lib.rs (design philosophy) and spec §4.1: Api::poll returns, so that the
\* caller can interleave other work between ticks: in Polling the poll
\* step of the running process can always be taken.
PollReturns == (state = "Polling" /\ ~panicked) => ENABLED Poll

=============================================================================
