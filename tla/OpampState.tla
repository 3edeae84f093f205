----------------------------- MODULE OpampState -----------------------------
(***************************************************************************)
(* The client finite-state machine of src/src/state.rs: the six states of  *)
(* `enum State` and the pure transition function `State::evaluate`, which  *)
(* maps the current state and the result of the transport operation that  *)
(* state invokes to the next state.  The textual token every state carries *)
(* is a log string and is abstracted away.                                 *)
(***************************************************************************)

\* The variants of `enum State`.
States == {"Disconnected", "Connecting", "Connected", "Polling", "Sending", "Waiting"}

\* What a transport operation returns: Ok(StateResponse::Reply),
\* Ok(StateResponse::None), Ok(StateResponse::Error) or Err(ApiClientError).
Responses == {"Reply", "None", "Error", "Err"}

\* A mutant of the table below: a successful connect skips the handshake.
TransitionSkipHandshake ==
  [Disconnected |-> [r \in Responses |-> "Connecting"],
   Connecting   |-> [Reply |-> "Polling", None |-> "Connected",
                     Error |-> "Disconnected", Err |-> "Disconnected"],
   Connected    |-> [Reply |-> "Sending", None |-> "Polling",
                     Error |-> "Disconnected", Err |-> "Disconnected"],
   Polling      |-> [Reply |-> "Sending", None |-> "Polling",
                     Error |-> "Disconnected", Err |-> "Connecting"],
   Sending      |-> [Reply |-> "Waiting", None |-> "Polling",
                     Error |-> "Polling", Err |-> "Connecting"],
   Waiting      |-> [Reply |-> "Polling", None |-> "Waiting",
                     Error |-> "Polling", Err |-> "Connecting"]]

\* A mutant of the table below: a failed send reconnects (the Error arm of
\* Sending confused with its Err arm).
TransitionSendErrorReconnects ==
  [Disconnected |-> [r \in Responses |-> "Connecting"],
   Connecting   |-> [Reply |-> "Connected", None |-> "Connected",
                     Error |-> "Disconnected", Err |-> "Disconnected"],
   Connected    |-> [Reply |-> "Sending", None |-> "Polling",
                     Error |-> "Disconnected", Err |-> "Disconnected"],
   Polling      |-> [Reply |-> "Sending", None |-> "Polling",
                     Error |-> "Disconnected", Err |-> "Connecting"],
   Sending      |-> [Reply |-> "Waiting", None |-> "Polling",
                     Error |-> "Connecting", Err |-> "Connecting"],
   Waiting      |-> [Reply |-> "Polling", None |-> "Waiting",
                     Error |-> "Polling", Err |-> "Connecting"]]

\* The match arms of `State::evaluate`: Transition[s][r] is the state that
\* follows s when the operation s invokes returns r.  Disconnected invokes
\* nothing and always moves to Connecting.
Transition ==
  [Disconnected |-> [r \in Responses |-> "Connecting"],
   Connecting   |-> [Reply |-> "Connected", None |-> "Connected",
                     Error |-> "Disconnected", Err |-> "Disconnected"],
   Connected    |-> [Reply |-> "Sending", None |-> "Polling",
                     Error |-> "Disconnected", Err |-> "Disconnected"],
   Polling      |-> [Reply |-> "Sending", None |-> "Polling",
                     Error |-> "Disconnected", Err |-> "Connecting"],
   Sending      |-> [Reply |-> "Waiting", None |-> "Polling",
                     Error |-> "Polling", Err |-> "Connecting"],
   Waiting      |-> [Reply |-> "Polling", None |-> "Waiting",
                     Error |-> "Polling", Err |-> "Connecting"]]

\* `State::evaluate(self, client)` once the transport has answered r.
Evaluate(s, r) == Transition[s][r]

=============================================================================
