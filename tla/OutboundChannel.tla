--------------------------- MODULE OutboundChannel ---------------------------
(***************************************************************************)
(* What an OpAMP transport promises the server about the AgentToServer     *)
(* stream (spec §3 and §8), independent of HTTP or websocket: the server   *)
(* receives an append-only sequence of messages; every message it receives *)
(* is numbered above all it received before, and carries the capabilities  *)
(* that were fixed once, before the first message, and never change.      *)
(***************************************************************************)
EXTENDS Naturals, Sequences

CONSTANTS
  Features,  \* the capability values the agent may report
  NoCaps     \* no capabilities chosen yet

VARIABLES
  received,  \* the messages the server has received: [seq, caps] records
  caps       \* the capabilities every message carries, once chosen

vars == <<received, caps>>

Init ==
  /\ received = <<>>
  /\ caps = NoCaps

\* The agent fixes its capabilities (the first get_status).
Choose ==
  /\ caps = NoCaps
  /\ caps' \in Features
  /\ UNCHANGED received

\* The server receives one or more further messages: what it had is kept,
\* and each new message carries the chosen capabilities and a number above
\* every number received before it.
Deliver ==
  /\ caps # NoCaps
  /\ Len(received') > Len(received)
  /\ SubSeq(received', 1, Len(received)) = received
  /\ \A i \in Len(received) + 1 .. Len(received') :
        /\ received'[i].caps = caps
        /\ \A j \in 1 .. i - 1 : received'[j].seq < received'[i].seq
  /\ UNCHANGED caps

Next == Choose \/ Deliver

Spec == Init /\ [][Next]_vars

=============================================================================
