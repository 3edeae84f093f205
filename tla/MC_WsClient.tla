---------------------------- MODULE MC_WsClient -----------------------------
(* Small instances of WsClient for TLC. *)
EXTENDS WsClient

\* Two distinct get_features results, so that a second call would show.
MCFeatures == {1, 2}

\* The server writes a quiet message, asks for our full state together
\* with a command, or offers a remote config, a metrics destination and
\* packages while asking another instance for its health.
MCServerMsgs ==
  { Quiet,
    [Quiet EXCEPT !.command = TRUE, !.fullState = "self"],
    [Quiet EXCEPT !.remoteConfig = TRUE, !.fullState = "other",
                  !.offers = {"metrics"}, !.packages = TRUE, !.error = TRUE] }
=============================================================================
