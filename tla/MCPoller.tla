------------------------------- MODULE MCPoller -------------------------------
(****************************************************************************)
(* Two channels: 1 accepts connections for a reader, 2 is a camera that     *)
(* must answer each request, as axis does.                                  *)
(****************************************************************************)
EXTENDS Poller
MCListening == {1}
MCHasReader == {1}
MCNeedsResp == {2}
MCRoutes    == <<{2}, {}>>
==============================================================================
