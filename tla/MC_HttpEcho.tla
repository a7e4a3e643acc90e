---------------------------- MODULE MC_HttpEcho -----------------------------
(* Model-checking instance of HttpEcho: a connection of HttpCli, or one of  *)
(* a peer.                                                                   *)
EXTENDS HttpEcho

CONSTANTS loader, peer

Request(rtsp, alive, size) ==
  [id |-> 0, rtsp |-> rtsp, alive |-> alive, body |-> [k \in 1 .. size |-> <<0, k>>]]

\* Requests of a peer: without a body, with one of two frames, for RTSP, and
\* the last one of a connection, in one and in two frames.
MCRequests ==
  {Request(FALSE, TRUE, 0), Request(FALSE, TRUE, 2), Request(TRUE, TRUE, 1),
   Request(FALSE, FALSE, 1), Request(FALSE, FALSE, 2)}

\* The ends of a connection share nothing with those of another but the heap.
MCTraffic == {{loader}, {peer}}

MCCliRequest == Request(FALSE, TRUE, 2)
=============================================================================
