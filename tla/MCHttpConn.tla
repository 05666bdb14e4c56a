----------------------------- MODULE MCHttpConn -----------------------------
(* Two requests that cross, with one list; or one request and four lists,   *)
(* so that two of them can be copied at once and another behind them.       *)
EXTENDS HttpConn

\* Bound: more than one list only for the first request.
Bound == builds > 1 => reqs <= 1

MCSpec ==
  /\ Init /\ [][Next /\ Bound']_vars
  /\ \A c \in Conn : WF_vars(down = 0 /\ Serve(c))
=============================================================================
