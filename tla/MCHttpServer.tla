---------------------------- MODULE MCHttpServer ----------------------------
(* Device 1 is a switch, 3 the door, 4, 5 and 6 are others, one more than  *)
(* the table holds.  One message of the door lacks a field that a slot may *)
(* still have.                                                             *)
EXTENDS HttpServer, TLC

F(t, rest) == <<<<"type", t>>>> \o rest

Joining(d) == F("register_request", <<<<"dev_id", d>>, <<"dev_type", 6>>, <<"idxs", 1>>>>)

Posts == {Joining(4), Joining(5), Joining(6),
          F("control_up", <<<<"dev_id", 1>>, <<"idx", 1>>, <<"action", 1>>>>),
          F("control_up", <<<<"dev_id", 3>>, <<"idx", 1>>>>),
          F("humidity_up", <<<<"dev_id", 4>>, <<"value", 9>>>>),
          F("humidity_up", <<<<"dev_id", 4>>, <<"value", 1>>>>),
          F("ask_state", <<<<"dev_id", 4>>>>)}

Alike == Permutations(Conn)
=============================================================================
