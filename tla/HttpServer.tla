----------------------------- MODULE HttpServer -----------------------------
(***************************************************************************)
(* httpserver.c, the server the gateways post their events to.             *)
(*                                                                         *)
(* The one thread of libmicrohttpd (external) calls answer_to_connection() *)
(* for the headers of a request, for each piece of its body, and a last    *)
(* time for the answer; the post processor calls iterate_post() for every  *)
(* field of a body.  A field goes to re_post[idx], where idx is a global   *)
(* that only the last call advances: requests whose bodies arrive at the   *)
(* same time share a slot.  The first field after an advance clears the    *)
(* slot before.  The answer is made in the static str22, which every call  *)
(* of the handler clears, and the response keeps an alias to it.           *)
(*                                                                         *)
(* A step handles one field; a piece of a body is some such steps without  *)
(* another connection in between.  A value cut by a piece counts with its  *)
(* last part: to the slot, the message has another value.                  *)
(***************************************************************************)
EXTENDS Integers, Sequences

CONSTANTS Conn,        \* connections
          Messages,    \* bodies of POST requests: sequences of <<key, value>>
          SLOTS,       \* the last slot before idx starts again at 1 (250)
          DEV_SIZE,    \* entries of the device table (200)
          MaxReq,      \* bound on the number of requests
          KAIGUAN1, KAIGUAN2, MENCI,   \* ids of two switches and the door
          WET, DRY     \* the thresholds of the humidity (8000 and 6000)

ASSUME ServerAssumption ==
  /\ SLOTS \in Nat \ {0} /\ DEV_SIZE \in Nat \ {0} /\ MaxReq \in Nat
  /\ DRY <= WET

\* The fields of a body: type is kept as text, the others go through atoi().
NumberKeys == {"dev_id", "dev_type", "idxs", "idx", "action", "value"}
FieldSet   == ({"type"} \X STRING) \cup (NumberKeys \X Int)

\* A body has at least a field, and the gateways write its type into each one.
ASSUME MessageAssumption ==
  \A m \in Messages : m \in Seq(FieldSet) /\ \E n \in 1 .. Len(m) : m[n][1] = "type"

VARIABLES
  idx, old_idx,   \* the current slot, and the one of the last field
  re_post,        \* the slots
  device,         \* mxj_device[0 .. devsize-1]: id and type
  temp,           \* 1 until the humidity was too high, and again when it is low
  str22,          \* the answer it holds, <<>> when it is empty
  pc,             \* what a connection waits for
  msg, todo,      \* the body of its request, and what is still to come
  req,            \* number of its request
  by,             \* history: the requests with a field in a slot since cleared
  bare,           \* history: slots that were left without a field
  answer,         \* history: str22 when the response was made
  got,            \* history: what was sent of it
  cleared,        \* history: 1 when the handler was called before it was sent
  moved,          \* history: 1 when idx was advanced between its fields
  reqs,           \* history: number of requests
  stray           \* 1 once an entry was stored behind the device table

slot == <<idx, old_idx, re_post, by, bare>>
vars == <<idx, old_idx, re_post, device, temp, str22, pc, msg, todo, req, by,
          bare, answer, got, cleared, moved, reqs, stray>>

Slots == 0 .. SLOTS

\* A slot without a field; the type of a message is never cleared.
Blank(t) == [type |-> t, dev_id |-> 0, dev_type |-> 0, idxs |-> 0, idx |-> 0,
             action |-> 100, value |-> 0]

Init ==
  /\ idx = 0 /\ old_idx = 0
  /\ re_post = [s \in Slots |-> Blank("")]
  /\ device = << >> /\ temp = 1 /\ str22 = << >>
  /\ pc = [c \in Conn |-> "idle"] /\ msg = [c \in Conn |-> << >>]
  /\ todo = [c \in Conn |-> << >>] /\ req = [c \in Conn |-> 0]
  /\ by = [s \in Slots |-> {}] /\ bare = {}
  /\ answer = [c \in Conn |-> << >>] /\ got = [c \in Conn |-> << >>]
  /\ cleared = [c \in Conn |-> 0] /\ moved = [c \in Conn |-> 0] /\ reqs = 0 /\ stray = 0

-----------------------------------------------------------------------------
(* iterate_post() and the answer.                                          *)

\* Mutant: only what the last message had in it is cleared.
ClearedSomewhat(s) == [Blank(s.type) EXCEPT !.action = s.action]

\* re_post[idx-1] when the first field of a new slot arrives.
Cleared(s) == Blank(s.type)

\* The index find_dev() returns, counted from 1, or 0.
find_dev(d) ==
  IF \E i \in 1 .. Len(device) : device[i].id = d
  THEN CHOOSE i \in 1 .. Len(device) : device[i].id = d /\ \A j \in 1 .. i-1 : device[j].id # d
  ELSE 0

Register(s)  == s.type = "register_request" /\ s.dev_type # 0 /\ s.idxs # 0
ControlUp(s) == s.type = "control_up" /\ s.dev_id # 0 /\ s.idx # 0 /\ s.action # 100
Humidity(s)  == s.type = "humidity_up" /\ s.dev_id # 0 /\ s.value # 0
AskState(s)  == s.type = "ask_state" /\ s.dev_id # 0

\* Ids of lights in the scenes; a command to ALL reaches every device.
ZHUWO   == 30480
CIWO    == 38288
MENTING == 59056
ALL     == 65535

\* The command a switch or the door asks for: "3" switches a light over.
Scene(s) ==
  CASE s.dev_id = KAIGUAN1 /\ s.action = 1 -> <<"control_down", ZHUWO, 3>>
    [] s.dev_id = KAIGUAN2 /\ s.action = 1 -> <<"control_down", CIWO, 3>>
    [] s.dev_id \in {KAIGUAN1, KAIGUAN2} /\ s.action = 2 -> <<"control_down", ALL, 0>>
    [] s.dev_id = MENCI /\ s.action \in {0, 1} -> <<"control_down", MENTING, s.action>>
    [] OTHER -> << >>

\* What is written to str22 for slot s; tempid is never set and 0.
Reply(s) ==
  CASE Register(s)  -> <<"register_ok", s.dev_id, 0>>
    [] ControlUp(s) -> Scene(s)
    [] Humidity(s)  -> IF s.value > WET THEN <<"control_down", 0, 1>>
                       ELSE IF s.value < DRY /\ temp = 0 THEN <<"control_down", 0, 0>>
                       ELSE << >>
    [] AskState(s)  -> IF find_dev(s.dev_id) = 0 THEN <<"register_failed", s.dev_id, 0>>
                       ELSE IF device[find_dev(s.dev_id)].type = 6
                            THEN <<"control_down", s.dev_id, 0>>
                       ELSE << >>
    [] OTHER -> << >>

\* Mutant: the table is not searched.
AddAgain(s) ==
  /\ device' = IF Register(s) /\ Len(device) < DEV_SIZE
               THEN Append(device, [id |-> s.dev_id, type |-> s.dev_type]) ELSE device
  /\ UNCHANGED stray

\* A device that is not in the table is added; behind it, when the table is full.
Add(s) ==
  IF Register(s) /\ find_dev(s.dev_id) = 0
  THEN IF Len(device) < DEV_SIZE
       THEN device' = Append(device, [id |-> s.dev_id, type |-> s.dev_type]) /\ UNCHANGED stray
       ELSE stray' = 1 /\ UNCHANGED device
  ELSE UNCHANGED <<device, stray>>

-----------------------------------------------------------------------------
(* The handler.  Every call begins with memset(str22, 0, ...).             *)

Memset(c) ==
  cleared' = [d \in Conn |-> IF d # c /\ pc[d] = "send" THEN 1 ELSE cleared[d]]

\* *con_cls is NULL: con_info and, for POST, the post processor are made; a
\* body that is no form is refused.  GET, a POST without a body or another
\* method, a refusal, a POST with a body.
FirstCall(c) ==
  /\ pc[c] = "idle" /\ reqs < MaxReq
  /\ reqs' = reqs + 1 /\ req' = [req EXCEPT ![c] = reqs + 1]
  /\ str22' = << >> /\ Memset(c)
  /\ \/ pc' = [pc EXCEPT ![c] = "get"] /\ UNCHANGED <<msg, todo>>
     \/ pc' = [pc EXCEPT ![c] = "last"] /\ UNCHANGED <<msg, todo>>
     \/ pc' = [pc EXCEPT ![c] = "gone"] /\ UNCHANGED <<msg, todo>>
     \/ \E m \in Messages :
          /\ msg' = [msg EXCEPT ![c] = m] /\ todo' = [todo EXCEPT ![c] = m]
          /\ pc' = [pc EXCEPT ![c] = "body"]
  /\ UNCHANGED <<slot, device, temp, answer, got, moved, stray>>

\* GET: the error page, whatever the slot holds.
Get(c) ==
  /\ pc[c] = "get"
  /\ str22' = << >> /\ Memset(c)
  /\ pc' = [pc EXCEPT ![c] = "sent"]
  /\ UNCHANGED <<slot, device, temp, msg, todo, req, answer, got, moved, reqs, stray>>

\* A field of the body: MHD_post_process() calls iterate_post().  The widths of
\* the fields (8 and 16 bits, type[20]) are left out: numbers and types are those
\* a gateway sends, which fit.
Field(c) ==
  /\ pc[c] = "body"
  /\ str22' = << >> /\ Memset(c)
  /\ old_idx' = idx
  /\ LET fresh == old_idx # idx
         clean == [s \in Slots |-> IF fresh /\ s = idx - 1 THEN Cleared(re_post[s]) ELSE re_post[s]]
     IN  /\ re_post' = [clean EXCEPT ![idx][Head(todo[c])[1]] = Head(todo[c])[2]]
         /\ by' = [s \in Slots |-> IF fresh /\ s = idx - 1 THEN {}
                                   ELSE IF s = idx THEN by[s] \cup {req[c]} ELSE by[s]]
  /\ bare' = bare \ {idx}
  /\ todo' = [todo EXCEPT ![c] = Tail(@)]
  /\ pc' = [pc EXCEPT ![c] = IF Len(todo[c]) = 1 THEN "last" ELSE "body"]
  /\ UNCHANGED <<idx, device, temp, msg, req, answer, got, moved, reqs, stray>>

\* idx++; if(idx>250)idx=1;
Advance(n) == IF n + 1 > SLOTS THEN 1 ELSE n + 1

\* The requests some fields of which are now in another slot.
Move(c) ==
  moved' = [d \in Conn |-> IF d # c /\ pc[d] \in {"body", "last"} /\ todo[d] # msg[d]
                          THEN 1 ELSE moved[d]]

\* Mutant: str22 is cleared behind the response instead of before it.
LastWiped(c) ==
  /\ pc[c] = "last" /\ Memset(c)
  /\ LET s == re_post[idx] IN
       /\ str22' = << >> /\ answer' = [answer EXCEPT ![c] = Reply(s)]
       /\ Add(s) /\ UNCHANGED temp
  /\ bare' = (IF old_idx = idx THEN bare ELSE bare \cup {idx})
  /\ idx' = Advance(idx) /\ Move(c)
  /\ pc' = [pc EXCEPT ![c] = "send"]
  /\ UNCHANGED <<old_idx, re_post, by, msg, todo, req, got, reqs>>

\* The last call of POST and of any method but GET: the slot is carried out and
\* the response made.
Last(c) ==
  /\ pc[c] = "last" /\ Memset(c)
  /\ LET s == re_post[idx] IN
       /\ str22' = Reply(s) /\ answer' = [answer EXCEPT ![c] = Reply(s)]
       /\ Add(s)
       /\ temp' = IF ~Humidity(s) THEN temp
                  ELSE IF s.value > WET THEN 0
                  ELSE IF s.value < DRY THEN 1 ELSE temp
  /\ bare' = (IF old_idx = idx THEN bare ELSE bare \cup {idx})
  /\ idx' = Advance(idx) /\ Move(c)
  /\ pc' = [pc EXCEPT ![c] = "send"]
  /\ UNCHANGED <<old_idx, re_post, by, msg, todo, req, got, reqs>>

\* The library (external) writes the response: as many bytes as the answer had,
\* of what str22 holds now.
WriteSocket(c) ==
  /\ pc[c] = "send"
  /\ got' = [got EXCEPT ![c] = IF answer[c] = << >> THEN << >> ELSE str22]
  /\ pc' = [pc EXCEPT ![c] = "sent"]
  /\ UNCHANGED <<slot, device, temp, str22, msg, todo, req, answer, cleared, moved, reqs, stray>>

\* request_completed(): destroying the post processor offers the end of the
\* body once more, with size 0, which iterate_post() refuses.
Completed(c) ==
  /\ pc[c] \in {"sent", "gone"}
  /\ pc' = [pc EXCEPT ![c] = "idle"] /\ msg' = [msg EXCEPT ![c] = << >>]
  /\ todo' = [todo EXCEPT ![c] = << >>] /\ req' = [req EXCEPT ![c] = 0]
  /\ answer' = [answer EXCEPT ![c] = << >>] /\ got' = [got EXCEPT ![c] = << >>]
  /\ cleared' = [cleared EXCEPT ![c] = 0] /\ moved' = [moved EXCEPT ![c] = 0]
  /\ UNCHANGED <<slot, device, temp, str22, reqs, stray>>

\* The client goes away; the fields it has sent stay in the slot.
Hangup(c) ==
  /\ pc[c] \in {"get", "body", "last", "send"}
  /\ pc' = [pc EXCEPT ![c] = "gone"]
  /\ UNCHANGED <<slot, device, temp, str22, msg, todo, req, answer, got, cleared, moved, reqs, stray>>

\* The server is followed up to the first store behind the table.
Next ==
  stray = 0 /\ \E c \in Conn : FirstCall(c) \/ Field(c) \/ Get(c) \/ Last(c)
                              \/ WriteSocket(c) \/ Completed(c) \/ Hangup(c)

Spec == Init /\ [][Next]_vars

-----------------------------------------------------------------------------
(* Properties.                                                             *)

\* The message m by itself: its fields in an empty slot.
Alone(m) ==
  LET last(k) == {n \in 1 .. Len(m) : m[n][1] = k}
  IN  [k \in DOMAIN Blank("") |->
         IF last(k) = {} THEN Blank("")[k]
         ELSE m[CHOOSE n \in last(k) : \A o \in last(k) : o <= n][2]]

\* The answer to a message is the one its own fields ask for, although every
\* message writes to the shared slot re_post[idx]; it takes fields of another
\* request in the slot to spoil it (of one that arrived at the same time, that
\* was broken off, or that nobody cleared a round ago), or an answer to another
\* one that moves the rest of its own fields to the next slot.
OwnCommand ==
  [][\A c \in Conn :
       pc[c] = "last" /\ pc'[c] = "send" /\ by[idx] \subseteq {req[c]} /\ moved[c] = 0
         => str22' = Reply(Alone(msg[c]))]_vars

\* A slot comes round empty: what an earlier request left there was cleared by
\* the first field of the slot after it.  The exceptions are the last slot of
\* a round, whose successor clears slot 0 instead, and a slot whose successor
\* got no field.
SlotsComeRoundClean ==
  \A s \in 0 .. SLOTS-1 :
    s # idx /\ (s + 1 = idx => old_idx = idx) /\ s + 1 \notin bare
      => re_post[s] = Blank(re_post[s].type)

\* A device that is told register_ok has exactly one entry in the table, however
\* often it asks, until the table is full.
RegisteredOnce ==
  stray = 0 =>
    \A c \in Conn :
      answer[c] # << >> /\ answer[c][1] = "register_ok" =>
        \E i \in 1 .. Len(device) : \A j \in 1 .. Len(device) : device[j].id = answer[c][2] <=> j = i

\* A client is sent the answer made for it, unless the handler was called
\* again before the answer had left.
OwnPage ==
  \A c \in Conn :
    pc[c] = "sent" /\ req[c] # 0 /\ cleared[c] = 0 => got[c] = answer[c]
=============================================================================
