------------------------------ MODULE HttpConn ------------------------------
(***************************************************************************)
(* The HTTP side of zbclient.c: answer_to_connection(), send_page() and    *)
(* request_completed(), called by the one thread of libmicrohttpd          *)
(* (external, MHD_USE_SELECT_INTERNALLY), and build_json(), called by the  *)
(* serial thread at any time and by main() once, when the other threads    *)
(* run already.                                                            *)
(*                                                                         *)
(* A request takes several calls of the handler: one for its headers, one  *)
(* per piece of its body, a last one that chooses the page.  What the      *)
(* calls have to remember lives in globals, post_type, strxml and          *)
(* json_str, that all connections share; the calls of different            *)
(* connections interleave.  A response is MHD_RESPMEM_PERSISTENT: the      *)
(* library keeps an alias and reads the buffer again at every write to     *)
(* the socket.                                                             *)
(*                                                                         *)
(* A text is its two halves, each named by the request (strxml) or by the  *)
(* call of build_json() (json_str) that wrote it.  A response goes out in  *)
(* two writes, a strcpy() is two steps.                                    *)
(***************************************************************************)
EXTENDS Integers

CONSTANTS Conn,       \* connections
          MaxReq,     \* bound on the number of requests
          MaxBuilds   \* bound on the number of calls of build_json()

ASSUME HttpAssumption == MaxReq \in Nat /\ MaxBuilds \in Nat

VARIABLES
  post_type,   \* 0, 1 (JSON) or 2 (XML): left by the last body handled
  strxml,      \* the request whose reply strxml holds, 0 before the first
  json_str,    \* the two halves of json_str
  bpc,         \* build_json() of each thread: "build" before, "copy" in the
               \* middle of its strcpy(), "done" when main() has built its list
  str2,        \* the text a thread copies
  torn,        \* history: 1 when the last copy to json_str began within another
  pc,          \* what a connection waits for
  kind,        \* what its request is
  parts,       \* pieces of the body still to come
  whole,       \* 1 when the body comes in one piece
  req,         \* number of its request
  page,        \* buffer its response aliases
  snap,        \* history: that buffer when the response was made
  got,         \* history: the halves sent
  ran,         \* history: how often the request's command was carried out
  crossed,     \* history: 1 when another request's body was handled meanwhile
  rebuilt,     \* history: 1 when build_json() wrote while the response was sent,
               \* or two copies had met in the list before
  reqs,        \* history: number of requests
  builds,      \* history: number of calls of build_json()
  down         \* 1 when the process has died

globals == <<post_type, strxml>>
builder == <<json_str, bpc, str2, torn, builds>>
vars    == <<post_type, strxml, json_str, bpc, str2, torn, pc, kind, parts, whole, req,
             page, snap, got, ran, crossed, rebuilt, reqs, builds, down>>

\* GET; POST without a body; POST without Content-Length; a JSON message; an
\* XML message of a known user; a body that is neither, or XML without Content;
\* an XML message of another user; any other method.
Kinds == {"GET", "EMPTY", "NOLEN", "JSON", "XML", "BAD", "STRANGER", "OTHER"}

Bodyless == {"GET", "EMPTY", "OTHER"}

Pages == {"json_str", "strxml", "errorpage"}

Sending == {"send1", "send2", "sent"}

Builders == {"serial", "main"}

\* The threads in the middle of strcpy(json_str, str2).
Copying == {b \in Builders : bpc[b] = "copy"}

\* The two halves of a buffer as they are now.
Buffer(p) ==
  CASE p = "json_str"  -> json_str
    [] p = "strxml"    -> <<strxml, strxml>>
    [] p = "errorpage" -> <<0, 0>>

Init ==
  /\ post_type = 0 /\ strxml = 0 /\ json_str = <<0, 0>>
  /\ bpc = [b \in Builders |-> "build"] /\ str2 = [b \in Builders |-> 0] /\ torn = 0
  /\ pc = [c \in Conn |-> "idle"]
  /\ kind = [c \in Conn |-> "GET"] /\ parts = [c \in Conn |-> 0]
  /\ whole = [c \in Conn |-> 1] /\ req = [c \in Conn |-> 0]
  /\ page = [c \in Conn |-> "errorpage"]
  /\ snap = [c \in Conn |-> <<0, 0>>] /\ got = [c \in Conn |-> <<0, 0>>]
  /\ ran = [c \in Conn |-> 0] /\ crossed = [c \in Conn |-> 0]
  /\ rebuilt = [c \in Conn |-> 0]
  /\ reqs = 0 /\ builds = 0 /\ down = 0

-----------------------------------------------------------------------------
(* The handler.                                                            *)

\* *con_cls is NULL: con_info is allocated, nothing else happens.
FirstCall(c) ==
  /\ pc[c] = "idle" /\ reqs < MaxReq
  /\ reqs' = reqs + 1
  /\ \E k \in Kinds, n \in {1, 2} :
       /\ k \in Bodyless \cup {"NOLEN", "STRANGER"} => n = 1
       /\ kind'  = [kind  EXCEPT ![c] = k]
       /\ whole' = [whole EXCEPT ![c] = 2 - n]
       /\ parts' = [parts EXCEPT ![c] = IF k \in Bodyless THEN 0 ELSE n]
       /\ pc'    = [pc    EXCEPT ![c] = IF k \in Bodyless THEN "final" ELSE "body"]
  /\ req' = [req EXCEPT ![c] = reqs + 1]
  /\ UNCHANGED <<globals, builder, page, snap, got, ran, crossed, rebuilt, down>>

\* Mutant: *upload_data_size is left, so that the library offers the piece again.
PieceOffered(c) ==
  /\ \E n \in {parts[c], parts[c] - 1} :
       /\ parts' = [parts EXCEPT ![c] = n]
       /\ pc' = [pc EXCEPT ![c] = IF n = 0 THEN "final" ELSE "body"]
  /\ crossed' = [d \in Conn |-> IF d # c /\ pc[d] # "idle" THEN 1 ELSE crossed[d]]

\* *upload_data_size = 0; return MHD_YES;  The globals now speak of this
\* request, to every connection.
PieceDone(c) ==
  /\ parts' = [parts EXCEPT ![c] = @ - 1]
  /\ pc' = [pc EXCEPT ![c] = IF parts[c] = 1 THEN "final" ELSE "body"]
  /\ crossed' = [d \in Conn |-> IF d # c /\ pc[d] # "idle" THEN 1 ELSE crossed[d]]

\* No Content-Length: the body is not looked at.
BodyNoLength(c) ==
  /\ pc[c] = "body" /\ kind[c] = "NOLEN"
  /\ post_type' = 0
  /\ PieceDone(c)
  /\ UNCHANGED <<strxml, builder, kind, whole, req, page, snap, got, ran, rebuilt, reqs, down>>

\* json_tokener_parse() succeeds: the command is sent.
BodyJson(c) ==
  /\ pc[c] = "body" /\ kind[c] = "JSON" /\ whole[c] = 1
  /\ post_type' = 1
  /\ ran' = [ran EXCEPT ![c] = @ + 1]
  /\ PieceDone(c)
  /\ UNCHANGED <<strxml, builder, kind, whole, req, page, snap, got, rebuilt, reqs, down>>

\* Mutant: the reply is not written.
BodyXmlSilent(c) ==
  /\ pc[c] = "body" /\ kind[c] = "XML" /\ whole[c] = 1
  /\ post_type' = 2
  /\ ran' = [ran EXCEPT ![c] = @ + 1]
  /\ PieceDone(c)
  /\ UNCHANGED <<strxml, builder, kind, whole, req, page, snap, got, rebuilt, reqs, down>>

\* An XML message: the command of Content is sent and the reply written.
BodyXml(c) ==
  /\ pc[c] = "body" /\ kind[c] = "XML" /\ whole[c] = 1
  /\ post_type' = 2 /\ strxml' = req[c]
  /\ ran' = [ran EXCEPT ![c] = @ + 1]
  /\ PieceDone(c)
  /\ UNCHANGED <<builder, kind, whole, req, page, snap, got, rebuilt, reqs, down>>

\* Neither parser accepts what there is of the body, or it has no Content.
\* A body that comes in two pieces ends here with both: each is parsed alone.
BodyRejected(c) ==
  /\ pc[c] = "body"
  /\ kind[c] = "BAD" \/ (kind[c] \in {"JSON", "XML"} /\ whole[c] = 0)
  /\ post_type' = 2
  /\ PieceDone(c)
  /\ UNCHANGED <<strxml, builder, kind, whole, req, page, snap, got, ran, rebuilt, reqs, down>>

\* The end of a JSON body can be JSON by itself (a number); it has no "type".
BodyJsonTail(c) ==
  /\ pc[c] = "body" /\ kind[c] = "JSON" /\ whole[c] = 0 /\ parts[c] = 1
  /\ post_type' = 1
  /\ PieceDone(c)
  /\ UNCHANGED <<strxml, builder, kind, whole, req, page, snap, got, ran, rebuilt, reqs, down>>

\* FromUserName is not a known user: "return;" without a value.  The library
\* takes it for MHD_NO and closes, or for MHD_YES with the piece unprocessed:
\* the connection hangs until the client gives up.
BodyStranger(c) ==
  /\ pc[c] \in {"body", "hung"} /\ kind[c] = "STRANGER"
  /\ post_type' = 2
  /\ pc' \in {[pc EXCEPT ![c] = "hung"], [pc EXCEPT ![c] = "gone"]}
  /\ crossed' = [d \in Conn |-> IF d # c /\ pc[d] # "idle" THEN 1 ELSE crossed[d]]
  /\ UNCHANGED <<strxml, builder, kind, parts, whole, req, page, snap, got, ran, rebuilt, reqs, down>>

\* Mutant: the two pages are exchanged.
ChosenSwapped(c) ==
  CASE kind[c] = "GET"   -> "json_str"
    [] kind[c] = "OTHER" -> "errorpage"
    [] OTHER -> CASE post_type = 2 -> "json_str"
                  [] post_type = 1 -> "strxml"
                  [] post_type = 0 -> "errorpage"

\* The page of the last call; json_str is allocated before the server starts.
Chosen(c) ==
  CASE kind[c] = "GET"   -> "json_str"
    [] kind[c] = "OTHER" -> "errorpage"
    [] OTHER -> CASE post_type = 2 -> "strxml"
                  [] post_type = 1 -> "json_str"
                  [] post_type = 0 -> "errorpage"

\* The last call: send_page() queues a response that aliases the buffer.
SendPage(c) ==
  /\ pc[c] = "final"
  /\ page' = [page EXCEPT ![c] = Chosen(c)]
  /\ snap' = [snap EXCEPT ![c] = Buffer(Chosen(c))]
  /\ rebuilt' = [rebuilt EXCEPT ![c] = IF Copying # {} \/ torn = 1 THEN 1 ELSE 0]
  /\ pc' = [pc EXCEPT ![c] = "send1"]
  /\ UNCHANGED <<globals, builder, kind, parts, whole, req, got, ran, crossed, reqs, down>>

\* The library (external) writes the first half of the buffer to the socket,
\* and, when the socket takes more, the second.
WriteSocket(c) ==
  /\ pc[c] \in {"send1", "send2"}
  /\ LET h == IF pc[c] = "send1" THEN 1 ELSE 2
     IN  got' = [got EXCEPT ![c][h] = Buffer(page[c])[h]]
  /\ pc' = [pc EXCEPT ![c] = IF @ = "send1" THEN "send2" ELSE "sent"]
  /\ UNCHANGED <<globals, builder, kind, parts, whole, req, page, snap, ran, crossed, rebuilt, reqs, down>>

\* Mutant: con_info is left to the connection, which is never free again.
CompletedKeeps(c) ==
  /\ pc[c] \in {"sent", "gone"}
  /\ pc' = [pc EXCEPT ![c] = "hung"] /\ UNCHANGED down
  /\ UNCHANGED <<globals, builder, kind, parts, whole, req, page, snap, got, ran, crossed, rebuilt, reqs>>

\* request_completed() tests con_info->connectiontype, which nothing has set:
\* if the memory happens to hold POST, a post processor that was never made is
\* destroyed and the process dies.  Otherwise con_info is freed and nothing of
\* the request is left.
Completed(c) ==
  /\ pc[c] \in {"sent", "gone"}
  /\ \/ pc' = [pc EXCEPT ![c] = "idle"] /\ UNCHANGED down
     \/ down' = 1 /\ UNCHANGED pc
  /\ kind'  = [kind  EXCEPT ![c] = "GET"]       /\ parts' = [parts EXCEPT ![c] = 0]
  /\ whole' = [whole EXCEPT ![c] = 1]           /\ req'   = [req   EXCEPT ![c] = 0]
  /\ page'  = [page  EXCEPT ![c] = "errorpage"] /\ snap'  = [snap  EXCEPT ![c] = <<0, 0>>]
  /\ got' = [got EXCEPT ![c] = <<0, 0>>]        /\ ran' = [ran EXCEPT ![c] = 0]
  /\ crossed' = [crossed EXCEPT ![c] = 0]       /\ rebuilt' = [rebuilt EXCEPT ![c] = 0]
  /\ UNCHANGED <<globals, builder, reqs>>

\* The client closes the connection: request_completed() follows.
Hangup(c) ==
  /\ pc[c] \notin {"idle", "sent", "gone"}
  /\ pc' = [pc EXCEPT ![c] = "gone"]
  /\ UNCHANGED <<globals, builder, kind, parts, whole, req, page, snap, got, ran, crossed, rebuilt, reqs, down>>

\* The steps of the library's thread that wait for nobody.
Serve(c) == SendPage(c) \/ WriteSocket(c) \/ Completed(c)

Body(c) ==
  \/ BodyNoLength(c) \/ BodyJson(c) \/ BodyXml(c)
  \/ BodyRejected(c) \/ BodyJsonTail(c) \/ BodyStranger(c)

-----------------------------------------------------------------------------
(* build_json(): strcpy(json_str, str2), with str2 a new text.             *)

Halves(v) == [c \in Conn |-> IF pc[c] \in {"send1", "send2"} THEN 1 ELSE v[c]]

\* Mutant: only the first half of the text is copied.
StrcpyEndShort(b) ==
  /\ bpc[b] = "copy"
  /\ bpc' = [bpc EXCEPT ![b] = IF b = "main" THEN "done" ELSE "build"]
  /\ rebuilt' = Halves(rebuilt)
  /\ UNCHANGED <<globals, json_str, str2, torn, pc, kind, parts, whole, req, page, snap, got, ran, crossed, reqs, builds, down>>

\* The first half; nothing keeps two threads from being here at once.
StrcpyStart(b) ==
  /\ bpc[b] = "build" /\ builds < MaxBuilds
  /\ builds' = builds + 1 /\ str2' = [str2 EXCEPT ![b] = builds + 1]
  /\ json_str' = <<builds + 1, json_str[2]>>
  /\ torn' = IF Copying = {} THEN 0 ELSE 1
  /\ bpc' = [bpc EXCEPT ![b] = "copy"] /\ rebuilt' = Halves(rebuilt)
  /\ UNCHANGED <<globals, pc, kind, parts, whole, req, page, snap, got, ran, crossed, reqs, down>>

\* The second half; main() builds no other list.
StrcpyEnd(b) ==
  /\ bpc[b] = "copy"
  /\ json_str' = <<json_str[1], str2[b]>>
  /\ bpc' = [bpc EXCEPT ![b] = IF b = "main" THEN "done" ELSE "build"]
  /\ rebuilt' = Halves(rebuilt)
  /\ UNCHANGED <<globals, str2, torn, pc, kind, parts, whole, req, page, snap, got, ran, crossed, reqs, builds, down>>

Next ==
  /\ down = 0
  /\ \/ \E c \in Conn : FirstCall(c) \/ Body(c) \/ Serve(c) \/ Hangup(c)
     \/ \E b \in Builders : StrcpyStart(b) \/ StrcpyEnd(b)

\* The library serves a connection whose answer does not depend on the client
\* any more; nobody owes a request or the rest of a body.
Spec ==
  /\ Init /\ [][Next]_vars
  /\ \A c \in Conn : WF_vars(down = 0 /\ Serve(c))

-----------------------------------------------------------------------------
(* Properties.                                                             *)

\* A client is answered what answer_to_connection() prepared for its own
\* request, although post_type and strxml are shared: a message in XML its own
\* reply, one in JSON the device list.  Only another request handled in
\* between, or a body cut in two, can spoil it.
OwnAnswer ==
  \A c \in Conn :
    pc[c] = "sent" /\ crossed[c] = 0 /\ whole[c] = 1 =>
      /\ kind[c] = "XML"  => got[c] = <<req[c], req[c]>>
      /\ kind[c] = "JSON" => page[c] = "json_str"

\* A device list sent without build_json() writing to it meanwhile is one list,
\* never the beginning of one and the end of another, although two threads copy
\* to it: only where main()'s copy and one of the serial thread met can a list
\* at rest be a mixture, and only until the next copy.
WholeList ==
  \A c \in Conn :
    pc[c] = "sent" /\ page[c] = "json_str" /\ rebuilt[c] = 0
      => got[c][1] = got[c][2]

\* When the client of a command gets its answer, the command has been carried
\* out exactly once, unless its body came in two pieces: then never.
ExecutedOnce ==
  \A c \in Conn :
    pc[c] \in Sending /\ kind[c] \in {"JSON", "XML"} => ran[c] = whole[c]

\* Once the whole request is there the connection becomes free again.
Served ==
  \A c \in Conn : pc[c] = "final" ~> pc[c] = "idle" \/ down = 1

\* "Buffer is a persistent (static/global) buffer that won't change for at
\* least the lifetime of the response" (microhttpd.h on the mode send_page()
\* asks for).
PersistentUnchanged ==
  \A c \in Conn : pc[c] \in {"send1", "send2"} => Buffer(page[c]) = snap[c]
=============================================================================
