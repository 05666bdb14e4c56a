--------------------------- MODULE HttpConnProofs ---------------------------
(***************************************************************************)
(* Proofs about the HTTP side of zbclient.c for every number of            *)
(* connections, requests and calls of build_json().                        *)
(***************************************************************************)
EXTENDS HttpConn, TLAPS

Pcs == {"idle", "body", "final", "send1", "send2", "sent", "hung", "gone"}

\* A text in two halves.
Text == [1 .. 2 -> Nat]

\* The types of the shared buffers and of what a connection keeps.
TypeOK ==
  /\ post_type \in 0 .. 2 /\ strxml \in Nat /\ json_str \in Text
  /\ bpc \in [Builders -> {"build", "copy", "done"}] /\ str2 \in [Builders -> Nat]
  /\ torn \in {0, 1} /\ builds \in Nat /\ reqs \in Nat
  /\ pc \in [Conn -> Pcs] /\ kind \in [Conn -> Kinds]
  /\ parts \in [Conn -> Int] /\ whole \in [Conn -> {0, 1}] /\ req \in [Conn -> Nat]
  /\ page \in [Conn -> Pages] /\ got \in [Conn -> Text]
  /\ ran \in [Conn -> Nat] /\ crossed \in [Conn -> {0, 1}] /\ rebuilt \in [Conn -> {0, 1}]

LEMMA PairText == ASSUME NEW a \in Nat, NEW b \in Nat
                  PROVE  <<a, b>> \in Text /\ <<a, b>>[1] = a /\ <<a, b>>[2] = b
BY DEF Text

LEMMA BufferText == ASSUME TypeOK, NEW p \in Pages PROVE Buffer(p) \in Text
BY PairText DEF Buffer, Pages, TypeOK

LEMMA ChosenPage == ASSUME TypeOK, NEW c \in Conn PROVE Chosen(c) \in Pages
BY DEF Chosen, Pages, TypeOK

LEMMA InitTypeOK == Init => TypeOK
BY PairText DEF Init, TypeOK, Pcs, Kinds, Pages

LEMMA FirstCallTypeOK == ASSUME TypeOK, NEW c \in Conn, FirstCall(c) PROVE TypeOK'
BY DEF TypeOK, FirstCall, Pcs, Kinds, globals, builder

LEMMA PieceTypeOK ==
  ASSUME TypeOK, NEW c \in Conn, PieceDone(c)
  PROVE  parts' \in [Conn -> Int] /\ pc' \in [Conn -> Pcs] /\ crossed' \in [Conn -> {0, 1}]
BY DEF TypeOK, PieceDone, Pcs

LEMMA BodyTypeOK == ASSUME TypeOK, NEW c \in Conn, Body(c) PROVE TypeOK'
<1>1. CASE BodyStranger(c)
  BY <1>1 DEF TypeOK, BodyStranger, Pcs, builder
<1>2. CASE BodyNoLength(c)
  BY <1>2, PieceTypeOK DEF TypeOK, BodyNoLength, builder
<1>3. CASE BodyJson(c)
  BY <1>3, PieceTypeOK DEF TypeOK, BodyJson, builder
<1>4. CASE BodyXml(c)
  BY <1>4, PieceTypeOK DEF TypeOK, BodyXml, builder
<1>5. CASE BodyRejected(c) \/ BodyJsonTail(c)
  BY <1>5, PieceTypeOK DEF TypeOK, BodyRejected, BodyJsonTail, builder
<1> QED
  BY <1>1, <1>2, <1>3, <1>4, <1>5 DEF Body

\* What a write to the socket adds to what was sent.
LEMMA WriteText ==
  ASSUME TypeOK, NEW c \in Conn, WriteSocket(c)
  PROVE  /\ got' \in [Conn -> Text]
         /\ \A d \in Conn : d # c => got'[d] = got[d]
         /\ pc[c] = "send1" => got'[c][1] = Buffer(page[c])[1]
         /\ pc[c] = "send2" => got'[c][1] = got[c][1] /\ got'[c][2] = Buffer(page[c])[2]
<1>1. Buffer(page[c]) \in Text /\ got[c] \in Text
  BY BufferText DEF TypeOK
<1> DEFINE h == IF pc[c] = "send1" THEN 1 ELSE 2
<1>2. h \in 1 .. 2 /\ got' = [got EXCEPT ![c] = [got[c] EXCEPT ![h] = Buffer(page[c])[h]]]
  BY DEF WriteSocket
<1>3. [got[c] EXCEPT ![h] = Buffer(page[c])[h]] \in Text
  BY <1>1 DEF Text
<1> QED
  BY <1>1, <1>2, <1>3 DEF TypeOK, Text

LEMMA ServeTypeOK == ASSUME TypeOK, NEW c \in Conn, Serve(c) \/ Hangup(c) PROVE TypeOK'
<1>1. CASE SendPage(c)
  BY <1>1, ChosenPage DEF TypeOK, SendPage, Pcs, globals, builder
<1>2. CASE WriteSocket(c)
  BY <1>2, WriteText DEF TypeOK, WriteSocket, Pcs, globals, builder
<1>3. CASE Completed(c)
  BY <1>3, PairText DEF TypeOK, Completed, Pcs, Kinds, Pages, globals, builder
<1>4. CASE Hangup(c)
  BY <1>4 DEF TypeOK, Hangup, Pcs, globals, builder
<1> QED
  BY <1>1, <1>2, <1>3, <1>4 DEF Serve

LEMMA StrcpyTypeOK ==
  ASSUME TypeOK, NEW b \in Builders, StrcpyStart(b) \/ StrcpyEnd(b) PROVE TypeOK'
<1>1. json_str[1] \in Nat /\ json_str[2] \in Nat /\ str2[b] \in Nat
  BY DEF TypeOK, Text
<1>2. json_str' \in Text
  BY <1>1, PairText DEF TypeOK, StrcpyStart, StrcpyEnd
<1> QED
  BY <1>2 DEF TypeOK, StrcpyStart, StrcpyEnd, Halves, globals

\* The types hold of every behaviour.
THEOREM SpecTypeOK == Spec => []TypeOK
<1>1. TypeOK /\ [Next]_vars => TypeOK'
  <2> SUFFICES ASSUME TypeOK, [Next]_vars PROVE TypeOK'
    OBVIOUS
  <2>1. CASE Next
    BY <2>1, FirstCallTypeOK, BodyTypeOK, ServeTypeOK, StrcpyTypeOK DEF Next
  <2>2. CASE UNCHANGED vars
    BY <2>2 DEF vars, TypeOK
  <2> QED
    BY <2>1, <2>2
<1> QED
  BY <1>1, InitTypeOK, PTL DEF Spec

-----------------------------------------------------------------------------
(* The command is carried out once.                                        *)

Command(c) == kind[c] \in {"JSON", "XML"}

\* Nothing is carried out before the body, which is all of it or a half.
Executed ==
  \A c \in Conn :
    /\ pc[c] = "idle" => ran[c] = 0
    /\ pc[c] = "body" /\ Command(c) => ran[c] = 0 /\ (whole[c] = 1 => parts[c] = 1)
    /\ pc[c] \in Sending \cup {"final"} /\ Command(c) => ran[c] = whole[c]

LEMMA NextExecuted == TypeOK /\ Executed /\ [Next]_vars => Executed'
<1> SUFFICES ASSUME TypeOK, Executed, [Next]_vars PROVE Executed'
  OBVIOUS
<1> USE DEF TypeOK, Executed, Command, Sending
<1>1. ASSUME NEW c \in Conn, FirstCall(c) PROVE Executed'
  BY <1>1 DEF FirstCall, Bodyless
<1>2. ASSUME NEW c \in Conn, BodyNoLength(c) PROVE Executed'
  BY <1>2 DEF BodyNoLength, PieceDone
<1>3. ASSUME NEW c \in Conn, BodyJson(c) PROVE Executed'
  <2>1. parts[c] = 1 /\ ran[c] = 0 /\ whole[c] = 1 /\ UNCHANGED <<kind, whole>>
    BY <1>3 DEF BodyJson
  <2>2. pc'[c] = "final" /\ ran'[c] = 1
    BY <1>3, <2>1 DEF BodyJson, PieceDone
  <2>3. \A d \in Conn : d # c => pc'[d] = pc[d] /\ ran'[d] = ran[d] /\ parts'[d] = parts[d]
    BY <1>3 DEF BodyJson, PieceDone
  <2> QED
    BY <2>1, <2>2, <2>3
<1>4. ASSUME NEW c \in Conn, BodyXml(c) PROVE Executed'
  <2>1. parts[c] = 1 /\ ran[c] = 0 /\ whole[c] = 1 /\ UNCHANGED <<kind, whole>>
    BY <1>4 DEF BodyXml
  <2>2. pc'[c] = "final" /\ ran'[c] = 1
    BY <1>4, <2>1 DEF BodyXml, PieceDone
  <2>3. \A d \in Conn : d # c => pc'[d] = pc[d] /\ ran'[d] = ran[d] /\ parts'[d] = parts[d]
    BY <1>4 DEF BodyXml, PieceDone
  <2> QED
    BY <2>1, <2>2, <2>3
<1>5. ASSUME NEW c \in Conn, BodyRejected(c) \/ BodyJsonTail(c) PROVE Executed'
  BY <1>5 DEF BodyRejected, BodyJsonTail, PieceDone
<1>6. ASSUME NEW c \in Conn, BodyStranger(c) PROVE Executed'
  BY <1>6 DEF BodyStranger
<1>7. ASSUME NEW c \in Conn, SendPage(c) PROVE Executed'
  BY <1>7 DEF SendPage
<1>8. ASSUME NEW c \in Conn, WriteSocket(c) PROVE Executed'
  BY <1>8 DEF WriteSocket
<1>9. ASSUME NEW c \in Conn, Completed(c) PROVE Executed'
  BY <1>9 DEF Completed
<1>10. ASSUME NEW c \in Conn, Hangup(c) PROVE Executed'
  BY <1>10 DEF Hangup
<1>11. CASE (\E b \in Builders : StrcpyStart(b) \/ StrcpyEnd(b)) \/ UNCHANGED vars
  BY <1>11 DEF StrcpyStart, StrcpyEnd, vars
<1> QED
  BY <1>1, <1>2, <1>3, <1>4, <1>5, <1>6, <1>7, <1>8, <1>9, <1>10, <1>11 DEF Next, Body, Serve

\* A command in one piece was carried out once when its answer goes out, one
\* in two pieces never.
THEOREM SpecExecutedOnce == Spec => []ExecutedOnce
<1>1. Init => Executed
  BY DEF Init, Executed, Sending, Command
<1>2. Executed => ExecutedOnce
  BY DEF Executed, ExecutedOnce, Command
<1> QED
  BY <1>1, <1>2, SpecTypeOK, NextExecuted, PTL DEF Spec

-----------------------------------------------------------------------------
(* The answer is the request's own.                                        *)

\* What post_type, strxml, the page and the halves sent say of a request that
\* no other one crossed.
Answer ==
  \A c \in Conn :
    crossed[c] = 0 /\ whole[c] = 1 =>
      /\ pc[c] = "body" /\ Command(c) => parts[c] = 1
      /\ kind[c] = "XML" =>
           /\ pc[c] = "final" => post_type = 2
           /\ pc[c] \in {"final", "send1", "send2"} => strxml = req[c]
           /\ pc[c] \in {"send1", "send2"} => page[c] = "strxml"
           /\ pc[c] \in {"send2", "sent"} => got[c][1] = req[c]
           /\ pc[c] = "sent" => got[c][2] = req[c]
      /\ kind[c] = "JSON" =>
           /\ pc[c] = "final" => post_type = 1
           /\ pc[c] \in Sending => page[c] = "json_str"

\* A body of one connection crosses all others that are busy.
LEMMA BodyAnswer == ASSUME TypeOK, Answer, NEW c \in Conn, Body(c) PROVE Answer'
<1>1. \A d \in Conn : d # c /\ pc[d] # "idle" => crossed'[d] = 1
  BY DEF Body, BodyNoLength, BodyJson, BodyXml, BodyRejected, BodyJsonTail, BodyStranger, PieceDone
<1>2. \A d \in Conn : d # c => pc'[d] = pc[d]
  BY DEF Body, BodyNoLength, BodyJson, BodyXml, BodyRejected, BodyJsonTail, BodyStranger, PieceDone, TypeOK
<1>3. UNCHANGED <<kind, whole, req, page, got>>
  BY DEF Body, BodyNoLength, BodyJson, BodyXml, BodyRejected, BodyJsonTail, BodyStranger
<1>4. crossed'[c] = crossed[c]
  BY DEF Body, BodyNoLength, BodyJson, BodyXml, BodyRejected, BodyJsonTail, BodyStranger, PieceDone, TypeOK
<1>5. pc'[c] \in {"body", "final", "hung", "gone"}
  BY DEF Body, BodyNoLength, BodyJson, BodyXml, BodyRejected, BodyJsonTail, BodyStranger, PieceDone, TypeOK
<1>6. ASSUME crossed[c] = 0, whole[c] = 1, kind[c] = "XML"
      PROVE  pc'[c] = "final" /\ post_type' = 2 /\ strxml' = req[c]
  BY <1>6 DEF Body, BodyNoLength, BodyJson, BodyXml, BodyRejected, BodyJsonTail, BodyStranger,
    PieceDone, TypeOK, Answer, Command
<1>7. ASSUME crossed[c] = 0, whole[c] = 1, kind[c] = "JSON"
      PROVE  pc'[c] = "final" /\ post_type' = 1
  BY <1>7 DEF Body, BodyNoLength, BodyJson, BodyXml, BodyRejected, BodyJsonTail, BodyStranger,
    PieceDone, TypeOK, Answer, Command
<1> QED
  BY <1>1, <1>2, <1>3, <1>4, <1>5, <1>6, <1>7 DEF Answer, Command, Sending

LEMMA NextAnswer == TypeOK /\ Answer /\ [Next]_vars => Answer'
<1> SUFFICES ASSUME TypeOK, Answer, [Next]_vars PROVE Answer'
  OBVIOUS
<1> USE DEF Answer, Command, Sending
<1>1. ASSUME NEW c \in Conn, FirstCall(c) PROVE Answer'
  BY <1>1 DEF TypeOK, FirstCall, Bodyless, globals
<1>2. ASSUME NEW c \in Conn, SendPage(c) PROVE Answer'
  BY <1>2 DEF TypeOK, SendPage, Chosen, globals
<1>3. ASSUME NEW c \in Conn, WriteSocket(c) PROVE Answer'
  <2>1. page[c] = "strxml" => Buffer(page[c])[1] = strxml /\ Buffer(page[c])[2] = strxml
    BY DEF Buffer
  <2>2. /\ pc[c] \in {"send1", "send2"} /\ pc'[c] = (IF pc[c] = "send1" THEN "send2" ELSE "sent")
        /\ \A d \in Conn : d # c => pc'[d] = pc[d]
        /\ UNCHANGED <<globals, kind, parts, whole, req, page, crossed>>
    BY <1>3 DEF WriteSocket, TypeOK
  <2> QED
    BY <1>3, <2>1, <2>2, WriteText DEF globals
<1>4. ASSUME NEW c \in Conn, Completed(c) PROVE Answer'
  BY <1>4 DEF TypeOK, Completed, globals
<1>5. ASSUME NEW c \in Conn, Hangup(c) PROVE Answer'
  BY <1>5 DEF TypeOK, Hangup, globals
<1>6. CASE (\E b \in Builders : StrcpyStart(b) \/ StrcpyEnd(b)) \/ UNCHANGED vars
  BY <1>6 DEF StrcpyStart, StrcpyEnd, vars, globals
<1> QED
  BY <1>1, <1>2, <1>3, <1>4, <1>5, <1>6, BodyAnswer DEF Next, Serve

\* An XML message gets its own reply and a JSON one the device list, unless
\* another body crossed it or its own came in two pieces.
THEOREM SpecOwnAnswer == Spec => []OwnAnswer
<1>1. Init => Answer
  BY DEF Init, Answer, Sending, Command
<1>2. TypeOK /\ Answer => OwnAnswer
  <2>1. ASSUME TypeOK, NEW c \in Conn, got[c][1] = req[c], got[c][2] = req[c]
        PROVE  got[c] = <<req[c], req[c]>>
    BY <2>1, PairText DEF TypeOK, Text
  <2> QED
    BY <2>1 DEF Answer, OwnAnswer, Sending
<1> QED
  BY <1>1, <1>2, SpecTypeOK, NextAnswer, PTL DEF Spec

-----------------------------------------------------------------------------
(* A device list is whole.                                                 *)

\* Between copies json_str is one text, and within a copy that met no other its
\* first half is the copier's, unless two met; no response that counts as
\* undisturbed saw anything else.
Lists ==
  /\ torn = 0 /\ Copying = {} => json_str[1] = json_str[2]
  /\ torn = 0 => \A b \in Copying : Copying = {b} /\ json_str[1] = str2[b]
  /\ \A c \in Conn :
       rebuilt[c] = 0 =>
         /\ pc[c] \in {"send1", "send2"} => torn = 0 /\ Copying = {}
         /\ pc[c] = "send2" /\ page[c] = "json_str" => got[c][1] = json_str[1]
         /\ pc[c] = "sent" /\ page[c] = "json_str" => got[c][1] = got[c][2]

\* A step that leaves build_json() alone leaves the threads where they are.
LEMMA CopyingSame == UNCHANGED bpc => Copying' = Copying
BY DEF Copying

\* The two halves of a copy.
LEMMA StrcpyLists ==
  ASSUME TypeOK, Lists, NEW b \in Builders, StrcpyStart(b) \/ StrcpyEnd(b)
  PROVE  /\ torn' = 0 /\ Copying' = {} => json_str'[1] = json_str'[2]
         /\ torn' = 0 => \A d \in Copying' : Copying' = {d} /\ json_str'[1] = str2'[d]
<1>0. json_str[1] \in Nat /\ json_str[2] \in Nat /\ str2[b] \in Nat /\ builds + 1 \in Nat
  BY DEF TypeOK, Text
<1>1. CASE StrcpyStart(b)
  <2>1. Copying' = Copying \cup {b}
    BY <1>1 DEF StrcpyStart, Copying, TypeOK
  <2>2. json_str'[1] = builds + 1 /\ str2'[b] = builds + 1
    BY <1>0, <1>1, PairText DEF StrcpyStart, TypeOK
  <2>3. torn' = 0 => Copying = {}
    BY <1>1 DEF StrcpyStart
  <2> QED
    BY <2>1, <2>2, <2>3
<1>2. CASE StrcpyEnd(b)
  <2>1. b \in Copying /\ Copying' = Copying \ {b} /\ torn' = torn
    BY <1>2 DEF StrcpyEnd, Copying, TypeOK
  <2>2. json_str'[1] = json_str[1] /\ json_str'[2] = str2[b]
    BY <1>0, <1>2, PairText DEF StrcpyEnd
  <2> QED
    BY <2>1, <2>2 DEF Lists
<1> QED
  BY <1>1, <1>2

LEMMA NextLists == TypeOK /\ Lists /\ [Next]_vars => Lists'
<1> SUFFICES ASSUME TypeOK, Lists, [Next]_vars PROVE Lists'
  OBVIOUS
<1> USE DEF Lists
<1>1. ASSUME NEW c \in Conn, FirstCall(c) PROVE Lists'
  BY <1>1, CopyingSame DEF TypeOK, FirstCall, builder
<1>2. ASSUME NEW c \in Conn, Body(c) PROVE Lists'
  <2>1. UNCHANGED <<builder, page, got, rebuilt>> /\ pc'[c] \in {"body", "final", "hung", "gone"}
    BY <1>2 DEF Body, BodyNoLength, BodyJson, BodyXml, BodyRejected, BodyJsonTail, BodyStranger,
      PieceDone, TypeOK
  <2>2. \A d \in Conn : d # c => pc'[d] = pc[d]
    BY <1>2 DEF Body, BodyNoLength, BodyJson, BodyXml, BodyRejected, BodyJsonTail, BodyStranger,
      PieceDone, TypeOK
  <2> QED
    BY <2>1, <2>2, CopyingSame DEF builder
<1>3. ASSUME NEW c \in Conn, SendPage(c) PROVE Lists'
  BY <1>3, CopyingSame DEF TypeOK, SendPage, builder
<1>4. ASSUME NEW c \in Conn, WriteSocket(c) PROVE Lists'
  <2>1. page[c] = "json_str" => Buffer(page[c]) = json_str
    BY DEF Buffer
  <2>2. /\ pc[c] \in {"send1", "send2"} /\ pc'[c] = (IF pc[c] = "send1" THEN "send2" ELSE "sent")
        /\ \A d \in Conn : d # c => pc'[d] = pc[d]
        /\ UNCHANGED <<builder, page, rebuilt>>
    BY <1>4 DEF WriteSocket, TypeOK
  <2> QED
    BY <1>4, <2>1, <2>2, WriteText, CopyingSame DEF builder
<1>5. ASSUME NEW c \in Conn, Completed(c) PROVE Lists'
  BY <1>5, CopyingSame DEF TypeOK, Completed, builder
<1>6. ASSUME NEW c \in Conn, Hangup(c) PROVE Lists'
  BY <1>6, CopyingSame DEF TypeOK, Hangup, builder
<1>7. ASSUME NEW b \in Builders, StrcpyStart(b) \/ StrcpyEnd(b) PROVE Lists'
  <2>1. \A c \in Conn : pc[c] \in {"send1", "send2"} => rebuilt'[c] = 1
    BY <1>7 DEF StrcpyStart, StrcpyEnd, Halves
  <2>2. \A c \in Conn : pc[c] \notin {"send1", "send2"} => rebuilt'[c] = rebuilt[c]
    BY <1>7 DEF StrcpyStart, StrcpyEnd, Halves
  <2>3. UNCHANGED <<pc, page, got>>
    BY <1>7 DEF StrcpyStart, StrcpyEnd
  <2> QED
    BY <1>7, <2>1, <2>2, <2>3, StrcpyLists
<1>8. CASE UNCHANGED vars
  BY <1>8, CopyingSame DEF vars
<1> QED
  BY <1>1, <1>2, <1>3, <1>4, <1>5, <1>6, <1>7, <1>8 DEF Next, Serve

\* A list sent while build_json() was not writing is never a mixture of two,
\* for any number of copies by two threads, except where two copies met.
THEOREM SpecWholeList == Spec => []WholeList
<1>1. Init => Lists
  BY PairText DEF Init, Lists, Copying
<1>2. Lists => WholeList
  BY DEF Lists, WholeList
<1> QED
  BY <1>1, <1>2, SpecTypeOK, NextLists, PTL DEF Spec
=============================================================================
