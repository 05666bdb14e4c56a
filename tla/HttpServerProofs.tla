-------------------------- MODULE HttpServerProofs --------------------------
(***************************************************************************)
(* Proofs about httpserver.c for every number of connections and requests, *)
(* every set of bodies and every size of the ring of slots and the device  *)
(* table.                                                                  *)
(***************************************************************************)
EXTENDS HttpServer, NaturalsInduction, WellFoundedInduction, TLAPS

\* The provers do not know that "" is a string.
Texts == STRING \cup {""}
Slot  == [type : Texts, dev_id : Int, dev_type : Int, idxs : Int, idx : Int,
          action : Int, value : Int]
Entry == [id : Int, type : Int]
Pcs   == {"idle", "get", "body", "last", "send", "sent", "gone"}

\* The types of what the program and its connections keep.
TypeOK ==
  /\ idx \in Slots /\ old_idx \in Slots
  /\ re_post \in [Slots -> Slot]
  /\ by \in [Slots -> SUBSET Nat]
  /\ device \in Seq(Entry)
  /\ pc \in [Conn -> Pcs]
  /\ msg \in [Conn -> Seq(FieldSet)] /\ todo \in [Conn -> Seq(FieldSet)]
  /\ req \in [Conn -> Nat] /\ reqs \in Nat
  /\ cleared \in [Conn -> {0, 1}] /\ moved \in [Conn -> {0, 1}]
  /\ DOMAIN answer = Conn /\ DOMAIN got = Conn
  /\ \A c \in Conn : pc[c] = "body" => Len(todo[c]) > 0

-----------------------------------------------------------------------------
(* Slots and fields.                                                       *)

LEMMA SlotsNat == 0 \in Slots /\ Slots \subseteq Nat /\ SLOTS \in Nat
BY ServerAssumption DEF Slots

LEMMA AdvanceSlot == ASSUME NEW n \in Slots PROVE Advance(n) \in Slots
BY ServerAssumption DEF Slots, Advance

LEMMA BlankSlot == ASSUME NEW t \in Texts PROVE Blank(t) \in Slot /\ Blank(t).type = t
BY DEF Blank, Slot

\* A field is one of the record's, with a value of its kind.
LEMMA StoreSlot ==
  ASSUME NEW r \in Slot, NEW f \in FieldSet
  PROVE  [r EXCEPT ![f[1]] = f[2]] \in Slot
<1>1. CASE f[1] = "type" /\ f[2] \in STRING
  BY <1>1 DEF Slot, Texts
<1>2. CASE f[1] \in NumberKeys /\ f[2] \in Int
  BY <1>2 DEF Slot, NumberKeys
<1> QED
  BY <1>1, <1>2 DEF FieldSet

\* What a field does to the slots.
LEMMA FieldSlots ==
  ASSUME TypeOK, NEW c \in Conn, Field(c)
  PROVE  /\ \A s \in Slots : s # idx => re_post'[s] = IF old_idx # idx /\ s = idx - 1
                                                      THEN Blank(re_post[s].type) ELSE re_post[s]
         /\ Head(todo[c]) \in FieldSet
         /\ re_post'[idx] = [re_post[idx] EXCEPT ![Head(todo[c])[1]] = Head(todo[c])[2]]
         /\ re_post' \in [Slots -> Slot]
<1>1. Head(todo[c]) \in FieldSet
  BY DEF TypeOK, Field
<1>2. idx - 1 # idx /\ idx \in Slots
  BY SlotsNat DEF TypeOK
<1>3. \A s \in Slots : Blank(re_post[s].type) \in Slot
  BY BlankSlot DEF TypeOK, Slot
<1> DEFINE f == Head(todo[c])
           clean == [s \in Slots |-> IF old_idx # idx /\ s = idx - 1 THEN Cleared(re_post[s]) ELSE re_post[s]]
<1>4. re_post' = [clean EXCEPT ![idx] = [clean[idx] EXCEPT ![f[1]] = f[2]]]
  BY DEF Field
<1>5. clean \in [Slots -> Slot] /\ clean[idx] = re_post[idx]
  BY <1>2, <1>3 DEF Cleared, TypeOK
<1>6. [clean[idx] EXCEPT ![f[1]] = f[2]] \in Slot
  BY <1>1, <1>5, <1>2, StoreSlot
<1> QED
  BY <1>1, <1>2, <1>4, <1>5, <1>6 DEF Cleared

-----------------------------------------------------------------------------
(* The types.                                                              *)

LEMMA InitTypeOK == Init => TypeOK
<1> SUFFICES ASSUME Init PROVE TypeOK
  OBVIOUS
<1>1. << >> \in Seq(FieldSet) /\ << >> \in Seq(Entry)
  OBVIOUS
<1>2. Blank("") \in Slot
  <2>1. "" \in Texts
    BY DEF Texts
  <2>2. \A t \in Texts : Blank(t) \in Slot
    BY BlankSlot
  <2> QED
    BY <2>1, <2>2, Zenon
<1> QED
  BY <1>1, <1>2, SlotsNat DEF Init, TypeOK, Pcs

LEMMA FirstCallTypeOK ==
  ASSUME TypeOK, NEW c \in Conn, FirstCall(c) PROVE TypeOK'
<1>1. /\ reqs' \in Nat /\ req' \in [Conn -> Nat]
      /\ cleared' \in [Conn -> {0, 1}]
  BY DEF TypeOK, FirstCall, Memset
<1>2. CASE UNCHANGED <<msg, todo>> /\ \E p \in {"get", "last", "gone"} : pc' = [pc EXCEPT ![c] = p]
  BY <1>1, <1>2 DEF TypeOK, FirstCall, Pcs, slot
<1>3. CASE \E m \in Messages :
             /\ msg' = [msg EXCEPT ![c] = m] /\ todo' = [todo EXCEPT ![c] = m]
             /\ pc' = [pc EXCEPT ![c] = "body"]
  <2> PICK m \in Messages : /\ msg' = [msg EXCEPT ![c] = m] /\ todo' = [todo EXCEPT ![c] = m]
                            /\ pc' = [pc EXCEPT ![c] = "body"]
    BY <1>3
  <2>1. m \in Seq(FieldSet) /\ Len(m) > 0
    BY MessageAssumption
  <2> QED
    BY <1>1, <2>1 DEF TypeOK, FirstCall, Pcs, slot
<1> QED
  BY <1>2, <1>3 DEF FirstCall

LEMMA FieldTypeOK == ASSUME TypeOK, NEW c \in Conn, Field(c) PROVE TypeOK'
<1>1. re_post' \in [Slots -> Slot]
  BY FieldSlots
<1>2. Tail(todo[c]) \in Seq(FieldSet) /\ Len(Tail(todo[c])) = Len(todo[c]) - 1 /\ Len(todo[c]) \in Nat
  BY DEF TypeOK, Field
<1>3. by' \in [Slots -> SUBSET Nat]
  BY DEF TypeOK, Field
<1>4. pc' \in [Conn -> Pcs] /\ todo' \in [Conn -> Seq(FieldSet)] /\ cleared' \in [Conn -> {0, 1}]
  BY <1>2 DEF TypeOK, Field, Pcs, Memset
<1>5. \A d \in Conn : pc'[d] = "body" => Len(todo'[d]) > 0
  BY <1>2 DEF TypeOK, Field
<1> QED
  BY <1>1, <1>3, <1>4, <1>5 DEF TypeOK, Field

LEMMA AddTypeOK == ASSUME TypeOK, Add(re_post[idx]) PROVE device' \in Seq(Entry)
<1>1. [id |-> re_post[idx].dev_id, type |-> re_post[idx].dev_type] \in Entry
  BY DEF TypeOK, Slot, Entry
<1>2. Append(device, [id |-> re_post[idx].dev_id, type |-> re_post[idx].dev_type]) \in Seq(Entry)
  BY <1>1 DEF TypeOK
<1> QED
  BY <1>2 DEF Add, TypeOK

LEMMA LastTypeOK == ASSUME TypeOK, NEW c \in Conn, Last(c) PROVE TypeOK'
<1>1. device' \in Seq(Entry)
  BY AddTypeOK DEF Last
<1>2. idx' \in Slots
  BY AdvanceSlot DEF TypeOK, Last
<1>3. cleared' \in [Conn -> {0, 1}] /\ moved' \in [Conn -> {0, 1}] /\ pc' \in [Conn -> Pcs]
  BY DEF TypeOK, Last, Memset, Move, Pcs
<1>4. UNCHANGED <<old_idx, re_post, by, msg, todo, req, got, reqs>> /\ DOMAIN answer' = Conn
  BY DEF Last, TypeOK
<1>5. \A d \in Conn : pc'[d] = "body" => Len(todo'[d]) > 0
  BY DEF TypeOK, Last
<1> QED
  BY <1>1, <1>2, <1>3, <1>4, <1>5 DEF TypeOK

LEMMA OtherTypeOK ==
  ASSUME TypeOK, NEW c \in Conn, Get(c) \/ WriteSocket(c) \/ Completed(c) \/ Hangup(c)
  PROVE  TypeOK'
<1>1. << >> \in Seq(FieldSet)
  OBVIOUS
<1>2. CASE Get(c)
  BY <1>2 DEF TypeOK, Get, Memset, Pcs, slot
<1>3. CASE WriteSocket(c)
  BY <1>3 DEF TypeOK, WriteSocket, Pcs, slot
<1>4. CASE Completed(c)
  BY <1>1, <1>4 DEF TypeOK, Completed, Pcs, slot
<1>5. CASE Hangup(c)
  BY <1>5 DEF TypeOK, Hangup, Pcs, slot
<1> QED
  BY <1>2, <1>3, <1>4, <1>5

LEMMA NextTypeOK == TypeOK /\ [Next]_vars => TypeOK'
<1> SUFFICES ASSUME TypeOK, [Next]_vars PROVE TypeOK'
  OBVIOUS
<1>1. CASE Next
  BY <1>1, FirstCallTypeOK, FieldTypeOK, LastTypeOK, OtherTypeOK DEF Next
<1>2. CASE UNCHANGED vars
  BY <1>2 DEF vars, TypeOK
<1> QED
  BY <1>1, <1>2

\* The index stays in the ring, and every slot, field and entry keeps its type.
THEOREM SpecTypeOK == Spec => []TypeOK
BY InitTypeOK, NextTypeOK, PTL DEF Spec

-----------------------------------------------------------------------------
(* The page a client is sent.                                              *)

\* A response is made from an empty answer, and as long as nobody called the
\* handler str22 still is the answer.
Page ==
  \A c \in Conn :
    /\ pc[c] \in {"idle", "get", "body", "last"} => answer[c] = << >> /\ got[c] = << >>
    /\ pc[c] = "send" /\ cleared[c] = 0 => str22 = answer[c]
    /\ pc[c] = "sent" /\ cleared[c] = 0 => got[c] = answer[c]

LEMMA NextPage == TypeOK /\ Page /\ [Next]_vars => Page'
<1> SUFFICES ASSUME TypeOK, Page, [Next]_vars PROVE Page'
  OBVIOUS
<1> USE DEF TypeOK, Page
<1>1. ASSUME NEW c \in Conn, FirstCall(c) PROVE Page'
  BY <1>1 DEF FirstCall, Memset
<1>2. ASSUME NEW c \in Conn, Field(c) PROVE Page'
  BY <1>2 DEF Field, Memset
<1>3. ASSUME NEW c \in Conn, Get(c) PROVE Page'
  BY <1>3 DEF Get, Memset
<1>4. ASSUME NEW c \in Conn, Last(c) PROVE Page'
  BY <1>4 DEF Last, Memset
<1>5. ASSUME NEW c \in Conn, WriteSocket(c) PROVE Page'
  BY <1>5 DEF WriteSocket
<1>6. ASSUME NEW c \in Conn, Completed(c) PROVE Page'
  BY <1>6 DEF Completed
<1>7. ASSUME NEW c \in Conn, Hangup(c) PROVE Page'
  BY <1>7 DEF Hangup
<1>8. CASE UNCHANGED vars
  BY <1>8 DEF vars
<1> QED
  BY <1>1, <1>2, <1>3, <1>4, <1>5, <1>6, <1>7, <1>8 DEF Next

\* A client gets the answer made for it unless the handler ran in between.
THEOREM SpecOwnPage == Spec => []OwnPage
<1>1. Init => Page
  BY DEF Init, Page
<1>2. Page => OwnPage
  BY DEF Page, OwnPage
<1> QED
  BY <1>1, <1>2, SpecTypeOK, NextPage, PTL DEF Spec

-----------------------------------------------------------------------------
(* The ring of slots.                                                      *)

\* The slot behind the one of the last field is clean, also when the ring has
\* gone round without a field, and the slot of the last field is not bare.
Behind ==
  /\ old_idx \notin bare
  /\ old_idx > 0 => re_post[old_idx-1] = Blank(re_post[old_idx-1].type)

LEMMA FieldClean ==
  ASSUME TypeOK, SlotsComeRoundClean, Behind, NEW c \in Conn, Field(c)
  PROVE  SlotsComeRoundClean' /\ Behind'
<1>1. /\ \A s \in Slots : s # idx => re_post'[s] = IF old_idx # idx /\ s = idx - 1
                                                   THEN Blank(re_post[s].type) ELSE re_post[s]
      /\ old_idx' = idx /\ idx' = idx /\ bare' = bare \ {idx}
  BY FieldSlots DEF Field
<1>2. /\ \A s \in Slots : re_post[s].type \in Texts
      /\ idx \in Nat /\ idx <= SLOTS /\ SLOTS \in Nat
  BY SlotsNat DEF TypeOK, Slot, Slots
<1>3. \A t \in Texts : Blank(t) = Blank(Blank(t).type)
  BY BlankSlot
<1>4. idx > 0 => re_post'[idx-1] = Blank(re_post'[idx-1].type)
  <2> SUFFICES ASSUME idx > 0 PROVE re_post'[idx-1] = Blank(re_post'[idx-1].type)
    OBVIOUS
  <2>1. idx - 1 \in Slots /\ idx - 1 # idx
    BY <1>2 DEF Slots
  <2> QED
    BY <1>1, <1>2, <1>3, <2>1 DEF Behind
<1>5. Behind'
  BY <1>1, <1>4 DEF Behind
<1>6. ASSUME NEW s \in 0 .. SLOTS-1, s # idx, s + 1 \notin bare'
      PROVE  re_post'[s] = Blank(re_post'[s].type)
  <2>1. CASE s + 1 = idx
    <3>1. s = idx - 1 /\ idx > 0
      BY <2>1, <1>2
    <3> QED
      BY <3>1, <1>4
  <2>2. CASE s + 1 # idx
    <3>1. s # idx - 1 /\ s \in Slots
      BY <2>2, <1>2 DEF Slots
    <3>2. re_post[s] = Blank(re_post[s].type)
      BY <2>2, <1>1, <1>6 DEF SlotsComeRoundClean
    <3> QED
      BY <3>1, <3>2, <1>1, <1>6
  <2> QED
    BY <2>1, <2>2
<1> QED
  BY <1>1, <1>5, <1>6 DEF SlotsComeRoundClean

LEMMA LastClean ==
  ASSUME TypeOK, SlotsComeRoundClean, Behind, NEW c \in Conn, Last(c)
  PROVE  SlotsComeRoundClean' /\ Behind'
<1>1. /\ UNCHANGED <<old_idx, re_post>> /\ idx' = Advance(idx)
      /\ bare' = (IF old_idx = idx THEN bare ELSE bare \cup {idx})
  BY DEF Last
<1>2. idx \in Nat /\ idx <= SLOTS /\ old_idx \in Nat /\ SLOTS \in Nat
  BY SlotsNat DEF TypeOK, Slots
<1>3. Behind'
  BY <1>1 DEF Behind
<1>4. ASSUME NEW s \in 0 .. SLOTS-1, s # idx', s + 1 = idx' => old_idx = idx', s + 1 \notin bare'
      PROVE  re_post[s] = Blank(re_post[s].type)
  <2>1. CASE s = idx
    <3>1. old_idx = s + 1
      BY <2>1, <1>1, <1>2, <1>4 DEF Advance
    <3>2. old_idx > 0 /\ old_idx - 1 = s
      BY <3>1
    <3> QED
      BY <3>2 DEF Behind
  <2>2. CASE s + 1 = idx /\ old_idx # idx
    BY <2>2, <1>1, <1>4
  <2>3. CASE s # idx /\ (s + 1 = idx => old_idx = idx)
    BY <2>3, <1>1, <1>4 DEF SlotsComeRoundClean
  <2> QED
    BY <2>1, <2>2, <2>3
<1> QED
  BY <1>1, <1>3, <1>4 DEF SlotsComeRoundClean

\* Every slot but the last of a round is clean when the ring comes to it again,
\* unless its successor was left bare.
THEOREM SpecSlotsComeRoundClean == Spec => []SlotsComeRoundClean
<1>1. Init => SlotsComeRoundClean /\ Behind
  <2> DEFINE none == Blank("")
  <2>1. none = Blank(none.type)
    BY DEF Blank
  <2> HIDE DEF none
  <2>2. \A s \in 0 .. SLOTS-1 : s \in Slots
    BY ServerAssumption DEF Slots
  <2>3. Init => old_idx = 0 /\ bare = {} /\ re_post = [s \in Slots |-> none]
    BY DEF Init, none
  <2> QED
    BY <2>1, <2>2, <2>3 DEF SlotsComeRoundClean, Behind
<1>2. TypeOK /\ SlotsComeRoundClean /\ Behind /\ [Next]_vars => SlotsComeRoundClean' /\ Behind'
  <2> SUFFICES ASSUME TypeOK, SlotsComeRoundClean, Behind, [Next]_vars
               PROVE  SlotsComeRoundClean' /\ Behind'
    OBVIOUS
  <2>1. CASE UNCHANGED slot
    BY <2>1 DEF slot, SlotsComeRoundClean, Behind
  <2> QED
    BY <2>1, FieldClean, LastClean
    DEF Next, FirstCall, Get, WriteSocket, Completed, Hangup, vars, slot
<1> QED
  BY <1>1, <1>2, SpecTypeOK, PTL DEF Spec

-----------------------------------------------------------------------------
(* The device table.                                                       *)

\* No id has two entries, and a device that was told register_ok has one.
Unique == \A i, j \in 1 .. Len(device) : device[i].id = device[j].id => i = j
Told ==
  stray = 0 =>
    \A c \in Conn :
      answer[c] # << >> /\ answer[c][1] = "register_ok" =>
        \E i \in 1 .. Len(device) : device[i].id = answer[c][2]

\* find_dev() finds an entry when there is one.
LEMMA FindDev ==
  ASSUME TypeOK, Unique, NEW d
  PROVE  find_dev(d) = 0 <=> \A i \in 1 .. Len(device) : device[i].id # d
<1>1. ASSUME NEW i \in 1 .. Len(device), device[i].id = d
      PROVE  \A j \in 1 .. i-1 : device[j].id # d
  <2> SUFFICES ASSUME NEW j \in 1 .. i-1 PROVE device[j].id # d
    OBVIOUS
  <2>1. Len(device) \in Nat
    BY DEF TypeOK
  <2>2. j \in 1 .. Len(device) /\ j # i
    BY <2>1
  <2> QED
    BY <2>2, <1>1 DEF Unique
<1>2. ASSUME NEW i \in 1 .. Len(device), device[i].id = d
      PROVE  find_dev(d) \in 1 .. Len(device)
  BY <1>1, <1>2 DEF find_dev
<1>3. 0 \notin 1 .. Len(device)
  OBVIOUS
<1> QED
  BY <1>2, <1>3 DEF find_dev

\* Only a registration is answered register_ok.
LEMMA ReplyOk ==
  ASSUME NEW s, Reply(s) # << >>, Reply(s)[1] = "register_ok"
  PROVE  Register(s) /\ Reply(s)[2] = s.dev_id
<1>1. CASE Register(s)
  BY <1>1 DEF Reply, Register, ControlUp, Humidity, AskState
<1>2. CASE ~Register(s)
  <2>1. \/ Reply(s) = Scene(s) \/ Reply(s) = << >>
        \/ Reply(s)[1] \in {"control_down", "register_failed"}
    BY <1>2 DEF Reply
  <2>2. Scene(s) = << >> \/ Scene(s)[1] = "control_down"
    BY DEF Scene
  <2> QED
    BY <2>1, <2>2
<1> QED
  BY <1>1, <1>2

LEMMA LastTold ==
  ASSUME TypeOK, Unique, Told, stray = 0, NEW c \in Conn, Last(c)
  PROVE  Unique' /\ Told'
<1> DEFINE s == re_post[idx]
           e == [id |-> s.dev_id, type |-> s.dev_type]
<1>1. Add(s) /\ answer' = [answer EXCEPT ![c] = Reply(s)]
  BY DEF Last
<1>2. Len(device) \in Nat /\ device \in Seq(Entry)
  BY DEF TypeOK
<1>3. CASE UNCHANGED device
  <2>1. Unique'
    BY <1>3 DEF Unique
  <2>2. ASSUME stray' = 0, Register(s)
        PROVE  \E i \in 1 .. Len(device) : device[i].id = s.dev_id
    <3>1. device # Append(device, e)
      <4>1. e \in Entry
        BY DEF TypeOK, Slot, Entry
      <4>2. Len(Append(device, e)) = Len(device) + 1
        BY <1>2, <4>1
      <4> QED
        BY <1>2, <4>2
    <3>2. find_dev(s.dev_id) # 0
      BY <3>1, <2>2, <1>1, <1>3 DEF Add
    <3> QED
      BY <3>2, FindDev
  <2>3. Told'
    BY <1>1, <1>3, <2>2, ReplyOk DEF Told, TypeOK
  <2> QED
    BY <2>1, <2>3
<1>4. CASE /\ find_dev(s.dev_id) = 0 /\ device' = Append(device, e) /\ UNCHANGED stray
  <2>0. e \in Entry
    BY DEF TypeOK, Slot, Entry
  <2>1. /\ Len(device') = Len(device) + 1
        /\ device'[Len(device) + 1] = e
        /\ \A i \in 1 .. Len(device) : device'[i] = device[i]
    BY <1>2, <1>4, <2>0
  <2>2. \A i \in 1 .. Len(device) : device[i].id # s.dev_id
    BY <1>4, FindDev
  <2>3. Unique'
    BY <1>2, <2>1, <2>2 DEF Unique
  <2>4. \E i \in 1 .. Len(device') : device'[i].id = s.dev_id
    <3>1. Len(device) + 1 \in 1 .. Len(device') /\ device'[Len(device) + 1].id = s.dev_id
      BY <1>2, <2>1
    <3> QED
      BY <3>1
  <2>5. \A i \in 1 .. Len(device) : i \in 1 .. Len(device') /\ device'[i].id = device[i].id
    BY <1>2, <2>1
  <2>6. Told'
    <3> SUFFICES ASSUME NEW d \in Conn, answer'[d] # << >>, answer'[d][1] = "register_ok"
                 PROVE  \E i \in 1 .. Len(device') : device'[i].id = answer'[d][2]
      BY <1>4 DEF Told
    <3>1. CASE d = c
      BY <3>1, <1>1, <2>4, ReplyOk DEF TypeOK
    <3>2. CASE d # c
      <4>1. \E i \in 1 .. Len(device) : device[i].id = answer'[d][2]
        BY <3>2, <1>1 DEF Told, TypeOK
      <4> QED
        BY <4>1, <2>5
    <3> QED
      BY <3>1, <3>2
  <2> QED
    BY <2>3, <2>6
<1> QED
  BY <1>1, <1>3, <1>4 DEF Add

\* The entry of a device that was told register_ok is there and is the only one.
THEOREM SpecRegisteredOnce == Spec => []RegisteredOnce
<1>1. Init => Unique /\ Told
  <2>1. Init => device = << >> /\ answer = [c \in Conn |-> << >>]
    BY DEF Init
  <2> QED
    BY <2>1 DEF Unique, Told
<1>2. TypeOK /\ Unique /\ Told /\ [Next]_vars => Unique' /\ Told'
  <2> SUFFICES ASSUME TypeOK, Unique, Told, [Next]_vars PROVE Unique' /\ Told'
    OBVIOUS
  <2>1. CASE UNCHANGED <<device, stray, answer>>
    BY <2>1 DEF Unique, Told
  <2>2. ASSUME NEW c \in Conn, Completed(c) PROVE Unique' /\ Told'
    BY <2>2 DEF Completed, Unique, Told, TypeOK
  <2> QED
    BY <2>1, <2>2, LastTold
    DEF Next, FirstCall, Field, Get, WriteSocket, Hangup, vars
<1>3. Unique /\ Told => RegisteredOnce
  BY DEF Unique, Told, RegisteredOnce
<1> QED
  BY <1>1, <1>2, <1>3, SpecTypeOK, PTL DEF Spec

-----------------------------------------------------------------------------
(* The command a message asks for.                                         *)

\* The slot r holds the first n fields of m, the last one of each kind.
Holds(r, m, n) ==
  /\ \A k \in NumberKeys : (\A j \in 1 .. n : m[j][1] # k) => r[k] = Blank("")[k]
  /\ \A j \in 1 .. n : (\A o \in j+1 .. n : m[o][1] # m[j][1]) => r[m[j][1]] = m[j][2]

\* A non-empty set of positions has a last one.
LEMMA LastPosition ==
  ASSUME NEW n \in Nat, NEW T \in SUBSET (1 .. n), T # {}
  PROVE  \E x \in T : \A y \in T : y <= x
<1> DEFINE R == OpToRel(<, Nat)
           U == {n - x : x \in T}
<1>1. IsWellFoundedOn(R, Nat)
  BY NatLessThanWellFounded
<1>2. \A x, y \in Nat : y < x => <<y, x>> \in R
  BY DEF OpToRel
<1>3. U \in SUBSET Nat /\ U # {}
  <2>1. \A x \in T : n - x \in Nat
    OBVIOUS
  <2> QED
    BY <2>1
<1> HIDE DEF R
<1>4. PICK u \in U : \A v \in U : ~(<<v, u>> \in R)
  <2> HIDE DEF U
  <2> QED BY <1>1, <1>3, WFMin
<1>5. PICK x \in T : u = n - x
  OBVIOUS
<1>6. ASSUME NEW y \in T PROVE y <= x
  <2>1. n - y \in U /\ n - y \in Nat /\ u \in Nat
    OBVIOUS
  <2>2. ~(n - y < u)
    BY <1>2, <1>4, <2>1
  <2> QED
    BY <1>5, <2>2
<1> QED
  BY <1>6

LEMMA AllKeys == DOMAIN Blank("") = NumberKeys \cup {"type"}
BY DEF Blank, NumberKeys

\* A slot that holds a whole message with a type is the message by itself.
LEMMA HoldsAlone ==
  ASSUME NEW m \in Seq(FieldSet), \E n \in 1 .. Len(m) : m[n][1] = "type",
         NEW r \in Slot, Holds(r, m, Len(m))
  PROVE  r = Alone(m)
<1> DEFINE last(k) == {n \in 1 .. Len(m) : m[n][1] = k}
           at(k)   == CHOOSE n \in last(k) : \A o \in last(k) : o <= n
<1>1. Len(m) \in Nat
  OBVIOUS
<1>2. ASSUME NEW k \in NumberKeys \cup {"type"}, last(k) # {} PROVE r[k] = m[at(k)][2]
  <2>1. \E x \in last(k) : \A y \in last(k) : y <= x
    <3>1. last(k) \in SUBSET (1 .. Len(m))
      OBVIOUS
    <3> HIDE DEF last
    <3> QED BY <1>1, <1>2, <3>1, LastPosition
  <2>2. at(k) \in last(k) /\ \A o \in last(k) : o <= at(k)
    BY <2>1
  <2>3. at(k) \in 1 .. Len(m) /\ m[at(k)][1] = k
    BY <2>2
  <2>4. \A o \in at(k)+1 .. Len(m) : o \in 1 .. Len(m) /\ ~(o <= at(k))
    BY <1>1, <2>3
  <2>5. \A o \in at(k)+1 .. Len(m) : m[o][1] # k
    BY <2>2, <2>4
  <2> HIDE DEF at
  <2> QED
    BY <2>3, <2>5 DEF Holds
<1>3. ASSUME NEW k \in NumberKeys \cup {"type"}, last(k) = {} PROVE r[k] = Blank("")[k]
  BY <1>3 DEF Holds
<1>4. Alone(m) = [k \in NumberKeys \cup {"type"} |->
                    IF last(k) = {} THEN Blank("")[k] ELSE m[at(k)][2]]
  BY AllKeys DEF Alone
<1>5. r = [k \in NumberKeys \cup {"type"} |-> r[k]]
  BY DEF Slot, NumberKeys
<1> HIDE DEF last, at
<1> QED
  BY <1>2, <1>3, <1>4, <1>5

\* How many fields of its message a connection has delivered.
Sent(c) == Len(msg[c]) - Len(todo[c])
Reads(c) == pc[c] \in {"body", "last"}

\* What is still to come is the rest of the message.
Rest ==
  \A c \in Conn :
    /\ pc[c] = "idle" => msg[c] = << >> /\ todo[c] = << >>
    /\ pc[c] = "last" => todo[c] = << >>
    /\ Reads(c) => /\ msg[c] \in Messages \/ msg[c] = << >>
                   /\ Len(todo[c]) <= Len(msg[c])
                   /\ \A i \in 1 .. Len(todo[c]) : todo[c][i] = msg[c][i + Sent(c)]

\* A request has a number of its own, and a slot knows it from its first field.
Numbers ==
  /\ \A s \in Slots : \A n \in by[s] : n # 0 /\ n <= reqs
  /\ \A c \in Conn : req[c] <= reqs /\ (pc[c] # "idle" => req[c] # 0)
  /\ \A c, d \in Conn : c # d /\ req[c] = req[d] => req[c] = 0
  /\ \A c \in Conn : Reads(c) /\ Len(todo[c]) = Len(msg[c]) => \A s \in Slots : req[c] \notin by[s]

\* A slot nobody wrote to is clean, and one that only a single request wrote to,
\* while the index stayed, holds what the request has delivered.
Contents ==
  /\ \A s \in Slots : by[s] = {} => re_post[s] = Blank(re_post[s].type)
  /\ \A c \in Conn :
       Reads(c) /\ Len(todo[c]) < Len(msg[c]) /\ moved[c] = 0 /\ by[idx] \subseteq {req[c]}
         => Holds(re_post[idx], msg[c], Sent(c))

CInv == TypeOK /\ Rest /\ Numbers /\ Contents

LEMMA InitCInv == Init => CInv
<1> DEFINE none == Blank("")
<1>1. none = Blank(none.type)
  BY DEF Blank
<1> HIDE DEF none
<1>2. Init => /\ re_post = [s \in Slots |-> none] /\ by = [s \in Slots |-> {}]
              /\ pc = [c \in Conn |-> "idle"] /\ msg = [c \in Conn |-> << >>]
              /\ todo = [c \in Conn |-> << >>] /\ req = [c \in Conn |-> 0] /\ reqs = 0
  BY DEF Init, none
<1> QED
  BY <1>1, <1>2, InitTypeOK DEF CInv, Rest, Numbers, Contents, Reads

LEMMA FirstCallCInv ==
  ASSUME CInv, NEW c \in Conn, FirstCall(c) PROVE CInv'
<1>0. TypeOK' /\ TypeOK
  BY FirstCallTypeOK DEF CInv
<1>1. /\ UNCHANGED <<idx, re_post, by, moved>> /\ reqs' = reqs + 1
      /\ req' = [req EXCEPT ![c] = reqs + 1]
  BY DEF FirstCall, slot
<1>2. \A d \in Conn : d # c => /\ pc'[d] = pc[d] /\ msg'[d] = msg[d] /\ todo'[d] = todo[d]
                               /\ req'[d] = req[d]
  BY <1>0 DEF FirstCall, TypeOK
<1>3. /\ pc'[c] # "idle" /\ todo'[c] = msg'[c] /\ req'[c] = reqs + 1
      /\ msg'[c] \in Messages \/ msg'[c] = << >>
      /\ pc'[c] = "last" => todo'[c] = << >>
  BY <1>0 DEF FirstCall, TypeOK, CInv, Rest
<1>4. Rest'
  <2>1. Reads(c)' => /\ Len(todo'[c]) <= Len(msg'[c])
                     /\ \A i \in 1 .. Len(todo'[c]) : todo'[c][i] = msg'[c][i + Sent(c)']
    BY <1>0, <1>3 DEF Sent, TypeOK
  <2>2. ASSUME NEW d \in Conn, d # c, Reads(d)'
        PROVE  /\ msg'[d] \in Messages \/ msg'[d] = << >>
               /\ Len(todo'[d]) <= Len(msg'[d])
               /\ \A i \in 1 .. Len(todo'[d]) : todo'[d][i] = msg'[d][i + Sent(d)']
    <3>1. Reads(d) /\ Sent(d)' = Sent(d)
      BY <1>2, <2>2 DEF Reads, Sent
    <3> QED
      BY <1>2, <2>2, <3>1 DEF CInv, Rest
  <2>3. ASSUME NEW d \in Conn
        PROVE  /\ pc'[d] = "idle" => msg'[d] = << >> /\ todo'[d] = << >>
               /\ pc'[d] = "last" => todo'[d] = << >>
    BY <1>2, <1>3 DEF CInv, Rest
  <2> QED
    BY <1>3, <2>1, <2>2, <2>3 DEF Rest
<1>5. Numbers'
  <2>1. \A s \in Slots : \A n \in by[s] : n # 0 /\ n <= reqs /\ n \in Nat
    BY <1>0 DEF CInv, Numbers, TypeOK
  <2>2. reqs \in Nat /\ \A d \in Conn : req[d] \in Nat /\ req[d] <= reqs
    BY <1>0 DEF CInv, Numbers, TypeOK
  <2>3. \A s \in Slots : \A n \in by'[s] : n # 0 /\ n <= reqs'
    BY <1>1, <2>1, <2>2
  <2>4. \A d \in Conn : req'[d] <= reqs' /\ (pc'[d] # "idle" => req'[d] # 0)
    BY <1>1, <1>2, <1>3, <2>2 DEF CInv, Numbers
  <2>5. \A d, e \in Conn : d # e /\ req'[d] = req'[e] => req'[d] = 0
    BY <1>2, <1>3, <2>2 DEF CInv, Numbers
  <2>6. \A s \in Slots : req'[c] \notin by'[s]
    BY <1>1, <1>3, <2>1, <2>2
  <2>7. \A d \in Conn : Reads(d)' /\ Len(todo'[d]) = Len(msg'[d]) => \A s \in Slots : req'[d] \notin by'[s]
    BY <1>1, <1>2, <2>6 DEF CInv, Numbers, Reads
  <2> QED
    BY <2>3, <2>4, <2>5, <2>7 DEF Numbers
<1>6. Contents'
  <2>1. ~(Len(todo'[c]) < Len(msg'[c]))
    BY <1>0, <1>3 DEF TypeOK
  <2> QED
    BY <1>1, <1>2, <2>1 DEF CInv, Contents, Reads, Sent
<1> QED
  BY <1>0, <1>4, <1>5, <1>6 DEF CInv

\* One more field in a slot that holds the ones before.
LEMMA HoldsNext ==
  ASSUME NEW r \in Slot, NEW m \in Seq(FieldSet), NEW n \in Nat, n + 1 <= Len(m), Holds(r, m, n)
  PROVE  Holds([r EXCEPT ![m[n+1][1]] = m[n+1][2]], m, n + 1)
<1> DEFINE f == m[n+1]
           q == [r EXCEPT ![f[1]] = f[2]]
<1>1. f \in FieldSet
  OBVIOUS
<1>2. DOMAIN r = NumberKeys \cup {"type"} /\ f[1] \in DOMAIN r
  BY <1>1 DEF Slot, NumberKeys, FieldSet
<1>3. q[f[1]] = f[2] /\ \A k \in DOMAIN r : k # f[1] => q[k] = r[k]
  BY <1>2
<1>4. \A j \in 1 .. n+1 : j = n + 1 \/ j \in 1 .. n
  OBVIOUS
<1>5. n + 1 \in 1 .. n+1 /\ \A j \in 1 .. n : j \in 1 .. n+1 /\ n + 1 \in j+1 .. n+1
                                              /\ \A o \in j+1 .. n : o \in j+1 .. n+1
  OBVIOUS
<1>6. ASSUME NEW k \in NumberKeys, \A j \in 1 .. n+1 : m[j][1] # k PROVE q[k] = Blank("")[k]
  BY <1>2, <1>3, <1>5, <1>6 DEF Holds
<1>7. ASSUME NEW j \in 1 .. n+1, \A o \in j+1 .. n+1 : m[o][1] # m[j][1] PROVE q[m[j][1]] = m[j][2]
  <2>1. CASE j = n + 1
    BY <2>1, <1>3
  <2>2. CASE j \in 1 .. n
    <3>1. r[m[j][1]] = m[j][2] /\ m[j][1] # f[1]
      BY <2>2, <1>5, <1>7 DEF Holds
    <3>2. m[j] \in FieldSet
      BY <2>2
    <3>3. m[j][1] \in DOMAIN r
      BY <3>2, <1>2 DEF FieldSet
    <3> QED
      BY <3>1, <3>3, <1>3
  <2> QED
    BY <2>1, <2>2, <1>4
<1> QED
  BY <1>6, <1>7 DEF Holds

LEMMA HoldsNothing ==
  ASSUME NEW t \in Texts, NEW m PROVE Holds(Blank(t), m, 0)
BY DEF Holds, Blank, NumberKeys

LEMMA FieldCInv == ASSUME CInv, NEW c \in Conn, Field(c) PROVE CInv'
<1>0. TypeOK' /\ TypeOK
  BY FieldTypeOK DEF CInv
<1> DEFINE f == Head(todo[c])
<1>1. /\ idx \in Slots /\ idx - 1 # idx
      /\ f \in FieldSet
      /\ re_post'[idx] = [re_post[idx] EXCEPT ![f[1]] = f[2]]
      /\ \A s \in Slots : s # idx => re_post'[s] = IF old_idx # idx /\ s = idx - 1
                                                   THEN Blank(re_post[s].type) ELSE re_post[s]
  <2>1. idx \in Slots /\ idx - 1 # idx
    <3>1. idx \in Slots
      BY <1>0 DEF TypeOK
    <3> QED
      BY <3>1, SlotsNat
  <2> QED
    BY <1>0, <2>1, FieldSlots
<1>2. /\ UNCHANGED <<idx, msg, req, moved, reqs>>
      /\ by'[idx] = by[idx] \cup {req[c]}
      /\ \A s \in Slots : s # idx => by'[s] = IF old_idx # idx /\ s = idx - 1 THEN {} ELSE by[s]
  BY <1>1 DEF Field
<1>3. pc[c] = "body" /\ Len(todo[c]) \in Nat /\ Len(msg[c]) \in Nat /\ Len(todo[c]) > 0
      /\ Len(todo[c]) <= Len(msg[c]) /\ Reads(c) /\ req[c] # 0 /\ req[c] <= reqs
  BY <1>0 DEF Field, TypeOK, CInv, Rest, Reads, Numbers
<1>4. /\ todo'[c] = Tail(todo[c]) /\ Len(todo'[c]) = Len(todo[c]) - 1
      /\ \A i \in 1 .. Len(todo'[c]) : todo'[c][i] = todo[c][i + 1]
      /\ pc'[c] = (IF Len(todo[c]) = 1 THEN "last" ELSE "body")
  BY <1>0, <1>3 DEF Field, TypeOK
<1>5. \A d \in Conn : d # c => pc'[d] = pc[d] /\ todo'[d] = todo[d]
  BY <1>0 DEF Field, TypeOK
<1>6. Sent(c) \in Nat /\ Sent(c)' = Sent(c) + 1 /\ f = msg[c][Sent(c) + 1] /\ Sent(c) + 1 <= Len(msg[c])
  <2>1. Sent(c) \in Nat /\ Sent(c)' = Sent(c) + 1 /\ Sent(c) + 1 <= Len(msg[c])
    <3>1. Sent(c)' = Len(msg[c]) - Len(todo'[c]) /\ Sent(c) = Len(msg[c]) - Len(todo[c])
      BY <1>2 DEF Sent
    <3>2. \A l, t \in Nat : 0 < t /\ t <= l =>
            l - t \in Nat /\ l - (t - 1) = (l - t) + 1 /\ (l - t) + 1 <= l
      OBVIOUS
    <3>3. Sent(c)' = Len(msg[c]) - (Len(todo[c]) - 1)
      BY <3>1, <1>4
    <3> QED
      BY <3>1, <3>2, <3>3, <1>3
  <2>2. f = todo[c][1]
    BY <1>0, <1>3 DEF TypeOK
  <2>3. todo[c][1] = msg[c][1 + Sent(c)]
    BY <1>3 DEF CInv, Rest
  <2>4. 1 + Sent(c) = Sent(c) + 1
    BY <2>1
  <2> QED
    BY <2>1, <2>2, <2>3, <2>4
<1>7. Rest'
  <2>1. \A i \in 1 .. Len(todo'[c]) : todo'[c][i] = msg'[c][i + Sent(c)']
    <3> SUFFICES ASSUME NEW i \in 1 .. Len(todo'[c]) PROVE todo'[c][i] = msg[c][i + Sent(c)']
      BY <1>2
    <3>1. i + 1 \in 1 .. Len(todo[c]) /\ (i + 1) + Sent(c) = i + Sent(c)'
      <4>1. \A l, s, j \in Nat : j \in 1 .. l - 1 =>
              j + 1 \in 1 .. l /\ (j + 1) + s = j + (s + 1)
        OBVIOUS
      <4>2. i \in Nat /\ i \in 1 .. Len(todo[c]) - 1
        BY <1>4
      <4> QED
        BY <1>3, <1>6, <4>1, <4>2
    <3>2. todo[c][i + 1] = msg[c][(i + 1) + Sent(c)]
      BY <3>1, <1>3 DEF CInv, Rest
    <3> QED
      BY <3>1, <3>2, <1>4
  <2>2. Len(todo'[c]) <= Len(msg'[c]) /\ (msg'[c] \in Messages \/ msg'[c] = << >>)
    BY <1>2, <1>3, <1>4 DEF CInv, Rest
  <2>3. pc'[c] # "idle" /\ (pc'[c] = "last" => todo'[c] = << >>)
    <3>1. pc'[c] = "last" => Len(todo'[c]) = 0
      BY <1>3, <1>4
    <3>2. todo'[c] \in Seq(FieldSet)
      BY <1>0 DEF TypeOK
    <3>3. Len(todo'[c]) = 0 => todo'[c] = << >>
      BY <3>2
    <3> QED
      BY <1>4, <3>1, <3>3
  <2>4. ASSUME NEW d \in Conn, d # c, Reads(d)'
        PROVE  /\ msg'[d] \in Messages \/ msg'[d] = << >>
               /\ Len(todo'[d]) <= Len(msg'[d])
               /\ \A i \in 1 .. Len(todo'[d]) : todo'[d][i] = msg'[d][i + Sent(d)']
    <3>1. Reads(d) /\ Sent(d)' = Sent(d)
      BY <1>2, <1>5, <2>4 DEF Reads, Sent
    <3> QED
      BY <1>2, <1>5, <2>4, <3>1 DEF CInv, Rest
  <2>5. ASSUME NEW d \in Conn
        PROVE  /\ pc'[d] = "idle" => msg'[d] = << >> /\ todo'[d] = << >>
               /\ pc'[d] = "last" => todo'[d] = << >>
    BY <1>2, <1>5, <2>3 DEF CInv, Rest
  <2> QED
    BY <2>1, <2>2, <2>4, <2>5 DEF Rest
<1>8. Numbers'
  <2>1. \A s \in Slots : by'[s] \subseteq by[s] \cup {req[c]}
    BY <1>1, <1>2
  <2>2. \A s \in Slots : \A n \in by'[s] : n # 0 /\ n <= reqs'
    BY <1>2, <1>3, <2>1 DEF CInv, Numbers
  <2>3. \A d \in Conn : req'[d] <= reqs' /\ (pc'[d] # "idle" => req'[d] # 0)
    BY <1>2, <1>3, <1>5 DEF CInv, Numbers
  <2>4. \A d, e \in Conn : d # e /\ req'[d] = req'[e] => req'[d] = 0
    BY <1>2 DEF CInv, Numbers
  <2>5. Len(todo'[c]) # Len(msg'[c])
    BY <1>2, <1>3, <1>4
  <2>6. ASSUME NEW d \in Conn, d # c, Reads(d)', Len(todo'[d]) = Len(msg'[d]), NEW s \in Slots
        PROVE  req'[d] \notin by'[s]
    <3>1. Reads(d) /\ Len(todo[d]) = Len(msg[d])
      BY <1>2, <1>5, <2>6 DEF Reads
    <3>2. req[d] \notin by[s] /\ req[d] # req[c]
      BY <1>3, <2>6, <3>1 DEF CInv, Numbers
    <3> QED
      BY <1>2, <2>1, <3>2
  <2> QED
    BY <2>2, <2>3, <2>4, <2>5, <2>6 DEF Numbers
<1>9. Contents'
  <2>1. ASSUME NEW s \in Slots, by'[s] = {} PROVE re_post'[s] = Blank(re_post'[s].type)
    <3>1. s # idx
      BY <1>2, <2>1
    <3>2. re_post[s].type \in Texts
      BY <1>0 DEF TypeOK, Slot
    <3>3. Blank(re_post[s].type) = Blank(Blank(re_post[s].type).type)
      BY <3>2, BlankSlot
    <3>4. CASE old_idx # idx /\ s = idx - 1
      BY <3>1, <3>3, <3>4, <1>1
    <3>5. CASE ~(old_idx # idx /\ s = idx - 1)
      <4>1. re_post'[s] = re_post[s] /\ by'[s] = by[s]
        BY <3>1, <3>5, <1>1, <1>2
      <4> QED
        BY <4>1, <2>1 DEF CInv, Contents
    <3> QED
      BY <3>4, <3>5
  <2>2. ASSUME moved[c] = 0, by'[idx] \subseteq {req[c]}
        PROVE  Holds(re_post'[idx], msg[c], Sent(c) + 1)
    <3>1. by[idx] \subseteq {req[c]}
      BY <1>2, <2>2
    <3>2. Holds(re_post[idx], msg[c], Sent(c))
      <4>1. CASE Len(todo[c]) < Len(msg[c])
        BY <1>3, <2>2, <3>1, <4>1 DEF CInv, Contents
      <4>2. CASE Len(todo[c]) = Len(msg[c])
        <5>1. by[idx] = {} /\ Sent(c) = 0
          BY <1>1, <1>3, <3>1, <4>2 DEF CInv, Numbers, Sent
        <5>2. re_post[idx] = Blank(re_post[idx].type) /\ re_post[idx].type \in Texts
          BY <1>0, <1>1, <5>1 DEF CInv, Contents, TypeOK, Slot
        <5> QED
          BY <5>1, <5>2, HoldsNothing
      <4> QED
        BY <1>3, <4>1, <4>2
    <3>3. re_post[idx] \in Slot /\ msg[c] \in Seq(FieldSet)
      BY <1>0, <1>1 DEF TypeOK
    <3> QED
      BY <1>1, <1>6, <3>2, <3>3, HoldsNext
  <2>3. ASSUME NEW d \in Conn, d # c, Reads(d)' PROVE ~(by'[idx] \subseteq {req[d]})
    <3>1. req[d] # req[c]
      BY <1>3, <2>3 DEF CInv, Numbers
    <3> QED
      BY <1>2, <3>1
  <2>4. ASSUME NEW d \in Conn, Reads(d)', moved'[d] = 0, by'[idx'] \subseteq {req'[d]}
        PROVE  Holds(re_post'[idx'], msg'[d], Sent(d)')
    <3>1. d = c
      BY <1>2, <2>3, <2>4
    <3> QED
      BY <1>2, <1>6, <2>2, <2>4, <3>1
  <2> QED
    BY <2>1, <2>4 DEF Contents
<1> QED
  BY <1>0, <1>7, <1>8, <1>9 DEF CInv

LEMMA LastCInv == ASSUME CInv, NEW c \in Conn, Last(c) PROVE CInv'
<1>0. TypeOK' /\ TypeOK
  BY LastTypeOK DEF CInv
<1>1. /\ UNCHANGED <<re_post, by, msg, todo, req, reqs>>
      /\ pc'[c] = "send" /\ \A d \in Conn : d # c => pc'[d] = pc[d]
  BY <1>0 DEF Last, TypeOK
<1>2. \A d \in Conn : d # c /\ pc[d] \in {"body", "last"} /\ todo[d] # msg[d] => moved'[d] = 1
  BY DEF Last, Move
<1>a. \A d \in Conn : Reads(d)' => Reads(d) /\ Sent(d)' = Sent(d)
  BY <1>1 DEF Reads, Sent
<1>3. Rest'
  <2>1. ASSUME NEW d \in Conn, Reads(d)'
        PROVE  /\ msg'[d] \in Messages \/ msg'[d] = << >>
               /\ Len(todo'[d]) <= Len(msg'[d])
               /\ \A i \in 1 .. Len(todo'[d]) : todo'[d][i] = msg'[d][i + Sent(d)']
    BY <1>1, <1>a, <2>1 DEF CInv, Rest
  <2>2. ASSUME NEW d \in Conn
        PROVE  /\ pc'[d] = "idle" => msg'[d] = << >> /\ todo'[d] = << >>
               /\ pc'[d] = "last" => todo'[d] = << >>
    BY <1>1 DEF CInv, Rest
  <2> QED
    BY <2>1, <2>2 DEF Rest
<1>4. Numbers'
  <2>1. pc[c] = "last"
    BY DEF Last
  <2>2. \A d \in Conn : req'[d] <= reqs' /\ (pc'[d] # "idle" => req'[d] # 0)
    BY <1>1, <2>1 DEF CInv, Numbers
  <2>3. \A d \in Conn : Reads(d)' /\ Len(todo'[d]) = Len(msg'[d]) => \A s \in Slots : req'[d] \notin by'[s]
    BY <1>1, <1>a DEF CInv, Numbers
  <2> QED
    BY <1>1, <2>2, <2>3 DEF CInv, Numbers
<1>5. \A d \in Conn : Reads(d)' /\ Len(todo'[d]) < Len(msg'[d]) => moved'[d] = 1
  <2> SUFFICES ASSUME NEW d \in Conn, Reads(d)', Len(todo'[d]) < Len(msg'[d]) PROVE moved'[d] = 1
    OBVIOUS
  <2>1. todo[d] # msg[d]
    BY <1>0, <1>1 DEF TypeOK
  <2>2. d # c /\ pc[d] \in {"body", "last"}
    BY <1>1 DEF Reads
  <2> QED
    BY <1>2, <2>1, <2>2
<1>6. Contents'
  BY <1>1, <1>5 DEF CInv, Contents
<1> QED
  BY <1>0, <1>3, <1>4, <1>6 DEF CInv

\* The steps that leave the slots alone and end a reading.
LEMMA OtherCInv ==
  ASSUME CInv, NEW c \in Conn, Get(c) \/ WriteSocket(c) \/ Completed(c) \/ Hangup(c)
  PROVE  CInv'
<1>0. TypeOK' /\ TypeOK
  BY OtherTypeOK DEF CInv
<1>1. UNCHANGED <<idx, re_post, by, reqs>>
  BY DEF Get, WriteSocket, Completed, Hangup, slot
<1>2. \A d \in Conn : d # c => /\ pc'[d] = pc[d] /\ msg'[d] = msg[d] /\ todo'[d] = todo[d]
                               /\ req'[d] = req[d] /\ moved'[d] = moved[d]
  BY <1>0 DEF Get, WriteSocket, Completed, Hangup, TypeOK
<1>3. /\ pc'[c] \in {"idle", "sent", "gone"}
      /\ pc'[c] = "idle" => msg'[c] = << >> /\ todo'[c] = << >> /\ req'[c] = 0
      /\ pc'[c] # "idle" => pc[c] # "idle" /\ req'[c] = req[c]
  BY <1>0 DEF Get, WriteSocket, Completed, Hangup, TypeOK
<1>4. \A d \in Conn : Reads(d)' => d # c /\ Reads(d) /\ Sent(d)' = Sent(d)
  BY <1>2, <1>3 DEF Reads, Sent
<1>5. Rest'
  <2>1. ASSUME NEW d \in Conn, Reads(d)'
        PROVE  /\ msg'[d] \in Messages \/ msg'[d] = << >>
               /\ Len(todo'[d]) <= Len(msg'[d])
               /\ \A i \in 1 .. Len(todo'[d]) : todo'[d][i] = msg'[d][i + Sent(d)']
    BY <1>2, <1>4, <2>1 DEF CInv, Rest
  <2>2. ASSUME NEW d \in Conn
        PROVE  /\ pc'[d] = "idle" => msg'[d] = << >> /\ todo'[d] = << >>
               /\ pc'[d] = "last" => todo'[d] = << >>
    BY <1>2, <1>3 DEF CInv, Rest
  <2> QED
    BY <2>1, <2>2 DEF Rest
<1>6. Numbers'
  <2>0. \A d \in Conn : req'[d] = req[d] \/ (d = c /\ pc'[c] = "idle" /\ req'[c] = 0)
    BY <1>2, <1>3
  <2>1. \A s \in Slots : \A n \in by'[s] : n # 0 /\ n <= reqs'
    BY <1>1 DEF CInv, Numbers
  <2>2. \A d \in Conn : req'[d] <= reqs' /\ (pc'[d] # "idle" => req'[d] # 0)
    BY <1>0, <1>1, <1>2, <1>3, <2>0 DEF CInv, Numbers, TypeOK
  <2>3. \A d, e \in Conn : d # e /\ req'[d] = req'[e] => req'[d] = 0
    BY <2>0 DEF CInv, Numbers
  <2>4. \A d \in Conn : Reads(d)' /\ Len(todo'[d]) = Len(msg'[d]) => \A s \in Slots : req'[d] \notin by'[s]
    BY <1>1, <1>2, <1>4 DEF CInv, Numbers
  <2> QED
    BY <2>1, <2>2, <2>3, <2>4 DEF Numbers
<1>7. Contents'
  BY <1>1, <1>2, <1>4 DEF CInv, Contents
<1> QED
  BY <1>0, <1>5, <1>6, <1>7 DEF CInv

\* What the slots hold of the requests.
THEOREM SpecCInv == Spec => []CInv
<1>1. CInv /\ [Next]_vars => CInv'
  <2> SUFFICES ASSUME CInv, [Next]_vars PROVE CInv'
    OBVIOUS
  <2>1. CASE Next
    BY <2>1, FirstCallCInv, FieldCInv, LastCInv, OtherCInv DEF Next
  <2>2. CASE UNCHANGED vars
    BY <2>2 DEF vars, CInv, TypeOK, Rest, Numbers, Contents, Reads, Sent
  <2> QED
    BY <2>1, <2>2
<1> QED
  BY <1>1, InitCInv, PTL DEF Spec

\* A slot without a field asks for nothing.
LEMMA ReplyNothing == ASSUME NEW t PROVE Reply(Blank(t)) = << >>
BY DEF Reply, Blank, Register, ControlUp, Humidity, AskState

LEMMA AloneNothing == Alone(<< >>) = Blank("")
<1>1. \A k \in DOMAIN Blank("") : {n \in 1 .. Len(<< >>) : << >>[n][1] = k} = {}
  <2>1. 1 .. Len(<< >>) = {}
    OBVIOUS
  <2> QED
    BY <2>1
<1>2. Alone(<< >>) = [k \in DOMAIN Blank("") |-> Blank("")[k]]
  BY <1>1 DEF Alone
<1> QED
  BY <1>2 DEF Blank

\* A message alone in its slot is answered by its own fields.
THEOREM SpecOwnCommand == Spec => OwnCommand
<1>1. ASSUME CInv, [Next]_vars, NEW c \in Conn,
             pc[c] = "last", pc'[c] = "send", by[idx] \subseteq {req[c]}, moved[c] = 0
      PROVE  str22' = Reply(Alone(msg[c]))
  <2>1. pc[c] # pc'[c] /\ pc'[c] # "gone"
    BY <1>1
  <2>2. Last(c)
    BY <1>1, <2>1 DEF Next, FirstCall, Field, Get, Last, WriteSocket, Completed, Hangup, vars, CInv, TypeOK
  <2>3. str22' = Reply(re_post[idx])
    BY <2>2 DEF Last
  <2>4. /\ idx \in Slots /\ re_post[idx] \in Slot /\ todo[c] = << >> /\ Reads(c)
        /\ msg[c] \in Seq(FieldSet) /\ Len(todo[c]) = 0
    BY <1>1 DEF CInv, TypeOK, Rest, Reads
  <2>5. CASE msg[c] = << >>
    <3>1. by[idx] = {}
      BY <1>1, <2>4, <2>5 DEF CInv, Numbers
    <3>2. re_post[idx] = Blank(re_post[idx].type)
      BY <2>4, <3>1, <1>1 DEF CInv, Contents
    <3>3. Reply(re_post[idx]) = << >>
      BY <3>2, ReplyNothing
    <3> QED
      BY <2>3, <2>5, <3>3, AloneNothing, ReplyNothing
  <2>6. CASE msg[c] # << >>
    <3>1. msg[c] \in Messages
      BY <1>1, <2>4, <2>6 DEF CInv, Rest
    <3>2. \E n \in 1 .. Len(msg[c]) : msg[c][n][1] = "type"
      BY <3>1, MessageAssumption
    <3>3. Len(todo[c]) < Len(msg[c]) /\ Sent(c) = Len(msg[c])
      BY <2>4, <3>2 DEF Sent
    <3>4. Holds(re_post[idx], msg[c], Len(msg[c]))
      BY <1>1, <2>4, <3>3 DEF CInv, Contents
    <3>5. re_post[idx] = Alone(msg[c])
      BY <2>4, <3>2, <3>4, HoldsAlone
    <3> QED
      BY <2>3, <3>5
  <2> QED
    BY <2>5, <2>6
<1>2. CInv /\ [Next]_vars
      => [\A c \in Conn :
            pc[c] = "last" /\ pc'[c] = "send" /\ by[idx] \subseteq {req[c]} /\ moved[c] = 0
              => str22' = Reply(Alone(msg[c]))]_vars
  BY <1>1
<1> QED
  BY <1>2, SpecCInv, PTL DEF Spec, OwnCommand
=============================================================================
