------------------------ MODULE BrowserGatewayProofs ------------------------
(***************************************************************************)
(* The gateway that a browser configures, for every set of lights and      *)
(* remotes, number of channels, size of the table and number of frames,    *)
(* posts and lost commands, however its three threads interleave.          *)
(***************************************************************************)
EXTENDS BrowserGateway, TLAPS

-----------------------------------------------------------------------------
(* Types.                                                                  *)

Bits    == {0, 1}
Vector  == [Channel -> Bits]
Orders  == [Channel -> 0 .. 2]
Types   == {3, 5, 7}
Targets == Lights \cup {0}

Entries == [id : Devices, type : Types, devid : Targets, light : SUBSET Channel, state : Vector]

Texts  == [list : Seq(Entries), ok : Bits, late : Bits]
Builds == [pc : {"none"}]
            \cup [pc : {"loop"}, k : Nat \ {0}, list : Seq(Entries), shut : Bits, bad : Bits, late : Bits]
            \cup [pc : {"copy", "half"}, text : Texts]

Ups == [kind : {"register"}, id : Devices, type : Types, value : Bits]
         \cup [kind : {"ctrl_up"}, id : Switches \cup {SHORTCUT}, value : Bits]
         \cup [kind : {"state"}, id : Lights, state : Vector]

Downs == [id : Lights, ctrl : Orders]

SPlaces == [pc : {"idle", "build"}]
             \cup [pc : {"read"}, i : Nat, j : Nat, value : Bits, calm : Bits]
             \cup [pc : {"send"}, i : Nat, j : Nat, calm : Bits, ctrl : Orders]

HPlaces == [pc : {"idle", "answer", "build"}]
             \cup [pc : {"entry"}, msg : Seq(Entries)]
             \cup [pc : {"clear"}, msg : Seq(Entries), i : Nat]
             \cup [pc : {"lights"}, msg : Seq(Entries), i : Nat, todo : SUBSET Channel]
             \cup [pc : {"compare", "store", "command"}, msg : Seq(Entries), i : Nat, c : Channel]

\* Where the HTTP thread holds the index of an entry, and the serial thread.
HasEntry == {"clear", "lights", "compare", "store", "command"}
Pressed  == {"read", "send"}

\* Of a table D: no device is in it twice.
Unique(D) == \A m, n \in 1 .. Len(D) : D[m].id = D[n].id => m = n

TypeInv ==
  /\ device \in Seq(Entries) /\ Unique(device)
  /\ json_str[1] \in Texts /\ json_str[2] \in Texts
  /\ page \in Seq(Entries) /\ build \in [Threads -> Builds]
  /\ s \in SPlaces /\ h \in HPlaces
  /\ up \in Seq(Ups) /\ down \in Seq(Downs) /\ light \in [Lights -> Vector]
  /\ bound \in [Devices -> Targets \X SUBSET Channel]
  /\ spoken \subseteq Lights /\ lost \in Nat /\ torn \in Bits

\* The entry a thread works on is in the table, and is the one of the list that
\* was posted; the serial thread does not build while it waits or is in a press.
Places ==
  /\ h.pc \in HasEntry => /\ h.i \in 1 .. Len(device) /\ h.msg # << >>
                          /\ Head(h.msg).id = device[h.i].id
  /\ s.pc \in Pressed => s.i \in 1 .. Len(device) /\ s.j \in 0 .. Len(device)
  /\ s.pc # "build" => build["serial"].pc = "none"

-----------------------------------------------------------------------------
(* The table.                                                              *)

LEMMA Numbers ==
  /\ CHANNELS \in Nat /\ 1 \in Channel /\ Channel \subseteq Nat
  /\ CHANNELS \in Channel /\ Values \subseteq Bits /\ Lights \subseteq Devices
BY GatewayAssumption DEF Channel, Bits, Devices

\* find_dev() on a table.
Find(D, d) ==
  IF \E i \in 1 .. Len(D) : D[i].id = d
  THEN CHOOSE i \in 1 .. Len(D) : D[i].id = d /\ \A j \in 1 .. i-1 : D[j].id # d
  ELSE 0

LEMMA FindFacts ==
  ASSUME NEW D \in Seq(Entries), Unique(D), NEW d
  PROVE  \/ Find(D, d) = 0 /\ \A n \in 1 .. Len(D) : D[n].id # d
         \/ Find(D, d) \in 1 .. Len(D) /\ D[Find(D, d)].id = d
<1>1. CASE \E n \in 1 .. Len(D) : D[n].id = d
  <2>1. PICK n \in 1 .. Len(D) : D[n].id = d
    BY <1>1
  <2>2. Len(D) \in Nat
    OBVIOUS
  <2>3. ASSUME NEW m \in 1 .. n-1 PROVE D[m].id # d
    <3>1. m \in 1 .. Len(D) /\ m # n
      BY <2>1, <2>2
    <3> QED
      BY <2>1, <3>1 DEF Unique
  <2>4. \E k \in 1 .. Len(D) : D[k].id = d /\ \A j \in 1 .. k-1 : D[j].id # d
    BY <2>1, <2>3
  <2> DEFINE P(k) == k \in 1 .. Len(D) /\ D[k].id = d /\ \A j \in 1 .. k-1 : D[j].id # d
  <2>5. \E k : P(k)
    BY <2>4
  <2>6. Find(D, d) = CHOOSE k \in 1 .. Len(D) : D[k].id = d /\ \A j \in 1 .. k-1 : D[j].id # d
    BY <1>1 DEF Find
  <2>7. Find(D, d) \in 1 .. Len(D) /\ D[Find(D, d)].id = d
    BY <2>4, <2>6
  <2> QED
    BY <2>7
<1>2. CASE ~ \E n \in 1 .. Len(D) : D[n].id = d
  BY <1>2 DEF Find
<1> QED
  BY <1>1, <1>2

LEMMA FindDev == \A d : find_dev(d) = Find(device, d) /\ find_dev(d)' = Find(device', d)
BY DEF find_dev, Find

\* A store to one entry of a table that keeps its id.
LEMMA TableStore ==
  ASSUME NEW D \in Seq(Entries), NEW i \in 1 .. Len(D), NEW e \in Entries, e.id = D[i].id,
         Unique(D), NEW T, T = [D EXCEPT ![i] = e]
  PROVE  /\ T \in Seq(Entries) /\ Len(T) = Len(D) /\ Unique(T) /\ T[i] = e
         /\ \A n \in 1 .. Len(D) : n # i => T[n] = D[n]
         /\ \A n \in 1 .. Len(D) : T[n].id = D[n].id
<1>1. T \in Seq(Entries) /\ Len(T) = Len(D) /\ T[i] = e
      /\ \A n \in 1 .. Len(D) : n # i => T[n] = D[n]
  OBVIOUS
<1>2. \A n \in 1 .. Len(D) : T[n].id = D[n].id
  BY <1>1
<1>3. Unique(T)
  BY <1>1, <1>2 DEF Unique
<1> QED
  BY <1>1, <1>2, <1>3

\* The stores the threads make: the binding's device, its channels, the states.
LEMMA EntryStore ==
  ASSUME NEW e \in Entries
  PROVE  /\ \A x \in Targets :
              LET g == [e EXCEPT !.devid = x]
              IN  /\ g \in Entries /\ g.id = e.id /\ g.type = e.type /\ g.devid = x
                  /\ g.light = e.light /\ g.state = e.state
         /\ \A x \in SUBSET Channel :
              LET g == [e EXCEPT !.light = x]
              IN  /\ g \in Entries /\ g.id = e.id /\ g.type = e.type /\ g.devid = e.devid
                  /\ g.light = x /\ g.state = e.state
         /\ \A x \in Vector :
              LET g == [e EXCEPT !.state = x]
              IN  /\ g \in Entries /\ g.id = e.id /\ g.type = e.type /\ g.devid = e.devid
                  /\ g.light = e.light /\ g.state = x
BY DEF Entries

-----------------------------------------------------------------------------
(* What the threads' stores do.                                            *)

\* The step stores e to entry i of the table.
Stores(i, e) ==
  /\ i \in 1 .. Len(device) /\ e \in Entries /\ e.id = device[i].id /\ e.type = device[i].type
  /\ device' \in Seq(Entries) /\ Len(device') = Len(device) /\ Unique(device')
  /\ device'[i] = e
  /\ \A n \in 1 .. Len(device) : n # i => device'[n] = device[n]
  /\ \A n \in 1 .. Len(device) : device'[n].id = device[n].id

LEMMA StoreFacts ==
  ASSUME TypeInv, NEW i \in 1 .. Len(device), NEW e \in Entries, e.id = device[i].id,
         e.type = device[i].type, device' = [device EXCEPT ![i] = e]
  PROVE  Stores(i, e)
<1>1. device \in Seq(Entries) /\ Unique(device)
  BY DEF TypeInv
<1>2. \A T : T = [device EXCEPT ![i] = e] =>
         /\ T \in Seq(Entries) /\ Len(T) = Len(device) /\ Unique(T) /\ T[i] = e
         /\ \A n \in 1 .. Len(device) : n # i => T[n] = device[n]
         /\ \A n \in 1 .. Len(device) : T[n].id = device[n].id
  BY <1>1, TableStore, Zenon
<1> QED
  BY <1>1, <1>2, Zenon DEF Stores

LEMMA EntryType ==
  ASSUME TypeInv, NEW n \in 1 .. Len(device)
  PROVE  /\ device[n] \in Entries /\ device[n].id \in Devices /\ device[n].type \in Types
         /\ device[n].devid \in Targets /\ device[n].light \in SUBSET Channel
         /\ device[n].state \in Vector
<1>1. device[n] \in Entries
  BY DEF TypeInv
<1> QED
  BY <1>1 DEF Entries

\* A store by the HTTP thread and the press the serial thread is in.
LEMMA DisturbFacts ==
  ASSUME TypeInv, NEW i, Disturb(i)
  PROVE  /\ s' \in SPlaces /\ s'.pc = s.pc
         /\ s.pc \in Pressed => s'.i = s.i /\ s'.j = s.j
         /\ s.pc \in Pressed /\ s'.calm = 1 => s' = s /\ i # s.i /\ i # s.j
         /\ s.pc \notin Pressed => s' = s
<1>1. s \in SPlaces
  BY DEF TypeInv
<1>2. CASE s.pc \in Pressed
  <2>1. /\ [s EXCEPT !.calm = 0] \in SPlaces /\ [s EXCEPT !.calm = 0].pc = s.pc
        /\ [s EXCEPT !.calm = 0].i = s.i /\ [s EXCEPT !.calm = 0].j = s.j
        /\ [s EXCEPT !.calm = 0].calm = 0
    BY <1>1, <1>2 DEF SPlaces, Pressed, Bits
  <2> QED
    BY <1>1, <1>2, <2>1 DEF Disturb, Pressed
<1>3. CASE s.pc \notin Pressed
  BY <1>1, <1>3 DEF Disturb, Pressed
<1> QED
  BY <1>2, <1>3

\* The HTTP thread at each of its places.
LEMMA HttpPlace ==
  ASSUME TypeInv, Places
  PROVE  /\ h.pc = "entry" => h = [pc |-> "entry", msg |-> h.msg] /\ h.msg \in Seq(Entries)
         /\ h.pc = "clear" => h = [pc |-> "clear", msg |-> h.msg, i |-> h.i]
         /\ h.pc = "lights" =>
              /\ h = [pc |-> "lights", msg |-> h.msg, i |-> h.i, todo |-> h.todo]
              /\ h.todo \in SUBSET Channel
         /\ h.pc \in {"compare", "store", "command"} =>
              h = [pc |-> h.pc, msg |-> h.msg, i |-> h.i, c |-> h.c] /\ h.c \in Channel
         /\ h.pc \in HasEntry =>
              /\ h.msg \in Seq(Entries) /\ h.msg # << >> /\ h.i \in 1 .. Len(device) /\ h.i \in Nat
              /\ Head(h.msg) \in Entries /\ Tail(h.msg) \in Seq(Entries)
              /\ Head(h.msg).id = device[h.i].id
<1>1. h \in HPlaces /\ Len(device) \in Nat
  BY DEF TypeInv
<1>2. h.pc = "entry" => h = [pc |-> "entry", msg |-> h.msg] /\ h.msg \in Seq(Entries)
  BY <1>1 DEF HPlaces
<1>3. h.pc = "clear" => h = [pc |-> "clear", msg |-> h.msg, i |-> h.i]
  BY <1>1 DEF HPlaces
<1>4. h.pc = "lights" => /\ h = [pc |-> "lights", msg |-> h.msg, i |-> h.i, todo |-> h.todo]
                         /\ h.todo \in SUBSET Channel
  BY <1>1 DEF HPlaces
<1>5. h.pc \in {"compare", "store", "command"} =>
              h = [pc |-> h.pc, msg |-> h.msg, i |-> h.i, c |-> h.c] /\ h.c \in Channel
  BY <1>1 DEF HPlaces
<1>6. ASSUME h.pc \in HasEntry
      PROVE  /\ h.msg \in Seq(Entries) /\ h.msg # << >> /\ h.i \in 1 .. Len(device) /\ h.i \in Nat
              /\ Head(h.msg) \in Entries /\ Tail(h.msg) \in Seq(Entries)
              /\ Head(h.msg).id = device[h.i].id
  <2>1. h.msg \in Seq(Entries)
    BY <1>1, <1>6 DEF HPlaces, HasEntry
  <2>2. h.i \in 1 .. Len(device) /\ h.msg # << >> /\ Head(h.msg).id = device[h.i].id
    BY <1>6 DEF Places
  <2>3. Head(h.msg) \in Entries /\ Tail(h.msg) \in Seq(Entries)
    BY <2>1, <2>2
  <2> QED
    BY <1>1, <2>1, <2>2, <2>3
<1> QED
  BY <1>2, <1>3, <1>4, <1>5, <1>6

\* The serial thread in a press.
LEMMA SerialPlace ==
  ASSUME TypeInv, Places
  PROVE  /\ s.pc \in {"idle", "build", "read", "send"}
         /\ s.pc \in Pressed =>
              /\ s.i \in 1 .. Len(device) /\ s.j \in 0 .. Len(device) /\ s.i \in Nat /\ s.j \in Nat
              /\ s.calm \in Bits
         /\ s.pc = "read" => s.value \in Bits
         /\ s.pc = "send" => s.ctrl \in Orders
<1>1. s \in SPlaces /\ Len(device) \in Nat
  BY DEF TypeInv
<1>2. s.pc \in {"idle", "build", "read", "send"}
  BY <1>1 DEF SPlaces
<1>3. s.pc = "read" => s.value \in Bits /\ s.calm \in Bits /\ s.i \in Nat /\ s.j \in Nat
  BY <1>1 DEF SPlaces
<1>4. s.pc = "send" => s.ctrl \in Orders /\ s.calm \in Bits /\ s.i \in Nat /\ s.j \in Nat
  BY <1>1 DEF SPlaces
<1>5. s.pc \in Pressed => s.i \in 1 .. Len(device) /\ s.j \in 0 .. Len(device)
  BY DEF Places
<1> QED
  BY <1>2, <1>3, <1>4, <1>5 DEF Pressed

-----------------------------------------------------------------------------
(* Types and places are kept.                                              *)

TInv == TypeInv /\ Places

LEMMA InitTInv == Init => TInv
<1> SUFFICES ASSUME Init PROVE TInv
  OBVIOUS
<1>1. << >> \in Seq(Entries) /\ << >> \in Seq(Ups) /\ << >> \in Seq(Downs)
  OBVIOUS
<1>2. device \in Seq(Entries) /\ Unique(device)
  BY <1>1 DEF Init, Unique
<1>3. json_str[1] \in Texts /\ json_str[2] \in Texts /\ page \in Seq(Entries)
  BY <1>1 DEF Init, NoText, Texts, Bits
<1>4. NoBuild \in Builds /\ Begin \in Builds
  BY <1>1 DEF NoBuild, Begin, Builds, Bits
<1>5. build \in [Threads -> Builds] /\ build["serial"].pc = "none"
  <2>1. build["serial"] = NoBuild
    BY DEF Init, Threads
  <2> QED
    BY <1>4, <2>1 DEF Init, NoBuild
<1>6. s \in SPlaces /\ h \in HPlaces /\ s.pc = "idle" /\ h.pc = "idle"
  BY DEF Init, Idle, SPlaces, HPlaces
<1>7. up \in Seq(Ups) /\ down \in Seq(Downs) /\ light \in [Lights -> Vector]
  BY <1>1 DEF Init, Vector, Bits
<1>8. bound \in [Devices -> Targets \X SUBSET Channel]
  BY DEF Init, Targets
<1>9. spoken \subseteq Lights /\ lost \in Nat /\ torn \in Bits
  BY DEF Init, Bits
<1>10. TypeInv
  BY <1>2, <1>3, <1>5, <1>6, <1>7, <1>8, <1>9 DEF TypeInv
<1>11. Places
  BY <1>5, <1>6 DEF Places, HasEntry, Pressed
<1> QED
  BY <1>10, <1>11 DEF TInv

\* What build_json() of a thread holds at each of its places.
LEMMA BuildPlace ==
  ASSUME TypeInv, NEW t \in Threads
  PROVE  /\ build[t] \in Builds
         /\ build[t].pc = "loop" =>
              /\ build[t].list \in Seq(Entries) /\ build[t].k \in Nat /\ build[t].k # 0
              /\ build[t].shut \in Bits /\ build[t].bad \in Bits /\ build[t].late \in Bits
         /\ build[t].pc \in {"copy", "half"} => build[t].text \in Texts
<1>1. build[t] \in Builds
  BY DEF TypeInv
<1> QED
  BY <1>1 DEF Builds

\* A step of build_json() other than its last.
LEMMA BuildingT ==
  ASSUME TInv, NEW t \in Threads, NEW g \in Builds, build[t].pc # "none",
         build' = [build EXCEPT ![t] = g], json_str'[1] \in Texts, json_str'[2] \in Texts, torn' \in Bits,
         UNCHANGED <<device, s, h, page, up, down, light, bound, spoken, lost>>
  PROVE  TInv'
<1>1. TypeInv /\ Places /\ build \in [Threads -> Builds]
  BY DEF TInv, TypeInv
<1>2. build' \in [Threads -> Builds]
  BY <1>1
<1>3. TypeInv'
  BY <1>1, <1>2 DEF TypeInv
<1>4. s.pc # "build" => build'["serial"].pc = "none"
  <2>1. s.pc # "build" => build["serial"].pc = "none"
    BY <1>1 DEF Places
  <2> QED
    BY <1>1, <2>1 DEF Threads
<1>5. Places'
  BY <1>1, <1>4 DEF Places
<1> QED
  BY <1>3, <1>5 DEF TInv

\* build_json().
LEMMA BuildEntryT == ASSUME TInv, NEW t \in Threads, BuildEntry(t) PROVE TInv'
<1> DEFINE b == build[t]
<1>1. TypeInv /\ b.pc = "loop" /\ b.k \in 1 .. Len(device)
  BY DEF TInv, BuildEntry
<1>2. /\ b \in Builds /\ b.list \in Seq(Entries) /\ b.k \in Nat /\ b.k # 0
      /\ b.shut \in Bits /\ b.bad \in Bits /\ b.late \in Bits
  BY <1>1, BuildPlace
<1>3. device[b.k] \in Entries
  BY <1>1, EntryType
<1> DEFINE g == [b EXCEPT !.k = @ + 1, !.list = Append(@, device[b.k]),
                          !.shut = Shut(b.k), !.bad = IF b.shut = 1 THEN 1 ELSE @]
<1>4. g \in Builds
  <2>1. Append(b.list, device[b.k]) \in Seq(Entries) /\ b.k + 1 \in Nat \ {0}
    BY <1>2, <1>3
  <2>2. Shut(b.k) \in Bits /\ (IF b.shut = 1 THEN 1 ELSE b.bad) \in Bits
    BY <1>2 DEF Shut, Bits
  <2>3. b \in [pc : {"loop"}, k : Nat \ {0}, list : Seq(Entries), shut : Bits, bad : Bits, late : Bits]
    BY <1>1, <1>2 DEF Builds
  <2> HIDE DEF b
  <2> QED
    BY <2>1, <2>2, <2>3 DEF Builds
<1>5. /\ build' = [build EXCEPT ![t] = g]
      /\ UNCHANGED <<device, json_str, s, h, page, up, down, light, bound, spoken, lost, torn>>
  BY DEF BuildEntry, air, past
<1>6. b.pc # "none"
  BY <1>1
<1>7. json_str'[1] \in Texts /\ json_str'[2] \in Texts /\ torn' \in Bits
  BY <1>1, <1>5 DEF TypeInv
<1> HIDE DEF g
<1> QED
  BY <1>4, <1>5, <1>6, <1>7, BuildingT

LEMMA BuildEndT == ASSUME TInv, NEW t \in Threads, BuildEnd(t) PROVE TInv'
<1> DEFINE b == build[t]
           x == [list |-> b.list, ok |-> IF b.shut = 1 /\ b.bad = 0 THEN 1 ELSE 0, late |-> b.late]
           g == [pc |-> "copy", text |-> x]
<1>1. TypeInv /\ b.pc = "loop"
  BY DEF TInv, BuildEnd
<1>2. b.list \in Seq(Entries) /\ b.late \in Bits
  BY <1>1, BuildPlace
<1>3. g \in Builds
  <2>1. x \in Texts
    BY <1>2 DEF Texts, Bits
  <2> HIDE DEF x
  <2> QED
    BY <2>1 DEF Builds
<1>4. /\ build' = [build EXCEPT ![t] = g]
      /\ UNCHANGED <<device, json_str, s, h, page, up, down, light, bound, spoken, lost, torn>>
  BY DEF BuildEnd, air, past
<1>5. b.pc # "none"
  BY <1>1
<1>6. json_str'[1] \in Texts /\ json_str'[2] \in Texts /\ torn' \in Bits
  BY <1>1, <1>4 DEF TypeInv
<1> HIDE DEF g
<1> QED
  BY <1>3, <1>4, <1>5, <1>6, BuildingT

\* What the two steps of the strcpy() store.
LEMMA CopyEffect ==
  ASSUME TInv, NEW t \in Threads, BuildCopy(t)
  PROVE  /\ build[t].pc = "copy" /\ build[t].text \in Texts
         /\ json_str'[1] = build[t].text /\ json_str'[2] = json_str[2]
         /\ build' = [build EXCEPT ![t] = [pc |-> "half", text |-> build[t].text]]
         /\ torn' = (IF \E u \in Threads : build[u].pc = "half" THEN 1 ELSE 0)
         /\ UNCHANGED <<device, s, h, page, up, down, light, bound, spoken, lost>>
<1>1. TypeInv /\ build[t].pc = "copy"
  BY DEF TInv, BuildCopy
<1>2. build[t].text \in Texts
  BY <1>1, BuildPlace
<1>3. json_str' = <<build[t].text, json_str[2]>>
  BY DEF BuildCopy
<1>4. json_str'[1] = build[t].text /\ json_str'[2] = json_str[2]
  BY <1>3
<1> QED
  BY <1>1, <1>2, <1>4 DEF BuildCopy, air

LEMMA RestEffect ==
  ASSUME TInv, NEW t \in Threads, BuildRest(t)
  PROVE  /\ build[t].pc = "half" /\ build[t].text \in Texts
         /\ json_str'[1] = json_str[1] /\ json_str'[2] = build[t].text
         /\ build' = [build EXCEPT ![t] = NoBuild]
         /\ s' = (IF t = "serial" THEN Idle ELSE s)
         /\ h' = (IF t = "http" THEN [pc |-> "answer"] ELSE h)
         /\ UNCHANGED <<device, page, up, down, light, bound, spoken, lost, torn>>
<1>1. TypeInv /\ build[t].pc = "half"
  BY DEF TInv, BuildRest
<1>2. build[t].text \in Texts
  BY <1>1, BuildPlace
<1>3. json_str' = <<json_str[1], build[t].text>>
  BY DEF BuildRest
<1>4. json_str'[1] = json_str[1] /\ json_str'[2] = build[t].text
  BY <1>3
<1> QED
  BY <1>1, <1>2, <1>4 DEF BuildRest, air, past

LEMMA BuildCopyT == ASSUME TInv, NEW t \in Threads, BuildCopy(t) PROVE TInv'
<1> DEFINE g == [pc |-> "half", text |-> build[t].text]
<1>1. g \in Builds /\ build[t].pc # "none"
  BY CopyEffect DEF Builds
<1>2. json_str'[1] \in Texts /\ json_str'[2] \in Texts
  BY CopyEffect DEF TInv, TypeInv
<1>3. torn' \in Bits
  BY CopyEffect DEF Bits
<1>4. build' = [build EXCEPT ![t] = g]
  BY CopyEffect
<1> HIDE DEF g
<1> QED
  BY <1>1, <1>2, <1>3, <1>4, CopyEffect, BuildingT

LEMMA BuildRestT == ASSUME TInv, NEW t \in Threads, BuildRest(t) PROVE TInv'
<1>1. /\ TypeInv /\ Places /\ build \in [Threads -> Builds]
      /\ build' = [build EXCEPT ![t] = NoBuild]
      /\ s' = (IF t = "serial" THEN Idle ELSE s)
      /\ h' = (IF t = "http" THEN [pc |-> "answer"] ELSE h)
      /\ UNCHANGED <<device, page, up, down, light, bound, spoken, lost, torn>>
  BY RestEffect DEF TInv, TypeInv
<1>2. json_str'[1] \in Texts /\ json_str'[2] \in Texts
  BY <1>1, RestEffect DEF TypeInv
<1>3. build' \in [Threads -> Builds]
  <2>1. NoBuild \in Builds
    BY DEF NoBuild, Builds
  <2> QED
    BY <1>1, <2>1
<1>4. s' \in SPlaces /\ h' \in HPlaces
  BY <1>1 DEF TypeInv, Idle, SPlaces, HPlaces
<1>5. TypeInv'
  BY <1>1, <1>2, <1>3, <1>4 DEF TypeInv
<1>6. s'.pc # "build" => build'["serial"].pc = "none"
  <2>1. CASE t = "serial"
    BY <1>1, <2>1 DEF NoBuild
  <2>2. CASE t # "serial"
    BY <1>1, <2>2 DEF Places
  <2> QED
    BY <2>1, <2>2
<1>7. h'.pc \in HasEntry => h' = h
  BY <1>1 DEF HasEntry
<1>8. s'.pc \in Pressed => s' = s
  BY <1>1 DEF Pressed, Idle
<1>9. Places'
  BY <1>1, <1>6, <1>7, <1>8 DEF Places
<1> QED
  BY <1>5, <1>9 DEF TInv

\* The HTTP thread.  A list that is read across the joint of two texts consists
\* of entries, too.
LEMMA SplicedType ==
  ASSUME NEW a \in Seq(Entries), NEW b \in Seq(Entries), NEW m \in Spliced(a, b)
  PROVE  m \in Seq(Entries)
<1>1. PICK n \in 1 .. Len(a) \cap 1 .. Len(b) :
        \E e \in Joint(a, b, n) :
          m = [i \in 1 .. Len(b) |-> IF i < n THEN a[i] ELSE IF i = n THEN e ELSE b[i]]
  BY DEF Spliced
<1>2. PICK e \in Joint(a, b, n) :
        m = [i \in 1 .. Len(b) |-> IF i < n THEN a[i] ELSE IF i = n THEN e ELSE b[i]]
  BY <1>1
<1>3. a[n] \in Entries /\ b[n] \in Entries
  BY <1>1
<1>4. e \in Entries
  BY <1>2, <1>3 DEF Joint, Entries
<1>5. ASSUME NEW i \in 1 .. Len(b)
      PROVE  (IF i < n THEN a[i] ELSE IF i = n THEN e ELSE b[i]) \in Entries
  <2>1. i < n => i \in 1 .. Len(a)
    BY <1>1
  <2> QED
    BY <1>4, <2>1
<1>6. m \in [1 .. Len(b) -> Entries] /\ Len(b) \in Nat
  BY <1>2, <1>5
<1> QED
  BY <1>6

LEMMA GetT == ASSUME TInv, Get PROVE TInv'
<1>1. /\ TypeInv /\ Places /\ page' \in Readings /\ h' = Idle
      /\ UNCHANGED <<device, json_str, build, s, up, down, light, bound, spoken, lost, torn>>
  BY DEF TInv, Get, air, past
<1>2. h' \in HPlaces /\ h'.pc \notin HasEntry
  BY <1>1 DEF Idle, HPlaces, HasEntry
<1>3. page' \in Seq(Entries)
  <2>1. page \in Seq(Entries) /\ json_str[1].list \in Seq(Entries) /\ json_str[2].list \in Seq(Entries)
    BY <1>1 DEF TypeInv, Texts
  <2>2. \/ page' = page \/ page' = json_str[1].list
        \/ page' \in Spliced(json_str[1].list, json_str[2].list)
    BY <1>1 DEF Readings
  <2> QED
    BY <2>1, <2>2, SplicedType
<1>4. TypeInv'
  BY <1>1, <1>2, <1>3 DEF TypeInv
<1>5. Places'
  BY <1>1, <1>2 DEF Places
<1> QED
  BY <1>4, <1>5 DEF TInv

\* An entry the user has edited is an entry.
LEMMA PostMsg == ASSUME TInv, Post PROVE h' \in [pc : {"entry"}, msg : Seq(Entries)]
<1>2. page \in Seq(Entries)
  BY DEF TInv, TypeInv
<1>3. PICK n \in 1 .. Len(page) :
        \/ \E c \in Channel :
             /\ page[n].id \in Lights /\ page[n].state[c] \in {0, 1}
             /\ Edited(n, [page[n] EXCEPT !.state[c] = 1 - @])
        \/ \E l \in Lights, cs \in SUBSET Channel :
             /\ page[n].type \in {3, 7}
             /\ Edited(n, [page[n] EXCEPT !.devid = l, !.light = cs])
  BY DEF Post
<1> DEFINE d == page[n]
<1>4. d \in Entries
  BY <1>2
<1>5. ASSUME NEW c \in Channel, d.state[c] \in {0, 1} PROVE [d EXCEPT !.state[c] = 1 - @] \in Entries
  <2>1. d.state \in Vector
    BY <1>4 DEF Entries
  <2>2. [d.state EXCEPT ![c] = 1 - d.state[c]] \in Vector
    <3>1. 1 - d.state[c] \in Bits
      BY <1>5 DEF Bits
    <3> QED
      BY <2>1, <3>1 DEF Vector
  <2> QED
    BY <1>4, <2>2 DEF Entries
<1>6. ASSUME NEW l \in Lights, NEW cs \in SUBSET Channel
      PROVE  [d EXCEPT !.devid = l, !.light = cs] \in Entries
  BY <1>4 DEF Entries, Targets
<1>7. PICK e \in Entries : Edited(n, e)
  BY <1>3, <1>5, <1>6
<1>8. [page EXCEPT ![n] = e] \in Seq(Entries)
  BY <1>2
<1> QED
  BY <1>7, <1>8 DEF Edited

LEMMA PostT == ASSUME TInv, Post PROVE TInv'
<1>1. /\ TypeInv /\ Places
      /\ UNCHANGED <<device, json_str, build, s, page, air, bound, spoken, lost, torn>>
  BY DEF TInv, Post
<1>2. h' \in HPlaces /\ h'.pc \notin HasEntry
  BY PostMsg DEF HPlaces, HasEntry
<1>3. TypeInv'
  BY <1>1, <1>2 DEF TypeInv, air
<1>4. Places'
  BY <1>1, <1>2 DEF Places
<1> QED
  BY <1>3, <1>4 DEF TInv

\* What the HTTP thread does with the next entry of the list that was posted.
LEMMA EntryEffect ==
  ASSUME TInv, Entry
  PROVE  \/ /\ h' = [pc |-> "build"] /\ build' = [build EXCEPT !["http"] = Begin]
            /\ UNCHANGED <<device, s, bound>>
         \/ /\ h' \in [pc : {"entry"}, msg : Seq(Entries)]
            /\ UNCHANGED <<device, build, s, bound>>
         \/ \E n \in 1 .. Len(device) :
              LET e == Head(h.msg)
              IN  /\ e \in Entries /\ device[n].id = e.id /\ h.msg # << >> /\ h.msg \in Seq(Entries)
                  /\ Stores(n, [device[n] EXCEPT !.devid = e.devid]) /\ Disturb(n)
                  /\ bound' = [bound EXCEPT ![e.id] = <<e.devid, e.light>>]
                  /\ h' = [pc |-> "clear", msg |-> h.msg, i |-> n]
                  /\ UNCHANGED build
<1>1. TypeInv /\ Places /\ h.pc = "entry"
  BY DEF TInv, Entry
<1>2. h = [pc |-> "entry", msg |-> h.msg] /\ h.msg \in Seq(Entries)
  BY <1>1, HttpPlace
<1>3. CASE h.msg = << >>
  BY <1>3 DEF Entry
<1>4. CASE h.msg # << >>
  <2> DEFINE e == Head(h.msg)  n == find_dev(e.id)
  <2>1. e \in Entries /\ Tail(h.msg) \in Seq(Entries)
    BY <1>2, <1>4
  <2>2. e.devid \in Targets
    BY <2>1 DEF Entries
  <2>3. \/ n = 0
        \/ n \in 1 .. Len(device) /\ device[n].id = e.id
    BY <1>1, FindFacts, FindDev DEF TypeInv
  <2>4. CASE n = 0
    <3>1. h' = [h EXCEPT !.msg = Tail(@)] /\ UNCHANGED <<device, build, s, bound>>
      BY <1>4, <2>4 DEF Entry
    <3>a. h \in [pc : {"entry"}, msg : Seq(Entries)]
      BY <1>1 DEF TypeInv, HPlaces
    <3>2. h' \in [pc : {"entry"}, msg : Seq(Entries)]
      BY <2>1, <3>1, <3>a
    <3> QED
      BY <2>1, <3>1, <3>2
  <2>5. CASE n # 0
    <3>1. /\ device' = [device EXCEPT ![n].devid = e.devid] /\ Disturb(n)
          /\ bound' = [bound EXCEPT ![e.id] = <<e.devid, e.light>>]
          /\ h' = [pc |-> "clear", msg |-> h.msg, i |-> n]
          /\ UNCHANGED build
      BY <1>4, <2>5 DEF Entry
    <3>2. n \in 1 .. Len(device) /\ device[n].id = e.id
      BY <2>3, <2>5
    <3> HIDE DEF n, e
    <3>3. device[n] \in Entries
      BY <1>1, <3>2, EntryType
    <3> DEFINE g == [device[n] EXCEPT !.devid = e.devid]
    <3>4. g \in Entries /\ g.id = device[n].id /\ g.type = device[n].type
      BY <2>2, <3>3, EntryStore
    <3>5. device' = [device EXCEPT ![n] = g]
      BY <3>1
    <3> HIDE DEF g
    <3>6. Stores(n, g)
      BY <1>1, <3>2, <3>4, <3>5, StoreFacts
    <3> QED
      BY <1>2, <1>4, <2>1, <3>1, <3>2, <3>6 DEF g, e
  <2> QED
    BY <2>4, <2>5
<1> QED
  BY <1>3, <1>4

\* The rest of what the step may not touch.
LEMMA EntryRest ==
  ASSUME Entry PROVE UNCHANGED <<json_str, page, up, down, light, spoken, lost, torn>>
BY DEF Entry, air

\* A step that stores to one entry, keeps the types when what goes with it does.
LEMMA StoresT ==
  ASSUME TInv, NEW n, NEW e, Stores(n, e), Disturb(n), build' = build,
         UNCHANGED <<json_str, page, up, down, light, spoken, lost, torn>>,
         bound' \in [Devices -> Targets \X SUBSET Channel],
         h' \in HPlaces,
         h'.pc \in HasEntry => /\ h'.i \in 1 .. Len(device) /\ h'.msg # << >>
                               /\ Head(h'.msg).id = device[h'.i].id
  PROVE  TInv'
<1>1. TypeInv /\ Places
  BY DEF TInv
<1>2. /\ device' \in Seq(Entries) /\ Len(device') = Len(device) /\ Unique(device')
      /\ \A m \in 1 .. Len(device) : device'[m].id = device[m].id
  BY DEF Stores
<1>3. /\ s' \in SPlaces /\ s'.pc = s.pc /\ (s.pc \in Pressed => s'.i = s.i /\ s'.j = s.j)
  BY <1>1, DisturbFacts
<1>4. TypeInv'
  BY <1>1, <1>2, <1>3 DEF TypeInv
<1>5. Places'
  BY <1>1, <1>2, <1>3 DEF Places
<1> QED
  BY <1>4, <1>5 DEF TInv

LEMMA EntryT == ASSUME TInv, Entry PROVE TInv'
<1>1. TypeInv /\ Places
  BY DEF TInv
<1>2. UNCHANGED <<json_str, page, up, down, light, spoken, lost, torn>>
  BY EntryRest
<1>3. CASE /\ h' = [pc |-> "build"] /\ build' = [build EXCEPT !["http"] = Begin]
           /\ UNCHANGED <<device, s, bound>>
  <2>1. h' \in HPlaces /\ h'.pc \notin HasEntry
    BY <1>3 DEF HPlaces, HasEntry
  <2>2. build' \in [Threads -> Builds] /\ build'["serial"] = build["serial"]
    <3>1. Begin \in Builds
      BY DEF Begin, Builds, Bits
    <3> QED
      BY <1>1, <1>3, <3>1 DEF TypeInv, Threads
  <2>3. TypeInv'
    BY <1>1, <1>2, <1>3, <2>1, <2>2 DEF TypeInv
  <2>4. Places'
    BY <1>1, <1>3, <2>1, <2>2 DEF Places
  <2> QED
    BY <2>3, <2>4 DEF TInv
<1>4. CASE /\ h' \in [pc : {"entry"}, msg : Seq(Entries)]
           /\ UNCHANGED <<device, build, s, bound>>
  <2>1. h' \in HPlaces /\ h'.pc \notin HasEntry
    BY <1>4 DEF HPlaces, HasEntry
  <2>2. TypeInv'
    BY <1>1, <1>2, <1>4, <2>1 DEF TypeInv
  <2>3. Places'
    BY <1>1, <1>4, <2>1 DEF Places
  <2> QED
    BY <2>2, <2>3 DEF TInv
<1>5. CASE \E n \in 1 .. Len(device) :
              LET e == Head(h.msg)
              IN  /\ e \in Entries /\ device[n].id = e.id /\ h.msg # << >> /\ h.msg \in Seq(Entries)
                  /\ Stores(n, [device[n] EXCEPT !.devid = e.devid]) /\ Disturb(n)
                  /\ bound' = [bound EXCEPT ![e.id] = <<e.devid, e.light>>]
                  /\ h' = [pc |-> "clear", msg |-> h.msg, i |-> n]
                  /\ UNCHANGED build
  <2> DEFINE e == Head(h.msg)
  <2>1. PICK n \in 1 .. Len(device) :
           /\ e \in Entries /\ device[n].id = e.id /\ h.msg # << >> /\ h.msg \in Seq(Entries)
           /\ Stores(n, [device[n] EXCEPT !.devid = e.devid]) /\ Disturb(n)
           /\ bound' = [bound EXCEPT ![e.id] = <<e.devid, e.light>>]
           /\ h' = [pc |-> "clear", msg |-> h.msg, i |-> n]
           /\ UNCHANGED build
    BY <1>5
  <2>2. e.id \in Devices /\ <<e.devid, e.light>> \in Targets \X SUBSET Channel
    BY <2>1 DEF Entries
  <2>3. bound' \in [Devices -> Targets \X SUBSET Channel]
    BY <1>1, <2>1, <2>2 DEF TypeInv
  <2>4. n \in Nat
    BY <1>1 DEF TypeInv
  <2>5. h' \in HPlaces
    BY <2>1, <2>4 DEF HPlaces
  <2>6. h'.i = n /\ h'.msg = h.msg
    BY <2>1
  <2> QED
    BY <1>2, <2>1, <2>3, <2>5, <2>6, StoresT
<1> QED
  BY <1>3, <1>4, <1>5, EntryEffect

\* The lights of a binding are cleared, then set one by one.
LEMMA ClearEffect ==
  ASSUME TInv, ClearLights
  PROVE  /\ Stores(h.i, [device[h.i] EXCEPT !.light = {}]) /\ Disturb(h.i)
         /\ h' = [pc |-> "lights", msg |-> h.msg, i |-> h.i, todo |-> Head(h.msg).light]
         /\ h.pc = "clear"
<1>1. TypeInv /\ Places /\ h.pc = "clear" /\ h.pc \in HasEntry
  BY DEF TInv, ClearLights, HasEntry
<1>2. h.i \in 1 .. Len(device)
  BY <1>1, HttpPlace
<1> DEFINE g == [device[h.i] EXCEPT !.light = {}]
<1>3. g \in Entries /\ g.id = device[h.i].id /\ g.type = device[h.i].type
  <2>1. device[h.i] \in Entries /\ {} \in SUBSET Channel
    BY <1>1, <1>2, EntryType
  <2> QED
    BY <2>1, EntryStore
<1>4. device' = [device EXCEPT ![h.i] = g]
  BY DEF ClearLights
<1> HIDE DEF g
<1>5. Stores(h.i, g)
  BY <1>1, <1>2, <1>3, <1>4, StoreFacts
<1> QED
  BY <1>1, <1>5 DEF ClearLights, g

LEMMA ClearT == ASSUME TInv, ClearLights PROVE TInv'
<1>1. TypeInv /\ Places /\ h.pc \in HasEntry
  BY DEF TInv, ClearLights, HasEntry
<1>2. h.msg \in Seq(Entries) /\ h.i \in Nat /\ Head(h.msg) \in Entries
      /\ h.i \in 1 .. Len(device) /\ h.msg # << >> /\ Head(h.msg).id = device[h.i].id
  BY <1>1, HttpPlace
<1>3. Head(h.msg).light \in SUBSET Channel
  BY <1>2 DEF Entries
<1>4. h' = [pc |-> "lights", msg |-> h.msg, i |-> h.i, todo |-> Head(h.msg).light]
  BY ClearEffect
<1>5. h' \in HPlaces /\ h'.i = h.i /\ h'.msg = h.msg
  BY <1>2, <1>3, <1>4 DEF HPlaces
<1>6. UNCHANGED <<build, json_str, page, up, down, light, bound, spoken, lost, torn>>
  BY DEF ClearLights, air, past
<1>7. bound' \in [Devices -> Targets \X SUBSET Channel]
  BY <1>1, <1>6 DEF TypeInv
<1> QED
  BY <1>2, <1>5, <1>6, <1>7, ClearEffect, StoresT

LEMMA SetLightEffect ==
  ASSUME TInv, SetLight
  PROVE  /\ h.pc = "lights" /\ UNCHANGED <<build, json_str, page, up, down, light, bound, spoken, lost, torn>>
         /\ \/ /\ h.todo = {} /\ h' = [pc |-> "compare", msg |-> h.msg, i |-> h.i, c |-> 1]
               /\ UNCHANGED <<device, s>>
            \/ \E c \in h.todo :
                 /\ Stores(h.i, [device[h.i] EXCEPT !.light = device[h.i].light \cup {c}])
                 /\ Disturb(h.i)
                 /\ h' \in [pc : {"lights"}, msg : {h.msg}, i : {h.i}, todo : {h.todo \ {c}}]
<1>1. TypeInv /\ Places /\ h.pc = "lights" /\ h.pc \in HasEntry
  BY DEF TInv, SetLight, HasEntry
<1>2. h.i \in 1 .. Len(device) /\ h.todo \in SUBSET Channel
  BY <1>1, HttpPlace
<1>3. UNCHANGED <<build, json_str, page, up, down, light, bound, spoken, lost, torn>>
  BY DEF SetLight, air, past
<1>4. CASE h.todo = {}
  BY <1>1, <1>3, <1>4 DEF SetLight
<1>5. CASE h.todo # {}
  <2>1. PICK c \in h.todo : /\ device' = [device EXCEPT ![h.i].light = @ \cup {c}] /\ Disturb(h.i)
                            /\ h' = [h EXCEPT !.todo = @ \ {c}]
    BY <1>5 DEF SetLight
  <2>2. device[h.i].light \cup {c} \in SUBSET Channel
    BY <1>1, <1>2, EntryType
  <2> DEFINE g == [device[h.i] EXCEPT !.light = device[h.i].light \cup {c}]
  <2>3. g \in Entries /\ g.id = device[h.i].id /\ g.type = device[h.i].type
    <3>1. device[h.i] \in Entries
      BY <1>1, <1>2, EntryType
    <3> QED
      BY <2>2, <3>1, EntryStore
  <2>4. device' = [device EXCEPT ![h.i] = g]
    BY <2>1
  <2> HIDE DEF g
  <2>5. Stores(h.i, g)
    BY <1>1, <1>2, <2>3, <2>4, StoreFacts
  <2>6. h \in [pc : {"lights"}, msg : {h.msg}, i : {h.i}, todo : SUBSET Channel]
    BY <1>1, HttpPlace
  <2>7. h' \in [pc : {"lights"}, msg : {h.msg}, i : {h.i}, todo : {h.todo \ {c}}]
    BY <2>1, <2>6
  <2> QED
    BY <1>1, <1>3, <2>1, <2>5, <2>7 DEF g
<1> QED
  BY <1>4, <1>5

LEMMA SetLightT == ASSUME TInv, SetLight PROVE TInv'
<1>1. TypeInv /\ Places /\ h.pc = "lights" /\ h.pc \in HasEntry
  BY DEF TInv, SetLight, HasEntry
<1>2. h.msg \in Seq(Entries) /\ h.i \in Nat /\ h.todo \in SUBSET Channel
      /\ h.i \in 1 .. Len(device) /\ h.msg # << >> /\ Head(h.msg).id = device[h.i].id
  BY <1>1, HttpPlace
<1>3. UNCHANGED <<build, json_str, page, up, down, light, bound, spoken, lost, torn>>
  BY SetLightEffect
<1>4. CASE /\ h' = [pc |-> "compare", msg |-> h.msg, i |-> h.i, c |-> 1]
           /\ UNCHANGED <<device, s>>
  <2>1. h' \in HPlaces /\ h'.i = h.i /\ h'.msg = h.msg
    BY <1>2, <1>4, Numbers DEF HPlaces
  <2>2. TypeInv'
    BY <1>1, <1>3, <1>4, <2>1 DEF TypeInv
  <2>3. Places'
    BY <1>1, <1>2, <1>3, <1>4, <2>1 DEF Places
  <2> QED
    BY <2>2, <2>3 DEF TInv
<1>5. ASSUME NEW c \in h.todo,
             Stores(h.i, [device[h.i] EXCEPT !.light = device[h.i].light \cup {c}]),
             Disturb(h.i),
             h' \in [pc : {"lights"}, msg : {h.msg}, i : {h.i}, todo : {h.todo \ {c}}]
      PROVE  TInv'
  <2>1. h' \in HPlaces /\ h'.i = h.i /\ h'.msg = h.msg
    BY <1>2, <1>5 DEF HPlaces
  <2>2. bound' \in [Devices -> Targets \X SUBSET Channel]
    BY <1>1, <1>3 DEF TypeInv
  <2> QED
    BY <1>2, <1>3, <1>5, <2>1, <2>2, StoresT
<1> QED
  BY <1>4, <1>5, SetLightEffect

\* The next channel of the entry, or the next entry.
LEMMA NextChannelEffect ==
  ASSUME TInv, h.pc \in {"compare", "command"}, NextChannel
  PROVE  \/ h' \in [pc : {"compare"}, msg : {h.msg}, i : {h.i}, c : Channel]
         \/ h' \in [pc : {"entry"}, msg : Seq(Entries)]
<1>1. TypeInv /\ Places /\ h.pc \in HasEntry
  BY DEF TInv, HasEntry
<1>2. h.c \in Channel /\ Tail(h.msg) \in Seq(Entries)
      /\ h \in [pc : {"compare", "command"}, msg : {h.msg}, i : {h.i}, c : Channel]
  BY <1>1, HttpPlace
<1>3. CASE h.c < CHANNELS
  <2>1. h' = [h EXCEPT !.c = h.c + 1, !.pc = "compare"]
    BY <1>3 DEF NextChannel
  <2>2. h.c + 1 \in Channel
    BY <1>2, <1>3, Numbers DEF Channel
  <2> QED
    BY <1>2, <2>1, <2>2
<1>4. CASE ~ (h.c < CHANNELS)
  BY <1>2, <1>4 DEF NextChannel
<1> QED
  BY <1>3, <1>4

\* Behind it the types hold, when the step touches no entry.
LEMMA NextChannelT ==
  ASSUME TInv, h.pc \in {"compare", "command"}, NextChannel, down' \in Seq(Downs),
         UNCHANGED <<device, json_str, build, s, page, up, light, bound, spoken, lost, torn>>
  PROVE  TInv'
<1>1. TypeInv /\ Places /\ h.pc \in HasEntry
  BY DEF TInv, HasEntry
<1>2. h.msg \in Seq(Entries) /\ h.i \in Nat
      /\ h.i \in 1 .. Len(device) /\ h.msg # << >> /\ Head(h.msg).id = device[h.i].id
  BY <1>1, HttpPlace
<1>3. h' \in HPlaces /\ (h'.pc \in HasEntry => h'.i = h.i /\ h'.msg = h.msg)
  <2>1. CASE h' \in [pc : {"compare"}, msg : {h.msg}, i : {h.i}, c : Channel]
    BY <1>2, <2>1 DEF HPlaces
  <2>2. CASE h' \in [pc : {"entry"}, msg : Seq(Entries)]
    BY <2>2 DEF HPlaces, HasEntry
  <2> QED
    BY <2>1, <2>2, NextChannelEffect
<1>4. TypeInv'
  BY <1>1, <1>3 DEF TypeInv
<1>5. Places'
  BY <1>1, <1>2, <1>3 DEF Places
<1> QED
  BY <1>4, <1>5 DEF TInv

LEMMA CompareEffect ==
  ASSUME TInv, Compare
  PROVE  /\ h.pc = "compare"
         /\ UNCHANGED <<device, json_str, build, s, page, up, down, light, bound, spoken, lost, torn>>
         /\ \/ h' \in [pc : {"store"}, msg : {h.msg}, i : {h.i}, c : {h.c}]
            \/ NextChannel
<1>1. TypeInv /\ Places /\ h.pc = "compare"
  BY DEF TInv, Compare
<1>2. h \in [pc : {"compare"}, msg : {h.msg}, i : {h.i}, c : {h.c}]
  BY <1>1, HttpPlace
<1>3. UNCHANGED <<device, json_str, build, s, page, up, down, light, bound, spoken, lost, torn>>
  BY DEF Compare, air, past
<1>4. h' = [h EXCEPT !.pc = "store"] \/ NextChannel
  BY DEF Compare
<1> QED
  BY <1>1, <1>2, <1>3, <1>4

LEMMA CompareT == ASSUME TInv, Compare PROVE TInv'
<1>1. /\ TypeInv /\ Places /\ h.pc = "compare" /\ h.pc \in HasEntry
      /\ UNCHANGED <<device, json_str, build, s, page, up, down, light, bound, spoken, lost, torn>>
  BY CompareEffect DEF TInv, HasEntry
<1>2. h.msg \in Seq(Entries) /\ h.i \in Nat /\ h.c \in Channel
      /\ h.i \in 1 .. Len(device) /\ h.msg # << >> /\ Head(h.msg).id = device[h.i].id
  BY <1>1, HttpPlace
<1>3. CASE NextChannel
  BY <1>1, <1>3, NextChannelT DEF TypeInv
<1>4. CASE h' \in [pc : {"store"}, msg : {h.msg}, i : {h.i}, c : {h.c}]
  <2>1. h' \in HPlaces /\ h'.i = h.i /\ h'.msg = h.msg
    BY <1>2, <1>4 DEF HPlaces
  <2>2. TypeInv'
    BY <1>1, <2>1 DEF TypeInv
  <2>3. Places'
    BY <1>1, <1>2, <2>1 DEF Places
  <2> QED
    BY <2>2, <2>3 DEF TInv
<1> QED
  BY <1>3, <1>4, CompareEffect

LEMMA StoreEffect ==
  ASSUME TInv, Store
  PROVE  /\ h.pc = "store"
         /\ \E v \in Vector : Stores(h.i, [device[h.i] EXCEPT !.state = v])
         /\ Disturb(h.i)
         /\ h' \in [pc : {"command"}, msg : {h.msg}, i : {h.i}, c : {h.c}]
         /\ UNCHANGED <<json_str, build, page, up, down, light, bound, spoken, lost, torn>>
<1>1. TypeInv /\ Places /\ h.pc = "store" /\ h.pc \in HasEntry
  BY DEF TInv, Store, HasEntry
<1>2. h \in [pc : {"store"}, msg : {h.msg}, i : {h.i}, c : {h.c}] /\ h.c \in Channel
      /\ h.i \in 1 .. Len(device) /\ Head(h.msg) \in Entries
  BY <1>1, HttpPlace
<1>3. Head(h.msg).state[h.c] \in Bits
  BY <1>2 DEF Entries, Vector
<1> DEFINE v == [device[h.i].state EXCEPT ![h.c] = Head(h.msg).state[h.c]]
           g == [device[h.i] EXCEPT !.state = v]
<1>4. v \in Vector
  <2>1. device[h.i].state \in Vector
    BY <1>1, <1>2, EntryType
  <2> QED
    BY <1>2, <1>3, <2>1 DEF Vector
<1>5. device' = [device EXCEPT ![h.i] = g]
  BY DEF Store
<1> HIDE DEF v
<1>6. g \in Entries /\ g.id = device[h.i].id /\ g.type = device[h.i].type
  BY <1>1, <1>2, <1>4, EntryType, EntryStore
<1> HIDE DEF g
<1>7. Stores(h.i, g)
  BY <1>1, <1>2, <1>5, <1>6, StoreFacts
<1>8. h' \in [pc : {"command"}, msg : {h.msg}, i : {h.i}, c : {h.c}]
  BY <1>2 DEF Store
<1>9. UNCHANGED <<json_str, build, page, up, down, light, bound, spoken, lost, torn>>
  BY DEF Store, air, past
<1> QED
  BY <1>1, <1>4, <1>7, <1>8, <1>9 DEF Store, g

LEMMA StoreT == ASSUME TInv, Store PROVE TInv'
<1>1. /\ TypeInv /\ Places /\ h.pc = "store" /\ h.pc \in HasEntry
      /\ UNCHANGED <<json_str, build, page, up, down, light, bound, spoken, lost, torn>>
      /\ h' \in [pc : {"command"}, msg : {h.msg}, i : {h.i}, c : {h.c}]
  BY StoreEffect DEF TInv, HasEntry
<1>2. h.msg \in Seq(Entries) /\ h.i \in Nat /\ h.c \in Channel
      /\ h.i \in 1 .. Len(device) /\ h.msg # << >> /\ Head(h.msg).id = device[h.i].id
  BY <1>1, HttpPlace
<1>3. h' \in HPlaces /\ h'.i = h.i /\ h'.msg = h.msg
  BY <1>1, <1>2 DEF HPlaces
<1>4. bound' \in [Devices -> Targets \X SUBSET Channel]
  BY <1>1 DEF TypeInv
<1> QED
  BY <1>1, <1>2, <1>3, <1>4, StoreEffect, StoresT

\* A command is a frame to a light.
LEMMA CtrlEffect ==
  ASSUME TypeInv, NEW d, NEW c \in Orders, Ctrl(d, c)
  PROVE  /\ down' \in Seq(Downs)
         /\ \/ d \in Lights /\ [id |-> d, ctrl |-> c] \in Downs /\ down' = Append(down, [id |-> d, ctrl |-> c])
            \/ d \notin Lights /\ down' = down
<1>1. down \in Seq(Downs)
  BY DEF TypeInv
<1>2. CASE d \in Lights
  <2>1. [id |-> d, ctrl |-> c] \in Downs
    BY <1>2 DEF Downs
  <2> QED
    BY <1>1, <1>2, <2>1 DEF Ctrl
<1>3. CASE d \notin Lights
  BY <1>1, <1>3 DEF Ctrl
<1> QED
  BY <1>2, <1>3

LEMMA CommandEffect ==
  ASSUME TInv, Command
  PROVE  /\ h.pc = "command" /\ NextChannel
         /\ \E c \in Orders : Ctrl(device[h.i].id, c)
         /\ UNCHANGED <<device, json_str, build, s, page, up, light, bound, spoken, lost, torn>>
<1>1. TypeInv /\ Places /\ h.pc = "command" /\ h.pc \in HasEntry
  BY DEF TInv, Command, HasEntry
<1>2. h.c \in Channel /\ Head(h.msg) \in Entries
  BY <1>1, HttpPlace
<1>3. Head(h.msg).state[h.c] \in Bits
  BY <1>2 DEF Entries, Vector
<1>4. ChannelOnly(h.c, Head(h.msg).state[h.c]) \in Orders
  BY <1>3 DEF ChannelOnly, Orders, Bits
<1> QED
  BY <1>1, <1>4 DEF Command, past

LEMMA CommandT == ASSUME TInv, Command PROVE TInv'
<1>1. PICK c \in Orders : Ctrl(device[h.i].id, c)
  BY CommandEffect
<1>2. down' \in Seq(Downs)
  BY <1>1, CtrlEffect DEF TInv
<1> QED
  BY <1>2, CommandEffect, NextChannelT

\* The serial thread.
LEMMA HeadUp ==
  ASSUME TypeInv, up # << >>
  PROVE  /\ Head(up) \in Ups /\ Tail(up) \in Seq(Ups)
         /\ Head(up).kind = "register" => Head(up).id \in Devices /\ Head(up).type \in Types
         /\ Head(up).kind = "ctrl_up" => Head(up).value \in Bits
         /\ Head(up).kind = "state" => Head(up).id \in Lights /\ Head(up).state \in Vector
         /\ Byte6(Head(up)) \in Bits
<1>1. Head(up) \in Ups /\ Tail(up) \in Seq(Ups)
  BY DEF TypeInv
<1>2. Head(up).kind = "register" => Head(up).id \in Devices /\ Head(up).type \in Types
  BY <1>1 DEF Ups
<1>3. Head(up).kind = "ctrl_up" => Head(up).value \in Bits
  BY <1>1 DEF Ups
<1>4. Head(up).kind = "state" => Head(up).id \in Lights /\ Head(up).state \in Vector
  BY <1>1 DEF Ups
<1>5. Byte6(Head(up)) \in Bits
  <2>1. CASE Head(up).kind = "state"
    BY <1>4, <2>1, Numbers DEF Byte6, Vector
  <2>2. CASE Head(up).kind # "state"
    <3>1. Head(up).value \in Bits
      BY <1>1, <2>2 DEF Ups
    <3> QED
      BY <2>2, <3>1 DEF Byte6
  <2> QED
    BY <2>1, <2>2
<1> QED
  BY <1>1, <1>2, <1>3, <1>4, <1>5

\* A frame of SHORTCUT makes one command at most.
LEMMA CoupleEffect ==
  ASSUME TypeInv, up # << >>, Couple(Head(up))
  PROVE  down' = down \/ \E d \in Lights, c \in Orders : down' = Append(down, [id |-> d, ctrl |-> c])
<1> DEFINE o == [c \in Channel |-> IF c = 1 THEN Byte6(Head(up)) ELSE 1]
<1>1. CASE Head(up).id = SHORTCUT
  <2>1. o \in Orders
    BY HeadUp DEF Orders, Bits
  <2>2. Ctrl(TARGET, o)
    BY <1>1 DEF Couple
  <2> HIDE DEF o
  <2> QED
    BY <2>1, <2>2, CtrlEffect
<1>2. CASE Head(up).id # SHORTCUT
  BY <1>2 DEF Couple
<1> QED
  BY <1>1, <1>2

LEMMA CtrlUpEffect ==
  ASSUME TInv, CtrlUp
  PROVE  /\ s.pc = "idle" /\ up # << >> /\ Head(up).kind = "ctrl_up" /\ up' = Tail(up)
         /\ down' = down \/ \E d \in Lights, c \in Orders : down' = Append(down, [id |-> d, ctrl |-> c])
         /\ \/ s' = s
            \/ \E i \in 1 .. Len(device), v \in Bits :
                 LET j == Find(device, device[i].devid)
                 IN  /\ j \in 0 .. Len(device) /\ device[i].type \in {3, 7}
                     /\ (j # 0 => device[j].id = device[i].devid)
                     /\ s' = [pc |-> "read", i |-> i, j |-> j, value |-> v,
                              calm |-> IF Halfway(i, j) THEN 0 ELSE 1]
         /\ UNCHANGED <<device, json_str, build, h, page, light, bound, spoken, lost, torn>>
<1>1. /\ TypeInv /\ Places /\ s.pc = "idle" /\ up # << >> /\ Head(up).kind = "ctrl_up" /\ up' = Tail(up)
      /\ Couple(Head(up))
      /\ UNCHANGED <<device, json_str, build, h, page, light, bound, spoken, lost, torn>>
  BY DEF TInv, CtrlUp, past
<1>2. Head(up).value \in Bits
  BY <1>1, HeadUp
<1>3. down' = down \/ \E d \in Lights, c \in Orders : down' = Append(down, [id |-> d, ctrl |-> c])
  BY <1>1, CoupleEffect
<1> DEFINE i == find_dev(Head(up).id)  v == Head(up).value
<1>4. CASE i # 0 /\ device[i].type \in {3, 7}
  <2> DEFINE j == Find(device, device[i].devid)
  <2>1. i \in 1 .. Len(device)
    BY <1>1, <1>4, FindFacts, FindDev DEF TypeInv
  <2>2. j \in 0 .. Len(device) /\ (j # 0 => device[j].id = device[i].devid)
    <3>1. \/ j = 0
          \/ j \in 1 .. Len(device) /\ device[j].id = device[i].devid
      BY <1>1, FindFacts DEF TypeInv
    <3>2. Len(device) \in Nat
      BY <1>1 DEF TypeInv
    <3> HIDE DEF j, i
    <3>3. j \in 0 .. Len(device)
      BY <3>1, <3>2
    <3> QED
      BY <3>1, <3>3
  <2>3. s' = [pc |-> "read", i |-> i, j |-> j, value |-> v, calm |-> IF Halfway(i, j) THEN 0 ELSE 1]
    BY <1>4, FindDev DEF CtrlUp
  <2> HIDE DEF i, v
  <2> QED
    BY <1>1, <1>2, <1>3, <1>4, <2>1, <2>2, <2>3 DEF v
<1>5. CASE ~ (i # 0 /\ device[i].type \in {3, 7})
  <2>1. s' = s
    BY <1>5 DEF CtrlUp
  <2> HIDE DEF i, v
  <2> QED
    BY <1>1, <1>3, <2>1
<1> QED
  BY <1>4, <1>5

\* A command added keeps the type.
LEMMA DownAdded ==
  ASSUME TypeInv,
         down' = down \/ \E d \in Lights, c \in Orders : down' = Append(down, [id |-> d, ctrl |-> c])
  PROVE  down' \in Seq(Downs)
<1>1. down \in Seq(Downs)
  BY DEF TypeInv
<1>2. ASSUME NEW d \in Lights, NEW c \in Orders PROVE [id |-> d, ctrl |-> c] \in Downs
  BY DEF Downs
<1>3. \A x \in Downs : Append(down, x) \in Seq(Downs)
  BY <1>1
<1> QED
  BY <1>1, <1>2, <1>3

LEMMA CtrlUpT == ASSUME TInv, CtrlUp PROVE TInv'
<1>1. /\ TypeInv /\ Places /\ up' = Tail(up) /\ s.pc = "idle" /\ up # << >>
      /\ UNCHANGED <<device, json_str, build, h, page, light, bound, spoken, lost, torn>>
  BY CtrlUpEffect DEF TInv
<1>2. down' \in Seq(Downs) /\ up' \in Seq(Ups)
  BY <1>1, CtrlUpEffect, DownAdded, HeadUp
<1>3. s' \in SPlaces /\ (s'.pc \in Pressed => s'.i \in 1 .. Len(device) /\ s'.j \in 0 .. Len(device))
  <2>1. CASE s' = s
    BY <1>1, <2>1 DEF TypeInv, Places
  <2>2. ASSUME NEW i \in 1 .. Len(device), NEW v \in Bits, NEW j \in 0 .. Len(device), NEW c \in Bits,
               s' = [pc |-> "read", i |-> i, j |-> j, value |-> v, calm |-> c]
        PROVE  s' \in SPlaces /\ s'.i \in 1 .. Len(device) /\ s'.j \in 0 .. Len(device)
    <3>1. i \in Nat /\ j \in Nat
      BY <1>1 DEF TypeInv
    <3> QED
      BY <2>2, <3>1 DEF SPlaces
  <2>3. \A i, j : (IF Halfway(i, j) THEN 0 ELSE 1) \in Bits
    BY DEF Bits
  <2> QED
    BY <2>1, <2>2, <2>3, CtrlUpEffect
<1>4. TypeInv'
  BY <1>1, <1>2, <1>3 DEF TypeInv
<1>5. Places'
  BY <1>1, <1>3 DEF Places
<1> QED
  BY <1>4, <1>5 DEF TInv

LEMMA ReadLightsEffect ==
  ASSUME TInv, ReadLights
  PROVE  /\ s.pc = "read"
         /\ UNCHANGED <<device, json_str, build, h, page, up, down, light, bound, spoken, lost, torn>>
         /\ \E t \in Orders :
              /\ \A c \in Channel :
                   t[c] \in (IF c \notin device[s.i].light THEN {2}
                             ELSE IF device[s.i].type = 7 THEN Over(c) ELSE {s.value})
              /\ s' = [pc |-> "send", i |-> s.i, j |-> s.j, calm |-> s.calm, ctrl |-> t]
BY DEF ReadLights, Orders, air, past

LEMMA ReadLightsT == ASSUME TInv, ReadLights PROVE TInv'
<1>1. /\ TypeInv /\ Places /\ s.pc \in Pressed
      /\ UNCHANGED <<device, json_str, build, h, page, up, down, light, bound, spoken, lost, torn>>
  BY ReadLightsEffect DEF TInv, Pressed
<1>2. PICK t \in Orders : s' = [pc |-> "send", i |-> s.i, j |-> s.j, calm |-> s.calm, ctrl |-> t]
  BY ReadLightsEffect
<1>3. s' \in SPlaces /\ s'.i = s.i /\ s'.j = s.j
  BY <1>1, <1>2, SerialPlace DEF SPlaces
<1>4. TypeInv'
  BY <1>1, <1>3 DEF TypeInv
<1>5. Places'
  <2>1. s.pc # "build"
    BY <1>1 DEF Pressed
  <2> QED
    BY <1>1, <1>3, <2>1 DEF Places
<1> QED
  BY <1>4, <1>5 DEF TInv

LEMMA SendLightsEffect ==
  ASSUME TInv, SendLights
  PROVE  /\ s.pc = "send" /\ s' = Idle /\ Ctrl(device[s.i].devid, s.ctrl) /\ s.ctrl \in Orders
         /\ UNCHANGED <<device, json_str, build, h, page, up, light, bound, spoken, lost, torn>>
BY SerialPlace DEF TInv, SendLights, past

LEMMA SendLightsT == ASSUME TInv, SendLights PROVE TInv'
<1>1. /\ TypeInv /\ Places /\ s.pc = "send" /\ s' = Idle
      /\ UNCHANGED <<device, json_str, build, h, page, up, light, bound, spoken, lost, torn>>
  BY SendLightsEffect DEF TInv
<1>2. down' \in Seq(Downs)
  BY <1>1, SendLightsEffect, CtrlEffect
<1>3. s' \in SPlaces /\ s'.pc = "idle"
  BY <1>1 DEF Idle, SPlaces
<1>4. TypeInv'
  BY <1>1, <1>2, <1>3 DEF TypeInv
<1>5. Places'
  BY <1>1, <1>3 DEF Places, Pressed
<1> QED
  BY <1>4, <1>5 DEF TInv

\* A device added behind the table.
LEMMA AppendFacts ==
  ASSUME TypeInv, NEW e \in Entries, \A n \in 1 .. Len(device) : device[n].id # e.id,
         device' = Append(device, e)
  PROVE  /\ device' \in Seq(Entries) /\ Unique(device') /\ Len(device') = Len(device) + 1
         /\ Len(device) \in Nat /\ device'[Len(device) + 1] = e
         /\ \A n \in 1 .. Len(device) : n \in 1 .. Len(device') /\ device'[n] = device[n]
         /\ \A n \in 1 .. Len(device') : n \in 1 .. Len(device) \/ n = Len(device) + 1
<1>1. device \in Seq(Entries) /\ Len(device) \in Nat /\ Unique(device)
  BY DEF TypeInv
<1>2. /\ device' \in Seq(Entries) /\ Len(device') = Len(device) + 1 /\ device'[Len(device) + 1] = e
      /\ \A n \in 1 .. Len(device) : device'[n] = device[n]
  BY <1>1
<1>3. \A k \in Nat : \A n \in 1 .. k : n \in 1 .. k+1
  OBVIOUS
<1>4. \A k \in Nat : \A n \in 1 .. k+1 : n \in 1 .. k \/ n = k+1
  OBVIOUS
<1>5. \A n \in 1 .. Len(device) : n \in 1 .. Len(device')
  BY <1>1, <1>2, <1>3
<1>6. \A n \in 1 .. Len(device') : n \in 1 .. Len(device) \/ n = Len(device) + 1
  BY <1>1, <1>2, <1>4
<1>7. Unique(device')
  BY <1>1, <1>2, <1>6 DEF Unique
<1> QED
  BY <1>1, <1>2, <1>5, <1>6, <1>7

LEMMA RegisterEffect ==
  ASSUME TInv, Register
  PROVE  /\ s.pc = "idle" /\ up # << >> /\ Head(up).kind = "register" /\ up' = Tail(up)
         /\ down' = down \/ \E d \in Lights, c \in Orders : down' = Append(down, [id |-> d, ctrl |-> c])
         /\ UNCHANGED <<json_str, h, page, light, bound, spoken, lost, torn>>
         /\ \/ UNCHANGED <<device, build, s>>
            \/ /\ \/ device' = device
                  \/ \E e \in Entries : /\ device' = Append(device, e) /\ e.devid = 0 /\ e.light = {}
                                        /\ \A n \in 1 .. Len(device) : device[n].id # e.id
               /\ s' = [pc |-> "build"]
               /\ build' = [t \in Threads |-> IF t = "serial" THEN Begin ELSE Late(build[t])]
<1> DEFINE f == Head(up)
<1>1. /\ TypeInv /\ Places /\ s.pc = "idle" /\ up # << >> /\ f.kind = "register" /\ up' = Tail(up)
      /\ Couple(f) /\ UNCHANGED <<json_str, h, page, light, bound, spoken, lost, torn>>
  BY DEF TInv, Register, past
<1>a. down' = down \/ \E d \in Lights, c \in Orders : down' = Append(down, [id |-> d, ctrl |-> c])
  BY <1>1, CoupleEffect
<1>2. f.id \in Devices /\ f.type \in Types
  BY <1>1, HeadUp
<1>3. CASE find_dev(f.id) # 0
  <2>1. UNCHANGED <<device, build, s>>
    BY <1>3 DEF Register
  <2> QED
    BY <1>1, <1>a, <2>1
<1>4. CASE find_dev(f.id) = 0
  <2> DEFINE e == [id |-> f.id, type |-> f.type, devid |-> 0, light |-> {}, state |-> [c \in Channel |-> 0]]
  <2>1. e \in Entries /\ e.devid = 0 /\ e.light = {} /\ e.id = f.id
    <3>1. [c \in Channel |-> 0] \in Vector /\ 0 \in Targets
      BY DEF Vector, Bits, Targets
    <3> QED
      BY <1>2, <3>1 DEF Entries
  <2>2. \A n \in 1 .. Len(device) : device[n].id # f.id
    <3>1. ~ (0 \in 1 .. Len(device))
      BY <1>1 DEF TypeInv
    <3> QED
      BY <1>1, <1>4, <3>1, FindFacts, FindDev DEF TypeInv
  <2>3. /\ device' = Append(device, e) \/ device' = device
        /\ s' = [pc |-> "build"]
        /\ build' = [t \in Threads |-> IF t = "serial" THEN Begin ELSE Late(build[t])]
    BY <1>4 DEF Register
  <2> HIDE DEF e, f
  <2> QED
    BY <1>1, <1>a, <2>1, <2>2, <2>3 DEF f
<1> QED
  BY <1>3, <1>4

\* The serial thread begins a list.
LEMMA SerialBegins ==
  ASSUME TInv, s' = [pc |-> "build"], build' = [build EXCEPT !["serial"] = Begin]
  PROVE  /\ s' \in SPlaces /\ s'.pc = "build" /\ build' \in [Threads -> Builds]
         /\ build'["serial"] = Begin
<1>1. build \in [Threads -> Builds]
  BY DEF TInv, TypeInv
<1>2. Begin \in Builds
  BY DEF Begin, Builds, Bits
<1>3. build' \in [Threads -> Builds] /\ build'["serial"] = Begin
  BY <1>1, <1>2 DEF Threads
<1> QED
  BY <1>3 DEF SPlaces

\* A list whose loop goes on when a device is added stays where it is.
LEMMA LateFacts ==
  ASSUME NEW b \in Builds
  PROVE  /\ Late(b) \in Builds /\ Late(b).pc = b.pc
         /\ b.pc # "loop" => Late(b) = b
         /\ b.pc = "loop" /\ Late(b).late = 0 => Late(b) = b /\ ~ (b.k > Len(device) /\ b.k > 1)
<1>1. CASE b.pc = "loop" /\ b.k > Len(device) /\ b.k > 1
  <2>1. b \in [pc : {"loop"}, k : Nat \ {0}, list : Seq(Entries), shut : Bits, bad : Bits, late : Bits]
    BY <1>1 DEF Builds
  <2>2. [b EXCEPT !.late = 1] \in Builds /\ [b EXCEPT !.late = 1].pc = b.pc /\ [b EXCEPT !.late = 1].late = 1
    BY <2>1 DEF Builds, Bits
  <2> QED
    BY <1>1, <2>2 DEF Late
<1>2. CASE ~ (b.pc = "loop" /\ b.k > Len(device) /\ b.k > 1)
  BY <1>2 DEF Late
<1> QED
  BY <1>1, <1>2

LEMMA RegisterT == ASSUME TInv, Register PROVE TInv'
<1>1. /\ TypeInv /\ Places /\ up' = Tail(up) /\ s.pc = "idle" /\ up # << >>
      /\ UNCHANGED <<json_str, h, page, light, bound, spoken, lost, torn>>
  BY RegisterEffect DEF TInv
<1>2. up' \in Seq(Ups) /\ down' \in Seq(Downs)
  BY <1>1, HeadUp, RegisterEffect, DownAdded
<1>3. CASE UNCHANGED <<device, build, s>>
  <2>1. TypeInv'
    BY <1>1, <1>2, <1>3 DEF TypeInv
  <2>2. Places'
    BY <1>1, <1>3 DEF Places
  <2> QED
    BY <2>1, <2>2 DEF TInv
<1>4. CASE /\ \/ device' = device
              \/ \E e \in Entries : /\ device' = Append(device, e) /\ e.devid = 0 /\ e.light = {}
                                    /\ \A n \in 1 .. Len(device) : device[n].id # e.id
           /\ s' = [pc |-> "build"]
           /\ build' = [t \in Threads |-> IF t = "serial" THEN Begin ELSE Late(build[t])]
  <2>1. s' \in SPlaces /\ s'.pc = "build"
    BY <1>4 DEF SPlaces
  <2>2. build' \in [Threads -> Builds]
    <3>1. Begin \in Builds
      BY DEF Begin, Builds, Bits
    <3>2. \A t \in Threads : Late(build[t]) \in Builds
      BY <1>1, LateFacts DEF TypeInv
    <3> QED
      BY <1>4, <3>1, <3>2
  <2>3. /\ device' \in Seq(Entries) /\ Unique(device')
        /\ \A n \in 1 .. Len(device) : n \in 1 .. Len(device') /\ device'[n] = device[n]
    <3>1. CASE device' = device
      BY <1>1, <3>1 DEF TypeInv
    <3>2. CASE device' # device
      BY <1>1, <1>4, <3>2, AppendFacts
    <3> QED
      BY <3>1, <3>2
  <2>4. TypeInv'
    BY <1>1, <1>2, <2>1, <2>2, <2>3 DEF TypeInv
  <2>5. Places'
    BY <1>1, <2>1, <2>3 DEF Places, Pressed
  <2> QED
    BY <2>4, <2>5 DEF TInv
<1> QED
  BY <1>3, <1>4, RegisterEffect

LEMMA SendStateEffect ==
  ASSUME TInv, SendState
  PROVE  /\ s.pc = "idle" /\ up # << >> /\ Head(up).kind = "state" /\ up' = Tail(up)
         /\ down' = down \/ \E d \in Lights, c \in Orders : down' = Append(down, [id |-> d, ctrl |-> c])
         /\ UNCHANGED <<json_str, h, page, light, bound, lost, torn>>
         /\ \/ /\ \A n \in 1 .. Len(device) : device[n].id # Head(up).id
               /\ UNCHANGED <<device, build, s, spoken>>
            \/ \E i \in 1 .. Len(device) :
                 /\ device[i].id = Head(up).id /\ spoken' = spoken \cup {Head(up).id}
                 /\ Stores(i, [device[i] EXCEPT !.state = Head(up).state])
                 /\ s' = [pc |-> "build"] /\ build' = [build EXCEPT !["serial"] = Begin]
<1> DEFINE f == Head(up)  i == find_dev(f.id)
<1>1. /\ TypeInv /\ Places /\ s.pc = "idle" /\ up # << >> /\ f.kind = "state" /\ up' = Tail(up)
      /\ Couple(f) /\ UNCHANGED <<json_str, h, page, light, bound, lost, torn>>
  BY DEF TInv, SendState
<1>a. down' = down \/ \E d \in Lights, c \in Orders : down' = Append(down, [id |-> d, ctrl |-> c])
  BY <1>1, CoupleEffect
<1>2. f.id \in Lights /\ f.state \in Vector
  BY <1>1, HeadUp
<1>3. \/ i = 0 /\ \A n \in 1 .. Len(device) : device[n].id # f.id
      \/ i \in 1 .. Len(device) /\ device[i].id = f.id
  BY <1>1, FindFacts, FindDev DEF TypeInv
<1>4. CASE i = 0
  <2>1. UNCHANGED <<device, build, s, spoken>>
    BY <1>4 DEF SendState
  <2>2. ~ (0 \in 1 .. Len(device))
    BY <1>1 DEF TypeInv
  <2> QED
    BY <1>1, <1>a, <1>3, <1>4, <2>1, <2>2
<1>5. CASE i # 0
  <2>1. /\ device' = Reported(i, f.state) /\ spoken' = spoken \cup {f.id}
        /\ s' = [pc |-> "build"] /\ build' = [build EXCEPT !["serial"] = Begin]
    BY <1>5 DEF SendState
  <2>2. i \in 1 .. Len(device) /\ device[i].id = f.id
    BY <1>3, <1>5
  <2> HIDE DEF i, f
  <2> DEFINE g == [device[i] EXCEPT !.state = f.state]
  <2>3. g \in Entries /\ g.id = device[i].id /\ g.type = device[i].type
    BY <1>1, <1>2, <2>2, EntryType, EntryStore
  <2>4. device' = [device EXCEPT ![i] = g]
    BY <2>1 DEF Reported
  <2> HIDE DEF g
  <2>5. Stores(i, g)
    BY <1>1, <2>2, <2>3, <2>4, StoreFacts
  <2> QED
    BY <1>1, <1>a, <2>1, <2>2, <2>5 DEF f, g
<1> QED
  BY <1>4, <1>5

LEMMA SendStateT == ASSUME TInv, SendState PROVE TInv'
<1>1. /\ TypeInv /\ Places /\ up' = Tail(up) /\ s.pc = "idle" /\ up # << >> /\ Head(up).kind = "state"
      /\ UNCHANGED <<json_str, h, page, light, bound, lost, torn>>
  BY SendStateEffect DEF TInv
<1>2. up' \in Seq(Ups) /\ down' \in Seq(Downs) /\ Head(up).id \in Lights
  BY <1>1, HeadUp, SendStateEffect, DownAdded
<1>3. CASE UNCHANGED <<device, build, s, spoken>>
  <2>1. TypeInv'
    BY <1>1, <1>2, <1>3 DEF TypeInv
  <2>2. Places'
    BY <1>1, <1>3 DEF Places
  <2> QED
    BY <2>1, <2>2 DEF TInv
<1>4. ASSUME NEW i \in 1 .. Len(device), spoken' = spoken \cup {Head(up).id},
             Stores(i, [device[i] EXCEPT !.state = Head(up).state]),
             s' = [pc |-> "build"], build' = [build EXCEPT !["serial"] = Begin]
      PROVE  TInv'
  <2>1. s' \in SPlaces /\ s'.pc = "build" /\ build' \in [Threads -> Builds]
    BY <1>4, SerialBegins
  <2>2. /\ device' \in Seq(Entries) /\ Len(device') = Len(device) /\ Unique(device')
        /\ \A m \in 1 .. Len(device) : device'[m].id = device[m].id
    BY <1>4 DEF Stores
  <2>3. spoken' \subseteq Lights
    BY <1>1, <1>2, <1>4 DEF TypeInv
  <2>4. TypeInv'
    BY <1>1, <1>2, <2>1, <2>2, <2>3 DEF TypeInv
  <2>5. Places'
    BY <1>1, <2>1, <2>2 DEF Places, Pressed
  <2> QED
    BY <2>4, <2>5 DEF TInv
<1> QED
  BY <1>3, <1>4, SendStateEffect

\* The devices.
LEMMA EventEffect ==
  ASSUME TInv, Event
  PROVE  /\ UNCHANGED <<device, json_str, build, s, h, page, down, bound, spoken, lost, torn>>
         /\ \/ \E f \in Ups : f.kind # "state" /\ up' = Append(up, f) /\ UNCHANGED light
            \/ \E l \in Lights : /\ light' \in [Lights -> Vector]
                                 /\ \A m \in Lights : m # l => light'[m] = light[m]
                                 /\ Report(l, light'[l]) \in Ups
                                 /\ up' = Append(up, Report(l, light'[l]))
<1>1. TypeInv /\ UNCHANGED <<device, json_str, build, s, h, page, down, bound, spoken, lost, torn>>
  BY DEF TInv, Event
<1>2. ASSUME NEW d \in Devices, NEW v \in Values, NEW ty \in (IF d \in Lights THEN {5} ELSE {3, 7}),
             Tell([kind |-> "register", id |-> d, type |-> ty, value |-> v]), UNCHANGED light
      PROVE  \E f \in Ups : f.kind # "state" /\ up' = Append(up, f) /\ UNCHANGED light
  <2> DEFINE f == [kind |-> "register", id |-> d, type |-> ty, value |-> v]
  <2>1. f \in Ups /\ f.kind # "state"
    BY Numbers DEF Ups, Types
  <2> QED
    BY <1>2, <2>1 DEF Tell
<1>3. ASSUME NEW d \in Switches \cup {SHORTCUT}, NEW v \in Values,
             Tell([kind |-> "ctrl_up", id |-> d, value |-> v]), UNCHANGED light
      PROVE  \E f \in Ups : f.kind # "state" /\ up' = Append(up, f) /\ UNCHANGED light
  <2> DEFINE f == [kind |-> "ctrl_up", id |-> d, value |-> v]
  <2>1. f \in Ups /\ f.kind # "state"
    BY Numbers DEF Ups
  <2> QED
    BY <1>3, <2>1 DEF Tell
<1>4. ASSUME NEW l \in Lights, NEW c \in Channel, light' = [light EXCEPT ![l][c] = 1 - @],
             Tell(Report(l, light'[l]))
      PROVE  /\ light' \in [Lights -> Vector]
             /\ \A m \in Lights : m # l => light'[m] = light[m]
             /\ Report(l, light'[l]) \in Ups
             /\ up' = Append(up, Report(l, light'[l]))
  <2>1. light \in [Lights -> Vector] /\ light[l] \in Vector
    BY <1>1 DEF TypeInv
  <2>2. [light[l] EXCEPT ![c] = 1 - light[l][c]] \in Vector
    <3>1. 1 - light[l][c] \in Bits
      BY <2>1 DEF Vector, Bits
    <3> QED
      BY <2>1, <3>1 DEF Vector
  <2>3. light' = [light EXCEPT ![l] = [light[l] EXCEPT ![c] = 1 - light[l][c]]]
    BY <1>4
  <2>4. /\ light' \in [Lights -> Vector] /\ light'[l] \in Vector
        /\ \A m \in Lights : m # l => light'[m] = light[m]
    BY <2>1, <2>2, <2>3
  <2>5. Report(l, light'[l]) \in Ups
    BY <2>4 DEF Report, Ups
  <2> QED
    BY <1>4, <2>4, <2>5 DEF Tell
<1> QED
  BY <1>1, <1>2, <1>3, <1>4 DEF Event

LEMMA DeliverEffect ==
  ASSUME TInv, Deliver
  PROVE  /\ UNCHANGED <<device, json_str, build, s, h, page, bound, spoken, lost, torn>>
         /\ down # << >> /\ down' = Tail(down) /\ Head(down).id \in Lights
         /\ light' \in [Lights -> Vector]
         /\ \A m \in Lights : m # Head(down).id => light'[m] = light[m]
         /\ Report(Head(down).id, light'[Head(down).id]) \in Ups
         /\ up' = Append(up, Report(Head(down).id, light'[Head(down).id]))
<1>1. /\ TypeInv /\ UNCHANGED <<device, json_str, build, s, h, page, bound, spoken, lost, torn>>
      /\ down # << >> /\ down' = Tail(down)
  BY DEF TInv, Deliver, past
<1> DEFINE l == Head(down).id  o == Head(down).ctrl
<1>2. l \in Lights /\ o \in Orders
  <2>1. Head(down) \in Downs
    BY <1>1 DEF TypeInv
  <2> QED
    BY <2>1 DEF Downs
<1>3. /\ light' = [light EXCEPT ![l] = [c \in Channel |-> IF o[c] = 2 THEN @[c] ELSE o[c]]]
      /\ up' = Append(up, Report(l, light'[l]))
  BY DEF Deliver
<1> HIDE DEF l, o
<1> DEFINE v == [c \in Channel |-> IF o[c] = 2 THEN light[l][c] ELSE o[c]]
<1>4. light \in [Lights -> Vector] /\ light[l] \in Vector
  BY <1>1, <1>2 DEF TypeInv
<1>5. v \in Vector
  <2>1. \A c \in Channel : o[c] \in 0 .. 2 /\ light[l][c] \in Bits
    BY <1>2, <1>4 DEF Orders, Vector
  <2>2. \A c \in Channel : (IF o[c] = 2 THEN light[l][c] ELSE o[c]) \in Bits
    BY <2>1 DEF Bits
  <2> QED
    BY <2>2 DEF Vector
<1>6. light' = [light EXCEPT ![l] = v]
  BY <1>3
<1> HIDE DEF v
<1>7. /\ light' \in [Lights -> Vector] /\ light'[l] \in Vector
      /\ \A m \in Lights : m # l => light'[m] = light[m]
  BY <1>2, <1>4, <1>5, <1>6
<1>8. Report(l, light'[l]) \in Ups
  BY <1>2, <1>7 DEF Report, Ups
<1> QED
  BY <1>1, <1>2, <1>3, <1>7, <1>8 DEF l

\* Steps of the devices keep the types.
LEMMA AirT ==
  ASSUME TInv, UNCHANGED <<device, json_str, build, s, h, page, bound, spoken, torn>>,
         up' \in Seq(Ups), down' \in Seq(Downs), light' \in [Lights -> Vector], lost' \in Nat
  PROVE  TInv'
<1>1. TypeInv'
  BY DEF TInv, TypeInv
<1>2. Places'
  BY DEF TInv, Places
<1> QED
  BY <1>1, <1>2 DEF TInv

LEMMA EventT == ASSUME TInv, Event PROVE TInv'
<1>1. TypeInv /\ UNCHANGED <<device, json_str, build, s, h, page, down, bound, spoken, lost, torn>>
  BY EventEffect DEF TInv
<1>2. up \in Seq(Ups) /\ light \in [Lights -> Vector] /\ down' \in Seq(Downs) /\ lost' \in Nat
  BY <1>1 DEF TypeInv
<1>3. \A f \in Ups : Append(up, f) \in Seq(Ups)
  BY <1>2
<1>4. up' \in Seq(Ups) /\ light' \in [Lights -> Vector]
  BY <1>2, <1>3, EventEffect
<1> QED
  BY <1>1, <1>2, <1>4, AirT

LEMMA DeliverT == ASSUME TInv, Deliver PROVE TInv'
<1>1. /\ TypeInv /\ UNCHANGED <<device, json_str, build, s, h, page, bound, spoken, lost, torn>>
      /\ light' \in [Lights -> Vector]
  BY DeliverEffect DEF TInv
<1>2. up \in Seq(Ups) /\ down \in Seq(Downs) /\ lost' \in Nat
  BY <1>1 DEF TypeInv
<1>3. \A f \in Ups : Append(up, f) \in Seq(Ups)
  BY <1>2
<1>4. up' \in Seq(Ups)
  BY <1>3, DeliverEffect
<1>5. down' \in Seq(Downs)
  <2>1. down # << >> /\ down' = Tail(down)
    BY DeliverEffect
  <2> QED
    BY <1>2, <2>1
<1> QED
  BY <1>1, <1>2, <1>4, <1>5, AirT

LEMMA LoseT == ASSUME TInv, Lose PROVE TInv'
<1>1. /\ TypeInv /\ down # << >> /\ down' = Tail(down) /\ lost' = lost + 1
      /\ UNCHANGED <<device, json_str, build, s, h, page, up, light, bound, spoken, torn>>
  BY DEF TInv, Lose
<1>2. down' \in Seq(Downs) /\ lost' \in Nat /\ up' \in Seq(Ups) /\ light' \in [Lights -> Vector]
  BY <1>1 DEF TypeInv
<1> QED
  BY <1>1, <1>2, AirT

LEMMA StutterT == ASSUME TInv, UNCHANGED vars PROVE TInv'
<1>1. TypeInv'
  BY DEF TInv, TypeInv, vars, air, past
<1>2. Places'
  BY DEF TInv, Places, vars, air, past
<1> QED
  BY <1>1, <1>2 DEF TInv

\* The steps of the gateway.
LEMMA Steps ==
  ASSUME Next
  PROVE  \/ \E t \in Threads : BuildEntry(t) \/ BuildEnd(t) \/ BuildCopy(t) \/ BuildRest(t)
         \/ Get \/ Post \/ Entry \/ ClearLights \/ SetLight \/ Compare \/ Store \/ Command
         \/ CtrlUp \/ ReadLights \/ SendLights \/ Register \/ SendState
         \/ Event \/ Deliver \/ Lose
BY Zenon DEF Next, Serial, Http, Main, Build, Threads

LEMMA NextT == ASSUME TInv, [Next]_vars PROVE TInv'
<1>1. CASE Next
  BY <1>1, Steps, BuildEntryT, BuildEndT, BuildCopyT, BuildRestT, GetT, PostT, EntryT, ClearT, SetLightT, CompareT, StoreT,
     CommandT, CtrlUpT, ReadLightsT, SendLightsT, RegisterT, SendStateT, EventT, DeliverT, LoseT, Zenon
<1>2. CASE UNCHANGED vars
  BY <1>2, StutterT
<1> QED
  BY <1>1, <1>2

\* In every state the table has no device twice and each thread works on an
\* entry that is in it.
THEOREM SpecTInv == Spec => []TInv
<1>1. Init => TInv
  BY InitTInv
<1>2. TInv /\ [Next]_vars => TInv'
  BY NextT
<1> QED
  BY <1>1, <1>2, PTL DEF Spec

-----------------------------------------------------------------------------
(* ListParses: a list under construction has one entry for every turn and  *)
(* is closed by the last one, unless a device was added behind its end;    *)
(* and as long as the last strcpy() did not begin inside another one, at   *)
(* most one thread is in its strcpy(), of the text json_str begins with.   *)

\* A text that json_str may rest with.
Good(x) == x.list # << >> /\ x.late = 0 => x.ok = 1

\* build_json() of a thread, with a table of n entries.
Formed(b, n) ==
  /\ b.pc = "loop" /\ b.late = 0 =>
       /\ b.k \in 1 .. n+1 /\ Len(b.list) = b.k - 1 /\ b.bad = 0
       /\ b.shut = 1 <=> b.k > 1 /\ b.k = n+1
  /\ b.pc \in {"copy", "half"} => Good(b.text)

Rests == \A t \in Threads : build[t].pc # "half"

Single ==
  torn = 0 =>
    /\ Rests => json_str[1] = json_str[2]
    /\ \A t \in Threads : build[t].pc = "half" =>
         json_str[1] = build[t].text /\ \A u \in Threads : build[u].pc = "half" => u = t

Parse ==
  /\ \A t \in Threads : Formed(build[t], Len(device))
  /\ Good(json_str[1]) /\ Single

LEMMA BeginFormed == \A n \in Nat : Formed(Begin, n)
BY DEF Begin, Formed

LEMMA NoBuildFormed == \A n \in Nat : Formed(NoBuild, n)
BY DEF NoBuild, Formed

\* Steps that copy nothing.
LEMMA ParseKeep ==
  ASSUME Parse, UNCHANGED <<json_str, torn>>,
         \A t \in Threads : Formed(build'[t], Len(device')),
         \A t \in Threads : build'[t] = build[t] \/ (build[t].pc # "half" /\ build'[t].pc # "half")
  PROVE  Parse'
<1>1. \A t \in Threads : build'[t].pc = "half" <=> build[t].pc = "half"
  OBVIOUS
<1>2. Single'
  BY <1>1 DEF Parse, Single, Rests
<1> QED
  BY <1>2 DEF Parse

LEMMA InitParse == Init => Parse
<1> SUFFICES ASSUME Init PROVE Parse
  OBVIOUS
<1>1. Len(device) \in Nat /\ json_str[1] = NoText /\ json_str[2] = NoText
  BY DEF Init
<1>2. \A t \in Threads : build[t] \in {Begin, NoBuild}
  BY DEF Init
<1>3. \A t \in Threads : Formed(build[t], Len(device))
  BY <1>1, <1>2, BeginFormed, NoBuildFormed
<1>4. Rests
  BY <1>2 DEF Rests, Begin, NoBuild
<1>5. Good(NoText)
  BY DEF Good, NoText
<1> QED
  BY <1>1, <1>3, <1>4, <1>5 DEF Parse, Single, Rests

\* One thread's build_json() goes on, outside its strcpy().
LEMMA BuildingParse ==
  ASSUME TInv, Parse, NEW t \in Threads, NEW g, build' = [build EXCEPT ![t] = g],
         Formed(g, Len(device)), build[t].pc # "half", g.pc # "half",
         UNCHANGED <<json_str, torn>>, Len(device') = Len(device)
  PROVE  Parse'
<1>1. build \in [Threads -> Builds]
  BY DEF TInv, TypeInv
<1>2. \A u \in Threads : build'[u] = build[u] \/ (u = t /\ build'[u] = g)
  BY <1>1
<1>3. \A u \in Threads : Formed(build'[u], Len(device'))
  BY <1>2 DEF Parse
<1> QED
  BY <1>2, <1>3, ParseKeep

LEMMA BuildEntryParse == ASSUME TInv, Parse, NEW t \in Threads, BuildEntry(t) PROVE Parse'
<1> DEFINE b == build[t]  n == Len(device)
           g == [b EXCEPT !.k = @ + 1, !.list = Append(@, device[b.k]),
                          !.shut = Shut(b.k), !.bad = IF b.shut = 1 THEN 1 ELSE @]
<1>1. /\ TypeInv /\ b.pc = "loop" /\ b.k \in 1 .. n /\ n \in Nat /\ Formed(b, n)
      /\ build' = [build EXCEPT ![t] = g] /\ UNCHANGED <<device, json_str, torn>>
  BY DEF TInv, TypeInv, BuildEntry, past, Parse
<1>2. b \in [pc : {"loop"}, k : Nat \ {0}, list : Seq(Entries), shut : Bits, bad : Bits, late : Bits]
  <2>1. b \in Builds
    BY <1>1, BuildPlace
  <2> QED
    BY <1>1, <2>1 DEF Builds
<1>3. /\ g.pc = "loop" /\ g.late = b.late /\ g.k = b.k + 1 /\ g.shut = Shut(b.k)
      /\ g.list = Append(b.list, device[b.k]) /\ g.bad = IF b.shut = 1 THEN 1 ELSE b.bad
  <2> HIDE DEF b
  <2> QED
    BY <1>2
<1>4. b.list \in Seq(Entries) /\ b.k \in Nat
  BY <1>2
<1> HIDE DEF g
<1>5. ASSUME b.late = 0
      PROVE  /\ g.k \in 1 .. n+1 /\ Len(g.list) = g.k - 1 /\ g.bad = 0
             /\ g.shut = 1 <=> g.k > 1 /\ g.k = n+1
  <2>1. b.bad = 0 /\ Len(b.list) = b.k - 1 /\ b.shut # 1
    BY <1>1, <1>4, <1>5 DEF Formed
  <2>2. Len(g.list) = Len(b.list) + 1
    BY <1>3, <1>4
  <2>3. g.shut = 1 <=> b.k = n
    BY <1>1, <1>3, <1>4 DEF Shut
  <2>4. g.bad = 0
    BY <1>3, <2>1
  <2> HIDE DEF b, n
  <2> QED
    BY <1>1, <1>3, <1>4, <2>1, <2>2, <2>3, <2>4
<1>6. Formed(g, n)
  BY <1>3, <1>5 DEF Formed
<1>7. b.pc # "half" /\ g.pc # "half"
  BY <1>1, <1>3
<1> QED
  BY <1>1, <1>6, <1>7, BuildingParse

LEMMA BuildEndParse == ASSUME TInv, Parse, NEW t \in Threads, BuildEnd(t) PROVE Parse'
<1> DEFINE b == build[t]  n == Len(device)
           x == [list |-> b.list, ok |-> IF b.shut = 1 /\ b.bad = 0 THEN 1 ELSE 0, late |-> b.late]
           g == [pc |-> "copy", text |-> x]
<1>1. /\ TypeInv /\ b.pc = "loop" /\ b.k > n /\ n \in Nat /\ Formed(b, n)
      /\ build' = [build EXCEPT ![t] = g] /\ UNCHANGED <<device, json_str, torn>>
  BY DEF TInv, TypeInv, BuildEnd, past, Parse
<1>2. b.list \in Seq(Entries) /\ b.k \in Nat
  BY <1>1, BuildPlace
<1>3. ASSUME b.list # << >>, b.late = 0 PROVE b.shut = 1 /\ b.bad = 0
  <2>1. /\ b.k \in 1 .. n+1 /\ Len(b.list) = b.k - 1 /\ b.bad = 0
        /\ b.shut = 1 <=> b.k > 1 /\ b.k = n+1
    BY <1>1, <1>3 DEF Formed
  <2>2. Len(b.list) # 0 /\ Len(b.list) \in Nat
    BY <1>2, <1>3
  <2> HIDE DEF b, n
  <2> QED
    BY <1>1, <1>2, <2>1, <2>2
<1>4. x.list = b.list /\ x.late = b.late /\ (b.shut = 1 /\ b.bad = 0 => x.ok = 1)
  OBVIOUS
<1>5. Good(x)
  <2> HIDE DEF x
  <2> QED
    BY <1>3, <1>4 DEF Good
<1>6. g.pc = "copy" /\ g.text = x
  OBVIOUS
<1> HIDE DEF g, x
<1>7. Formed(g, n) /\ g.pc # "half"
  BY <1>5, <1>6 DEF Formed
<1>8. build[t].pc # "half" /\ Len(device') = Len(device)
  BY <1>1
<1> QED
  BY <1>1, <1>7, <1>8, BuildingParse

LEMMA BuildCopyParse == ASSUME TInv, Parse, NEW t \in Threads, BuildCopy(t) PROVE Parse'
<1> DEFINE x == build[t].text  g == [pc |-> "half", text |-> x]
<1>1. /\ build \in [Threads -> Builds] /\ build[t].pc = "copy" /\ Formed(build[t], Len(device))
      /\ json_str'[1] = x /\ build' = [build EXCEPT ![t] = g] /\ device' = device
      /\ torn' = (IF \E u \in Threads : build[u].pc = "half" THEN 1 ELSE 0)
  BY CopyEffect DEF TInv, TypeInv, Parse
<1>2. Good(x)
  BY <1>1 DEF Formed
<1>3. g.pc = "half" /\ g.text = x /\ Formed(g, Len(device))
  BY <1>2 DEF Formed
<1> HIDE DEF g, x
<1>4. build'[t] = g /\ \A u \in Threads : u # t => build'[u] = build[u]
  BY <1>1
<1>5. \A u \in Threads : Formed(build'[u], Len(device'))
  BY <1>1, <1>3, <1>4 DEF Parse
<1>6. Single'
  <2> SUFFICES ASSUME torn' = 0
               PROVE  /\ ~ Rests'
                      /\ \A u \in Threads : build'[u].pc = "half" => json_str'[1] = build'[u].text /\ u = t
    BY DEF Single
  <2>1. \A u \in Threads : build[u].pc # "half"
    BY <1>1
  <2>2. \A u \in Threads : build'[u].pc = "half" => u = t
    BY <1>4, <2>1
  <2>3. ~ Rests'
    BY <1>3, <1>4 DEF Rests
  <2> QED
    BY <1>1, <1>3, <1>4, <2>2, <2>3
<1> QED
  BY <1>1, <1>2, <1>5, <1>6 DEF Parse

LEMMA BuildRestParse == ASSUME TInv, Parse, NEW t \in Threads, BuildRest(t) PROVE Parse'
<1>1. /\ build \in [Threads -> Builds] /\ build[t].pc = "half" /\ Len(device) \in Nat
      /\ json_str'[1] = json_str[1] /\ json_str'[2] = build[t].text
      /\ build' = [build EXCEPT ![t] = NoBuild] /\ UNCHANGED <<device, torn>>
  BY RestEffect DEF TInv, TypeInv
<1>2. build'[t] = NoBuild /\ \A u \in Threads : u # t => build'[u] = build[u]
  BY <1>1
<1>3. \A u \in Threads : Formed(build'[u], Len(device'))
  BY <1>1, <1>2, NoBuildFormed DEF Parse
<1>4. Single'
  <2> SUFFICES ASSUME torn = 0
               PROVE  json_str'[1] = json_str'[2] /\ \A u \in Threads : build'[u].pc # "half"
    BY <1>1 DEF Single
  <2>1. json_str[1] = build[t].text /\ \A u \in Threads : build[u].pc = "half" => u = t
    BY <1>1 DEF Parse, Single
  <2>2. NoBuild.pc # "half"
    BY DEF NoBuild
  <2> QED
    BY <1>1, <1>2, <2>1, <2>2
<1>5. Good(json_str'[1])
  BY <1>1 DEF Parse
<1> QED
  BY <1>3, <1>4, <1>5 DEF Parse

\* A list whose loop is not over when the table grows.
LEMMA GrowFormed ==
  ASSUME TypeInv, NEW b \in Builds, Formed(b, Len(device)), NEW m \in Nat,
         m = Len(device) \/ m = Len(device) + 1
  PROVE  Formed(Late(b), m)
<1>1. Len(device) \in Nat
  BY DEF TypeInv
<1>2. CASE b.pc # "loop"
  BY <1>2, LateFacts DEF Formed
<1>3. CASE b.pc = "loop"
  <2>1. Late(b).pc = "loop"
    BY <1>3, LateFacts
  <2>2. ASSUME Late(b).late = 0
        PROVE  /\ Late(b).k \in 1 .. m+1 /\ Len(Late(b).list) = Late(b).k - 1 /\ Late(b).bad = 0
               /\ Late(b).shut = 1 <=> Late(b).k > 1 /\ Late(b).k = m+1
    <3>1. Late(b) = b /\ ~ (b.k > Len(device) /\ b.k > 1)
      BY <1>3, <2>2, LateFacts
    <3>2. /\ b.k \in 1 .. Len(device)+1 /\ Len(b.list) = b.k - 1 /\ b.bad = 0
          /\ b.shut = 1 <=> b.k > 1 /\ b.k = Len(device)+1
      BY <1>3, <2>2, <3>1 DEF Formed
    <3>3. b.shut # 1 /\ b.k \in 1 .. m+1 /\ ~ (b.k > 1 /\ b.k = m+1)
      BY <1>1, <3>1, <3>2
    <3> QED
      BY <3>1, <3>2, <3>3
  <2> QED
    BY <2>1, <2>2 DEF Formed
<1> QED
  BY <1>2, <1>3

\* The serial thread begins a list, of a table that grew or not.
LEMMA RegisterParse == ASSUME TInv, Parse, Register PROVE Parse'
<1>1. /\ TypeInv /\ Places /\ s.pc = "idle" /\ UNCHANGED <<json_str, torn>>
      /\ build \in [Threads -> Builds] /\ Len(device) \in Nat
  BY RegisterEffect DEF TInv, TypeInv
<1>2. CASE UNCHANGED <<device, build, s>>
  BY <1>1, <1>2, ParseKeep DEF Parse
<1>3. CASE /\ \/ device' = device
              \/ \E e \in Entries : /\ device' = Append(device, e) /\ e.devid = 0 /\ e.light = {}
                                    /\ \A n \in 1 .. Len(device) : device[n].id # e.id
           /\ s' = [pc |-> "build"]
           /\ build' = [t \in Threads |-> IF t = "serial" THEN Begin ELSE Late(build[t])]
  <2>1. Len(device') \in Nat /\ (Len(device') = Len(device) \/ Len(device') = Len(device) + 1)
    <3>1. CASE device' = device
      BY <1>1, <3>1
    <3>2. CASE device' # device
      BY <1>1, <1>3, <3>2, AppendFacts
    <3> QED
      BY <3>1, <3>2
  <2>2. build["serial"].pc = "none" /\ Begin.pc = "loop"
    BY <1>1 DEF Places, Begin
  <2>3. ASSUME NEW t \in Threads
        PROVE  /\ Formed(build'[t], Len(device'))
               /\ build'[t] = build[t] \/ (build[t].pc # "half" /\ build'[t].pc # "half")
    <3>1. CASE t = "serial"
      <4>1. build'[t] = Begin
        BY <1>3, <3>1
      <4> QED
        BY <2>1, <2>2, <3>1, <4>1, BeginFormed
    <3>2. CASE t # "serial"
      <4>1. build'[t] = Late(build[t]) /\ build[t] \in Builds /\ Formed(build[t], Len(device))
        BY <1>1, <1>3, <3>2 DEF Parse
      <4>2. Formed(build'[t], Len(device'))
        BY <1>1, <2>1, <4>1, GrowFormed
      <4> QED
        BY <4>1, <4>2, LateFacts
    <3> QED
      BY <3>1, <3>2
  <2> QED
    BY <1>1, <2>3, ParseKeep
<1> QED
  BY <1>2, <1>3, RegisterEffect

\* A list begun by a thread, of the table as it is.
LEMMA BeginParse ==
  ASSUME TInv, Parse, UNCHANGED <<json_str, torn>>, Len(device') = Len(device), NEW t \in Threads,
         build[t].pc # "half", build' = [build EXCEPT ![t] = Begin]
  PROVE  Parse'
<1>1. Formed(Begin, Len(device)) /\ Begin.pc # "half"
  <2>1. Len(device) \in Nat
    BY DEF TInv, TypeInv
  <2> QED
    BY <2>1, BeginFormed DEF Begin
<1> HIDE DEF Begin
<1> QED
  BY <1>1, BuildingParse

LEMMA SendStateParse == ASSUME TInv, Parse, SendState PROVE Parse'
<1>1. UNCHANGED <<json_str, torn>> /\ s.pc = "idle"
  BY SendStateEffect
<1>2. build["serial"].pc # "half"
  BY <1>1 DEF TInv, Places
<1>3. \/ build' = [build EXCEPT !["serial"] = Begin] /\ Len(device') = Len(device)
      \/ build' = build /\ device' = device
  BY SendStateEffect DEF Stores
<1>4. CASE build' = build /\ device' = device
  BY <1>1, <1>4, ParseKeep DEF Parse
<1> QED
  BY <1>1, <1>2, <1>3, <1>4, BeginParse DEF Threads

\* The HTTP thread stores nothing while it builds a list.
Building == h.pc # "build" => build["http"].pc = "none"

LEMMA EntryParse == ASSUME TInv, Building, Parse, Entry PROVE Parse'
<1>1. UNCHANGED <<json_str, torn>> /\ h.pc = "entry"
  BY EntryRest DEF Entry
<1>2. build["http"].pc # "half"
  BY <1>1 DEF Building
<1>3. \/ build' = [build EXCEPT !["http"] = Begin] /\ device' = device
      \/ build' = build /\ Len(device') = Len(device)
  BY EntryEffect DEF Stores
<1>4. CASE build' = build /\ Len(device') = Len(device)
  BY <1>1, <1>4, ParseKeep DEF Parse
<1> QED
  BY <1>1, <1>2, <1>3, <1>4, BeginParse DEF Threads

LEMMA NextParse == ASSUME TInv, Building, Parse, [Next]_vars PROVE Parse'
<1>1. ASSUME ClearLights \/ SetLight \/ Store PROVE Parse'
  <2>1. UNCHANGED <<json_str, torn, build>>
    BY <1>1 DEF ClearLights, SetLight, Store, past
  <2>2. Len(device') = Len(device)
    BY <1>1, ClearEffect, SetLightEffect, StoreEffect DEF Stores
  <2> QED
    BY <2>1, <2>2, ParseKeep DEF Parse
<1>2. ASSUME \/ Get \/ Post \/ Compare \/ Command \/ CtrlUp \/ ReadLights \/ SendLights
             \/ Event \/ Deliver \/ Lose \/ UNCHANGED vars
      PROVE  Parse'
  <2>1. UNCHANGED <<json_str, torn, build, device>>
    BY <1>2 DEF Get, Post, Compare, Command, CtrlUp, ReadLights, SendLights, Event, Deliver, Lose,
                vars, past
  <2> QED
    BY <2>1, ParseKeep DEF Parse
<1> QED
  BY <1>1, <1>2, Steps, BuildEntryParse, BuildEndParse, BuildCopyParse, BuildRestParse, RegisterParse,
     EntryParse, SendStateParse, Zenon

LEMMA NextBuilding == ASSUME TInv, Building, [Next]_vars PROVE Building'
<1>1. build \in [Threads -> Builds] /\ "http" \in Threads
  BY DEF TInv, TypeInv, Threads
<1>2. ASSUME NEW t \in Threads, BuildEntry(t) \/ BuildEnd(t) \/ BuildCopy(t) PROVE Building'
  <2>1. h' = h /\ build[t].pc # "none" /\ (t # "http" => build'["http"] = build["http"])
    BY <1>1, <1>2 DEF BuildEntry, BuildEnd, BuildCopy
  <2> QED
    BY <2>1 DEF Building
<1>3. ASSUME NEW t \in Threads, BuildRest(t) PROVE Building'
  <2>1. CASE t = "http"
    <3>1. build'["http"] = NoBuild
      BY <1>1, <1>3, <2>1 DEF BuildRest
    <3> QED
      BY <3>1 DEF Building, NoBuild
  <2>2. CASE t # "http"
    BY <1>1, <1>3, <2>2 DEF BuildRest, Building
  <2> QED
    BY <2>1, <2>2
<1>4. ASSUME Register \/ SendState PROVE Building'
  <2>1. /\ h' = h
        /\ \/ build' = build \/ build' = [build EXCEPT !["serial"] = Begin]
           \/ build' = [t \in Threads |-> IF t = "serial" THEN Begin ELSE Late(build[t])]
    BY <1>4, RegisterEffect, SendStateEffect
  <2>2. build'["http"] = build["http"] \/ build'["http"] = Late(build["http"])
    BY <1>1, <2>1
  <2>3. build'["http"].pc = build["http"].pc
    BY <1>1, <2>2, LateFacts
  <2> QED
    BY <2>1, <2>3 DEF Building
<1>5. ASSUME Entry PROVE Building'
  <2>1. h.pc = "entry" /\ (h'.pc = "build" \/ build' = build)
    BY <1>5, EntryEffect DEF Entry
  <2> QED
    BY <2>1 DEF Building
<1>6. ASSUME \/ Get \/ Post \/ ClearLights \/ SetLight \/ Compare \/ Store \/ Command
             \/ CtrlUp \/ ReadLights \/ SendLights \/ Event \/ Deliver \/ Lose \/ UNCHANGED vars
      PROVE  Building'
  <2>1. build' = build /\ (h.pc # "build" \/ h' = h)
    BY <1>6 DEF Get, Post, ClearLights, SetLight, Compare, Store, Command, CtrlUp, ReadLights,
                SendLights, Event, Deliver, Lose, vars
  <2> QED
    BY <2>1 DEF Building
<1> QED
  BY <1>2, <1>3, <1>4, <1>5, <1>6, Steps, Zenon

LEMMA InitBuilding == Init => Building
BY DEF Init, Building, Threads, NoBuild

\* Between two copies the published list is one list and JSON, whichever thread
\* built it, unless the table was empty, two strcpy() overlapped, or a device was
\* added behind the end of this list while its loop went on.
THEOREM SpecListParses == Spec => []ListParses
<1>1. Init => TInv /\ Building /\ Parse
  BY InitTInv, InitBuilding, InitParse
<1>2. TInv /\ Building /\ Parse /\ [Next]_vars => TInv' /\ Building' /\ Parse'
  BY NextT, NextBuilding, NextParse
<1>3. Parse => ListParses
  BY DEF Parse, Single, Rests, Good, ListParses
<1> QED
  BY <1>1, <1>2, <1>3, PTL DEF Spec

-----------------------------------------------------------------------------
(* TableCurrent: the last report of a light that waits is true, and a      *)
(* light about which nothing is on its way, no report, no command and no   *)
(* state stored without its command, is in the table as it is.             *)

Reports(U, l)  == \E n \in 1 .. Len(U) : U[n].kind = "state" /\ U[n].id = l
Commands(D, l) == \E n \in 1 .. Len(D) : D[n].id = l

\* In the frames U the last report of every light has its states L.
LastTrue(U, L) ==
  \A n \in 1 .. Len(U) :
    /\ U[n].kind = "state"
    /\ \A m \in 1 .. Len(U) : m > n => ~ (U[m].kind = "state" /\ U[m].id = U[n].id)
    => U[n].state = L[U[n].id]

Quiet(l) ==
  /\ ~ Reports(up, l) /\ ~ Commands(down, l)
  /\ ~ (h.pc = "command" /\ device[h.i].id = l)

Agrees(l) == \A i \in 1 .. Len(device) : device[i].id = l => device[i].state = light[l]

Truth == LastTrue(up, light)
Known == \A l \in spoken : \E i \in 1 .. Len(device) : device[i].id = l
Fresh == lost = 0 => \A l \in spoken : Quiet(l) => Agrees(l)

\* Frames added behind and taken from the front.
LEMMA AppendCases ==
  ASSUME NEW S, NEW U \in Seq(S), NEW f \in S
  PROVE  /\ Len(Append(U, f)) = Len(U) + 1 /\ Len(U) \in Nat
         /\ Append(U, f)[Len(U) + 1] = f /\ Len(U) + 1 \in 1 .. Len(Append(U, f))
         /\ \A n \in 1 .. Len(U) : n \in 1 .. Len(Append(U, f)) /\ Append(U, f)[n] = U[n]
         /\ \A n \in 1 .. Len(Append(U, f)) : n \in 1 .. Len(U) \/ n = Len(U) + 1
<1>1. Len(U) \in Nat
  OBVIOUS
<1>2. \A k \in Nat : /\ k+1 \in 1 .. k+1
                     /\ \A n \in 1 .. k : n \in 1 .. k+1
                     /\ \A n \in 1 .. k+1 : n \in 1 .. k \/ n = k+1
  OBVIOUS
<1>3. /\ Len(Append(U, f)) = Len(U) + 1 /\ Append(U, f)[Len(U) + 1] = f
      /\ \A n \in 1 .. Len(U) : Append(U, f)[n] = U[n]
  OBVIOUS
<1> QED
  BY <1>1, <1>2, <1>3

LEMMA TailCases ==
  ASSUME NEW S, NEW U \in Seq(S), U # << >>
  PROVE  /\ Len(U) \in Nat /\ Len(Tail(U)) \in Nat /\ Len(Tail(U)) + 1 = Len(U)
         /\ 1 \in 1 .. Len(U) /\ U[1] = Head(U)
         /\ \A n \in 1 .. Len(Tail(U)) : n+1 \in 1 .. Len(U) /\ n+1 > 1 /\ Tail(U)[n] = U[n+1]
         /\ \A n \in 1 .. Len(U) : n = 1 \/ (n-1 \in 1 .. Len(Tail(U)) /\ Tail(U)[n-1] = U[n])
<1>1. /\ Len(U) \in Nat \ {0} /\ Len(Tail(U)) = Len(U) - 1 /\ Head(U) = U[1]
  OBVIOUS
<1>2. \A n \in 1 .. Len(U) - 1 : Tail(U)[n] = U[n+1]
  OBVIOUS
<1>3. \A k \in Nat \ {0} : /\ k-1 \in Nat /\ k-1+1 = k /\ 1 \in 1 .. k
                           /\ \A n \in 1 .. k-1 : n+1 \in 1 .. k /\ n+1 > 1
                           /\ \A n \in 1 .. k : n = 1 \/ (n-1 \in 1 .. k-1 /\ n-1+1 = n)
  OBVIOUS
<1>4. \A n \in 1 .. Len(U) : n = 1 \/ (n-1 \in 1 .. Len(Tail(U)) /\ Tail(U)[n-1] = U[n])
  <2> TAKE n \in 1 .. Len(U)
  <2>1. n = 1 \/ (n-1 \in 1 .. Len(U) - 1 /\ n-1+1 = n)
    BY <1>1, <1>3
  <2>2. \A k \in 1 .. Len(U) - 1 : \A m : k+1 = m => Tail(U)[k] = U[m]
    BY <1>2
  <2> QED
    BY <1>1, <2>1, <2>2, Zenon
<1> QED
  BY <1>1, <1>2, <1>3, <1>4

LEMMA AppendReports ==
  ASSUME NEW U \in Seq(Ups), NEW f \in Ups, NEW l
  PROVE  Reports(Append(U, f), l) <=> Reports(U, l) \/ (f.kind = "state" /\ f.id = l)
BY AppendCases DEF Reports

LEMMA TailReports ==
  ASSUME NEW U \in Seq(Ups), U # << >>, NEW l
  PROVE  Reports(U, l) <=> Reports(Tail(U), l) \/ (Head(U).kind = "state" /\ Head(U).id = l)
BY TailCases DEF Reports

LEMMA AppendCommands ==
  ASSUME NEW D \in Seq(Downs), NEW x \in Downs, NEW l
  PROVE  Commands(Append(D, x), l) <=> Commands(D, l) \/ x.id = l
BY AppendCases DEF Commands

LEMMA TailCommands ==
  ASSUME NEW D \in Seq(Downs), D # << >>, NEW l
  PROVE  Commands(D, l) <=> Commands(Tail(D), l) \/ Head(D).id = l
BY TailCases DEF Commands

\* The last report is that of the first frame, or it waits behind it.
LEMMA TailTruth ==
  ASSUME NEW U \in Seq(Ups), U # << >>, NEW L, LastTrue(U, L)
  PROVE  /\ LastTrue(Tail(U), L)
         /\ Head(U).kind = "state" /\ ~ Reports(Tail(U), Head(U).id)
              => Head(U).state = L[Head(U).id]
<1>1. ASSUME NEW n \in 1 .. Len(Tail(U)), Tail(U)[n].kind = "state",
             \A m \in 1 .. Len(Tail(U)) :
               m > n => ~ (Tail(U)[m].kind = "state" /\ Tail(U)[m].id = Tail(U)[n].id)
      PROVE  Tail(U)[n].state = L[Tail(U)[n].id]
  <2>1. n+1 \in 1 .. Len(U) /\ Tail(U)[n] = U[n+1]
    BY TailCases
  <2>2. ASSUME NEW m \in 1 .. Len(U), m > n+1
        PROVE  ~ (U[m].kind = "state" /\ U[m].id = U[n+1].id)
    <3>1. m # 1 /\ m-1 > n
      BY <2>2, TailCases
    <3>2. m-1 \in 1 .. Len(Tail(U)) /\ Tail(U)[m-1] = U[m]
      BY <3>1, TailCases
    <3> QED
      BY <1>1, <2>1, <3>1, <3>2
  <2> QED
    BY <1>1, <2>1, <2>2 DEF LastTrue
<1>2. ASSUME Head(U).kind = "state", ~ Reports(Tail(U), Head(U).id)
      PROVE  Head(U).state = L[Head(U).id]
  <2>1. 1 \in 1 .. Len(U) /\ U[1] = Head(U)
    BY TailCases
  <2>2. ASSUME NEW m \in 1 .. Len(U), m > 1 PROVE ~ (U[m].kind = "state" /\ U[m].id = U[1].id)
    <3>1. m-1 \in 1 .. Len(Tail(U)) /\ Tail(U)[m-1] = U[m]
      BY <2>2, TailCases
    <3> QED
      BY <1>2, <2>1, <3>1 DEF Reports
  <2> QED
    BY <1>2, <2>1, <2>2 DEF LastTrue
<1> QED
  BY <1>1, <1>2 DEF LastTrue

\* Frame f may be added to U when the lights go from L to M: it is no report, or
\* true, and every other light with a report in U is as it was.
Tells(U, f, L, M) ==
  /\ f.kind = "state" => f.state = M[f.id]
  /\ \A n \in 1 .. Len(U) :
       U[n].kind = "state" => M[U[n].id] = L[U[n].id] \/ (f.kind = "state" /\ f.id = U[n].id)

LEMMA AppendTruth ==
  ASSUME NEW U \in Seq(Ups), NEW f \in Ups, NEW L, NEW M, LastTrue(U, L), Tells(U, f, L, M)
  PROVE  LastTrue(Append(U, f), M)
<1> DEFINE V == Append(U, f)
<1> SUFFICES ASSUME NEW n \in 1 .. Len(V), V[n].kind = "state",
                    \A m \in 1 .. Len(V) : m > n => ~ (V[m].kind = "state" /\ V[m].id = V[n].id)
             PROVE  V[n].state = M[V[n].id]
  BY DEF LastTrue
<1>1. /\ Len(V) = Len(U) + 1 /\ Len(U) \in Nat
      /\ V[Len(U) + 1] = f /\ Len(U) + 1 \in 1 .. Len(V)
      /\ \A m \in 1 .. Len(U) : m \in 1 .. Len(V) /\ V[m] = U[m]
      /\ n \in 1 .. Len(U) \/ n = Len(U) + 1
  BY AppendCases
<1> HIDE DEF V
<1>2. CASE n = Len(U) + 1
  BY <1>1, <1>2 DEF Tells
<1>3. CASE n \in 1 .. Len(U)
  <2>1. Len(U) + 1 > n /\ V[n] = U[n]
    BY <1>1, <1>3
  <2>2. ~ (f.kind = "state" /\ f.id = U[n].id)
    BY <1>1, <2>1
  <2>3. \A m \in 1 .. Len(U) : m > n => ~ (U[m].kind = "state" /\ U[m].id = U[n].id)
    BY <1>1, <2>1
  <2>4. U[n].state = L[U[n].id]
    BY <1>3, <2>1, <2>3 DEF LastTrue
  <2> QED
    BY <1>3, <2>1, <2>2, <2>4 DEF Tells
<1> QED
  BY <1>1, <1>2, <1>3

FInv == Truth /\ Known /\ Fresh

LEMMA InitFInv == Init => FInv
BY DEF Init, FInv, Truth, LastTrue, Known, Fresh

\* A step that makes no light quiet and changes no state in the table or in a
\* light keeps what is known.
LEMMA FreshKeep ==
  ASSUME Known, Fresh, UNCHANGED <<light, spoken, lost>>,
         \A i \in 1 .. Len(device) : /\ i \in 1 .. Len(device') /\ device'[i].id = device[i].id
                                     /\ device'[i].state = device[i].state,
         \A i \in 1 .. Len(device') : i \notin 1 .. Len(device) => device'[i].id \notin spoken,
         \A l \in spoken : Quiet(l)' => Quiet(l)
  PROVE  Known' /\ Fresh'
<1>1. Known'
  BY DEF Known
<1>2. ASSUME NEW l \in spoken, Agrees(l) PROVE Agrees(l)'
  BY <1>2 DEF Agrees
<1>3. Fresh'
  BY <1>2 DEF Fresh
<1> QED
  BY <1>1, <1>3

\* Steps of the HTTP thread about a binding or between channels, and of the
\* serial thread in a press, store no state.
LEMMA QuietKeep ==
  ASSUME UNCHANGED <<up, down>>, Len(device') = Len(device), h.pc # "command" \/ h' = h,
         Places,
         \A i \in 1 .. Len(device) : device'[i].id = device[i].id
  PROVE  \A l : Quiet(l)' => Quiet(l)
<1>1. h.pc = "command" => h.i \in 1 .. Len(device)
  BY DEF Places, HasEntry
<1> QED
  BY <1>1 DEF Quiet

LEMMA BindingF ==
  ASSUME TInv, FInv, UNCHANGED <<up, down, light, spoken, lost>>, h.pc # "command" \/ h' = h,
         \/ device' = device
         \/ \E i, g : Stores(i, g) /\ g.state = device[i].state
  PROVE  FInv'
<1>1. /\ Len(device') = Len(device)
      /\ \A i \in 1 .. Len(device) : device'[i].id = device[i].id /\ device'[i].state = device[i].state
  <2>1. CASE device' = device
    BY <2>1
  <2>2. ASSUME NEW i, NEW g, Stores(i, g), g.state = device[i].state
        PROVE  /\ Len(device') = Len(device)
               /\ \A n \in 1 .. Len(device) : device'[n].id = device[n].id /\ device'[n].state = device[n].state
    BY <2>2 DEF Stores
  <2> QED
    BY <2>1, <2>2
<1>2. \A l : Quiet(l)' => Quiet(l)
  BY <1>1, QuietKeep DEF TInv
<1>3. Known' /\ Fresh'
  BY <1>1, <1>2, FreshKeep DEF FInv
<1> QED
  BY <1>3 DEF FInv, Truth

LEMMA EntryF == ASSUME TInv, FInv, Entry PROVE FInv'
<1>1. UNCHANGED <<up, down, light, spoken, lost>> /\ h.pc # "command"
  BY EntryRest DEF Entry
<1>2. \/ device' = device
      \/ \E n \in 1 .. Len(device) : \E x \in Targets : Stores(n, [device[n] EXCEPT !.devid = x])
  <2>1. \A e \in Entries : e.devid \in Targets
    BY DEF Entries
  <2> QED
    BY <2>1, EntryEffect
<1>3. \A n \in 1 .. Len(device) : \A x \in Targets :
        [device[n] EXCEPT !.devid = x].state = device[n].state
  BY EntryType, EntryStore DEF TInv
<1> QED
  BY <1>1, <1>2, <1>3, BindingF

LEMMA ClearF == ASSUME TInv, FInv, ClearLights PROVE FInv'
<1>1. UNCHANGED <<up, down, light, spoken, lost>> /\ h.pc # "command"
  BY DEF ClearLights, air, past
<1>2. Stores(h.i, [device[h.i] EXCEPT !.light = {}])
  BY ClearEffect
<1>3. [device[h.i] EXCEPT !.light = {}].state = device[h.i].state
  BY <1>2, EntryType, EntryStore DEF Stores, TInv
<1> QED
  BY <1>1, <1>2, <1>3, BindingF

LEMMA SetLightF == ASSUME TInv, FInv, SetLight PROVE FInv'
<1>1. UNCHANGED <<up, down, light, spoken, lost>> /\ h.pc # "command"
  BY DEF SetLight, air, past
<1>2. \/ device' = device
      \/ \E x : Stores(h.i, [device[h.i] EXCEPT !.light = x])
  BY SetLightEffect
<1>3. ASSUME NEW x, Stores(h.i, [device[h.i] EXCEPT !.light = x])
      PROVE  [device[h.i] EXCEPT !.light = x].state = device[h.i].state
  <2>1. device[h.i] \in Entries
    BY <1>3, EntryType DEF Stores, TInv
  <2> QED
    BY <2>1 DEF Entries
<1> QED
  BY <1>1, <1>2, <1>3, BindingF

\* A state stored from a post: its light is not quiet before the command is sent.
LEMMA StoreF == ASSUME TInv, FInv, Store PROVE FInv'
<1>1. /\ h.pc = "store" /\ UNCHANGED <<up, down, light, spoken, lost>> /\ TypeInv /\ Places
      /\ h'.pc = "command" /\ h'.i = h.i
  BY StoreEffect DEF TInv
<1>2. PICK g : Stores(h.i, g)
  BY StoreEffect
<1>3. /\ Len(device') = Len(device) /\ h.i \in 1 .. Len(device)
      /\ \A n \in 1 .. Len(device) : device'[n].id = device[n].id
      /\ \A n \in 1 .. Len(device) : n # h.i => device'[n] = device[n]
  BY <1>2 DEF Stores
<1>4. ASSUME NEW l \in spoken, Quiet(l)' PROVE Quiet(l) /\ (Agrees(l) => Agrees(l)')
  <2>1. Quiet(l)
    BY <1>1, <1>4 DEF Quiet
  <2>2. device[h.i].id # l
    BY <1>1, <1>3, <1>4 DEF Quiet
  <2>3. ASSUME Agrees(l), NEW n \in 1 .. Len(device'), device'[n].id = l
        PROVE  device'[n].state = light'[l]
    BY <1>1, <1>3, <2>2, <2>3 DEF Agrees
  <2> QED
    BY <2>1, <2>3 DEF Agrees
<1>5. Known'
  BY <1>1, <1>3 DEF FInv, Known
<1>6. Fresh'
  BY <1>1, <1>4 DEF FInv, Fresh
<1> QED
  BY <1>1, <1>5, <1>6 DEF FInv, Truth

\* The command that goes with it is on its way when the thread goes on.
LEMMA CommandF == ASSUME TInv, FInv, Command PROVE FInv'
<1>1. /\ h.pc = "command" /\ UNCHANGED <<device, up, light, spoken, lost>> /\ TypeInv /\ Places
  BY CommandEffect DEF TInv
<1>2. PICK c \in Orders : Ctrl(device[h.i].id, c)
  BY CommandEffect
<1>3. down \in Seq(Downs) /\ spoken \subseteq Lights
  BY <1>1 DEF TypeInv
<1>4. \/ /\ device[h.i].id \in Lights /\ [id |-> device[h.i].id, ctrl |-> c] \in Downs
         /\ down' = Append(down, [id |-> device[h.i].id, ctrl |-> c])
      \/ device[h.i].id \notin Lights /\ down' = down
  BY <1>1, <1>2, CtrlEffect
<1>5. ASSUME NEW l \in spoken, Quiet(l)' PROVE Quiet(l)
  <2>1. CASE device[h.i].id \in Lights
    <3> DEFINE x == [id |-> device[h.i].id, ctrl |-> c]
    <3>1. x \in Downs /\ down' = Append(down, x) /\ x.id = device[h.i].id
      BY <1>4, <2>1
    <3> HIDE DEF x
    <3>2. ~ Commands(down, l) /\ device[h.i].id # l
      BY <1>3, <1>5, <3>1, AppendCommands DEF Quiet
    <3> QED
      BY <1>1, <1>5, <3>2 DEF Quiet
  <2>2. CASE device[h.i].id \notin Lights
    BY <1>1, <1>3, <1>4, <1>5, <2>2 DEF Quiet
  <2> QED
    BY <2>1, <2>2
<1>6. Known' /\ Fresh'
  BY <1>1, <1>5, FreshKeep DEF FInv
<1> QED
  BY <1>1, <1>6 DEF FInv, Truth

\* A command more, of the serial thread.
LEMMA MoreCommands ==
  ASSUME TypeInv, NEW l, ~ Commands(down', l),
         down' = down \/ \E d \in Lights, c \in Orders : down' = Append(down, [id |-> d, ctrl |-> c])
  PROVE  ~ Commands(down, l)
<1>1. ASSUME NEW d \in Lights, NEW c \in Orders, down' = Append(down, [id |-> d, ctrl |-> c])
      PROVE  ~ Commands(down, l)
  <2> DEFINE x == [id |-> d, ctrl |-> c]
  <2>1. x \in Downs /\ down' = Append(down, x)
    BY <1>1 DEF Downs
  <2> HIDE DEF x
  <2> QED
    BY <2>1, AppendCommands DEF TypeInv
<1> QED
  BY <1>1

LEMMA CtrlUpF == ASSUME TInv, FInv, CtrlUp PROVE FInv'
<1>1. /\ UNCHANGED <<device, h, light, spoken, lost>> /\ TypeInv /\ up # << >> /\ up \in Seq(Ups)
      /\ Head(up).kind = "ctrl_up" /\ up' = Tail(up)
  BY CtrlUpEffect DEF TInv, TypeInv
<1>2. ASSUME NEW l \in spoken, Quiet(l)' PROVE Quiet(l)
  <2>1. ~ Commands(down, l)
    BY <1>1, <1>2, CtrlUpEffect, MoreCommands DEF Quiet
  <2>2. ~ Reports(up, l)
    BY <1>1, <1>2, TailReports DEF Quiet
  <2> QED
    BY <1>1, <1>2, <2>1, <2>2 DEF Quiet
<1>3. Known' /\ Fresh'
  BY <1>1, <1>2, FreshKeep DEF FInv
<1>4. Truth'
  BY <1>1, TailTruth DEF FInv, Truth
<1> QED
  BY <1>3, <1>4 DEF FInv

LEMMA SendLightsF == ASSUME TInv, FInv, SendLights PROVE FInv'
<1>1. UNCHANGED <<device, h, up, light, spoken, lost>> /\ TypeInv
  BY SendLightsEffect DEF TInv
<1>2. down' = down \/ \E d \in Lights, c \in Orders : down' = Append(down, [id |-> d, ctrl |-> c])
  BY <1>1, SendLightsEffect, CtrlEffect
<1>3. ASSUME NEW l \in spoken, Quiet(l)' PROVE Quiet(l)
  <2>1. ~ Commands(down, l)
    BY <1>1, <1>2, <1>3, MoreCommands DEF Quiet
  <2> QED
    BY <1>1, <1>3, <2>1 DEF Quiet
<1>4. Known' /\ Fresh'
  BY <1>1, <1>3, FreshKeep DEF FInv
<1> QED
  BY <1>1, <1>4 DEF FInv, Truth

\* A device that is added has not reported.
LEMMA RegisterF == ASSUME TInv, FInv, Register PROVE FInv'
<1>1. /\ UNCHANGED <<h, light, spoken, lost>> /\ TypeInv /\ Places /\ up # << >> /\ up \in Seq(Ups)
      /\ Head(up).kind = "register" /\ up' = Tail(up)
  BY RegisterEffect DEF TInv, TypeInv
<1>2. /\ \A i \in 1 .. Len(device) : i \in 1 .. Len(device') /\ device'[i] = device[i]
      /\ \A i \in 1 .. Len(device') : i \notin 1 .. Len(device) => device'[i].id \notin spoken
  <2>1. CASE device' = device
    BY <2>1
  <2>2. CASE device' # device
    <3>1. PICK e \in Entries : /\ device' = Append(device, e)
                               /\ \A n \in 1 .. Len(device) : device[n].id # e.id
      BY <2>2, RegisterEffect
    <3>2. e.id \notin spoken
      BY <3>1 DEF FInv, Known
    <3> QED
      BY <1>1, <3>1, <3>2, AppendFacts
  <2> QED
    BY <2>1, <2>2
<1>3. ASSUME NEW l \in spoken, Quiet(l)' PROVE Quiet(l)
  <2>1. ~ Reports(up, l)
    BY <1>1, <1>3, TailReports DEF Quiet
  <2>2. h.pc = "command" => device'[h.i] = device[h.i]
    BY <1>1, <1>2 DEF Places, HasEntry
  <2>3. ~ Commands(down, l)
    BY <1>1, <1>3, RegisterEffect, MoreCommands DEF Quiet
  <2> QED
    BY <1>1, <1>3, <2>1, <2>2, <2>3 DEF Quiet
<1>4. Known' /\ Fresh'
  BY <1>1, <1>2, <1>3, FreshKeep DEF FInv
<1>5. Truth'
  BY <1>1, TailTruth DEF FInv, Truth
<1> QED
  BY <1>4, <1>5 DEF FInv

\* The table takes a report over: when it was the last of its light, it is true.
LEMMA SendStateF == ASSUME TInv, FInv, SendState PROVE FInv'
<1> DEFINE f == Head(up)
<1>1. /\ UNCHANGED <<h, light, lost>> /\ TypeInv /\ Places /\ up # << >> /\ up \in Seq(Ups)
      /\ f.kind = "state" /\ up' = Tail(up)
  BY SendStateEffect DEF TInv, TypeInv
<1>2. Truth' /\ (~ Reports(up', f.id) => f.state = light[f.id])
  BY <1>1, TailTruth DEF FInv, Truth
<1>a. ASSUME NEW l, Quiet(l)' PROVE ~ Commands(down, l)
  BY <1>1, <1>a, SendStateEffect, MoreCommands DEF Quiet
<1>3. CASE /\ \A n \in 1 .. Len(device) : device[n].id # f.id
           /\ UNCHANGED <<device, build, s, spoken>>
  <2>1. ASSUME NEW l \in spoken, Quiet(l)' PROVE Quiet(l)
    <3>1. l # f.id
      BY <1>3 DEF FInv, Known
    <3>2. ~ Reports(up, l)
      BY <1>1, <2>1, <3>1, TailReports DEF Quiet
    <3> QED
      BY <1>1, <1>a, <1>3, <2>1, <3>2 DEF Quiet
  <2>2. Known' /\ Fresh'
    BY <1>1, <1>3, <2>1, FreshKeep DEF FInv
  <2> QED
    BY <1>2, <2>2 DEF FInv
<1>4. ASSUME NEW i \in 1 .. Len(device), device[i].id = f.id, spoken' = spoken \cup {f.id},
             Stores(i, [device[i] EXCEPT !.state = f.state])
      PROVE  FInv'
  <2>1. device[i] \in Entries /\ f.state \in Vector
    BY <1>1, EntryType, HeadUp
  <2>2. [device[i] EXCEPT !.state = f.state].state = f.state
    BY <2>1, EntryStore
  <2>3. /\ Len(device') = Len(device) /\ device'[i].state = f.state
        /\ \A n \in 1 .. Len(device) : device'[n].id = device[n].id
        /\ \A n \in 1 .. Len(device) : n # i => device'[n] = device[n]
    BY <1>4, <2>2 DEF Stores
  <2>4. Known'
    BY <1>4, <2>3 DEF FInv, Known
  <2>5. ASSUME NEW l \in spoken', Quiet(l)', lost = 0 PROVE Agrees(l)'
    <3> SUFFICES ASSUME NEW n \in 1 .. Len(device'), device'[n].id = l PROVE device'[n].state = light'[l]
      BY DEF Agrees
    <3>1. CASE n = i
      <4>1. l = f.id
        BY <1>4, <2>3, <3>1
      <4> QED
        BY <1>1, <1>2, <2>3, <2>5, <3>1, <4>1 DEF Quiet
    <3>2. CASE n # i
      <4>1. l # f.id /\ device[n].id = l /\ device'[n] = device[n]
        BY <1>1, <1>4, <2>3, <3>2 DEF TypeInv, Unique
      <4>2. ~ Reports(up, l)
        BY <1>1, <2>5, <4>1, TailReports DEF Quiet
      <4>3. h.pc = "command" => device'[h.i].id = device[h.i].id
        BY <1>1, <2>3 DEF Places, HasEntry
      <4>4. Quiet(l)
        BY <1>1, <1>a, <2>5, <4>2, <4>3 DEF Quiet
      <4>5. l \in spoken
        BY <1>4, <4>1
      <4> QED
        BY <1>1, <2>3, <2>5, <4>1, <4>4, <4>5 DEF FInv, Fresh, Agrees
    <3> QED
      BY <3>1, <3>2
  <2>6. Fresh'
    BY <1>1, <2>5 DEF Fresh
  <2> QED
    BY <1>2, <2>4, <2>6 DEF FInv
<1> QED
  BY <1>3, <1>4, SendStateEffect

\* The light changes, by hand or by a command, and reports.
LEMMA ChangeF ==
  ASSUME TInv, FInv, NEW l \in Lights, UNCHANGED <<device, h, spoken, lost>>,
         \A m \in Lights : m # l => light'[m] = light[m],
         Report(l, light'[l]) \in Ups, up' = Append(up, Report(l, light'[l])),
         \A m \in Lights : m # l /\ Commands(down, m) => Commands(down', m)
  PROVE  FInv'
<1> DEFINE f == Report(l, light'[l])
<1>1. f \in Ups /\ f.kind = "state" /\ f.id = l /\ f.state = light'[l] /\ up' = Append(up, f)
  BY DEF Report
<1> HIDE DEF f
<1>2. up \in Seq(Ups) /\ spoken \subseteq Lights
  BY DEF TInv, TypeInv
<1>3. ASSUME NEW n \in 1 .. Len(up), up[n].kind = "state" PROVE up[n].id \in Lights
  <2>1. up[n] \in Ups
    BY <1>2
  <2> QED
    BY <1>3, <2>1 DEF Ups
<1>4. Truth'
  <2>1. \A n \in 1 .. Len(up) :
          up[n].kind = "state" => light'[up[n].id] = light[up[n].id] \/ (f.kind = "state" /\ f.id = up[n].id)
    BY <1>1, <1>3
  <2>2. LastTrue(up, light) /\ Tells(up, f, light, light')
    BY <1>1, <2>1 DEF FInv, Truth, Tells
  <2>3. LastTrue(Append(up, f), light')
    BY <1>1, <1>2, <2>2, AppendTruth
  <2> QED
    BY <1>1, <2>3 DEF Truth
<1>5. ASSUME NEW m \in spoken, Quiet(m)' PROVE m # l /\ Quiet(m)
  <2>1. ~ Reports(up, m) /\ m # l
    BY <1>1, <1>2, <1>5, AppendReports DEF Quiet
  <2>2. ~ Commands(down, m)
    BY <1>2, <1>5, <2>1 DEF Quiet
  <2> QED
    BY <1>5, <2>1, <2>2 DEF Quiet
<1>6. Fresh'
  <2>1. ASSUME NEW m \in spoken, m # l, Agrees(m) PROVE Agrees(m)'
    BY <1>2, <2>1 DEF Agrees
  <2> QED
    BY <1>5, <2>1 DEF FInv, Fresh
<1>7. Known'
  BY DEF FInv, Known
<1> QED
  BY <1>4, <1>6, <1>7 DEF FInv

LEMMA EventF == ASSUME TInv, FInv, Event PROVE FInv'
<1>1. /\ UNCHANGED <<device, h, down, spoken, lost>> /\ up \in Seq(Ups)
  BY EventEffect DEF TInv, TypeInv
<1>2. ASSUME NEW f \in Ups, f.kind # "state", up' = Append(up, f), UNCHANGED light PROVE FInv'
  <2>1. \A l : Quiet(l)' => Quiet(l)
    BY <1>1, <1>2, AppendReports DEF Quiet
  <2>2. Known' /\ Fresh'
    BY <1>1, <1>2, <2>1, FreshKeep DEF FInv
  <2>3. LastTrue(up, light) /\ Tells(up, f, light, light)
    BY <1>2 DEF FInv, Truth, Tells
  <2>4. Truth'
    BY <1>1, <1>2, <2>3, AppendTruth DEF Truth
  <2> QED
    BY <2>2, <2>4 DEF FInv
<1>3. ASSUME NEW l \in Lights, \A m \in Lights : m # l => light'[m] = light[m],
             Report(l, light'[l]) \in Ups, up' = Append(up, Report(l, light'[l]))
      PROVE  FInv'
  BY <1>1, <1>3, ChangeF
<1> QED
  BY <1>2, <1>3, EventEffect

LEMMA DeliverF == ASSUME TInv, FInv, Deliver PROVE FInv'
<1> DEFINE l == Head(down).id
<1>1. /\ UNCHANGED <<device, h, spoken, lost>> /\ down \in Seq(Downs)
      /\ down # << >> /\ down' = Tail(down) /\ l \in Lights
      /\ \A m \in Lights : m # l => light'[m] = light[m]
      /\ Report(l, light'[l]) \in Ups /\ up' = Append(up, Report(l, light'[l]))
  BY DeliverEffect DEF TInv, TypeInv
<1>2. \A m \in Lights : m # l /\ Commands(down, m) => Commands(down', m)
  BY <1>1, TailCommands
<1> HIDE DEF l
<1> QED
  BY <1>1, <1>2, ChangeF

LEMMA LoseF == ASSUME TInv, FInv, Lose PROVE FInv'
<1>1. lost \in Nat /\ lost' = lost + 1 /\ UNCHANGED <<device, up, light, spoken>>
  BY DEF Lose, TInv, TypeInv
<1>2. lost' # 0
  BY <1>1
<1> QED
  BY <1>1, <1>2 DEF FInv, Truth, Known, Fresh

LEMMA NextF == ASSUME TInv, Building, FInv, [Next]_vars PROVE FInv'
<1>1. ASSUME \/ Get \/ Post \/ Compare \/ ReadLights \/ UNCHANGED vars
             \/ \E t \in Threads : BuildEntry(t) \/ BuildEnd(t) \/ BuildCopy(t)
      PROVE  FInv'
  <2>1. UNCHANGED <<device, up, down, light, spoken, lost>> /\ (h.pc # "command" \/ h' = h)
    BY <1>1 DEF Get, Post, Compare, ReadLights, BuildEntry, BuildEnd, BuildCopy, vars, air, past
  <2> QED
    BY <2>1, BindingF
<1>2. ASSUME NEW t \in Threads, BuildRest(t) PROVE FInv'
  <2>1. UNCHANGED <<device, up, down, light, spoken, lost>> /\ (t = "http" \/ h' = h)
        /\ build[t].pc = "half"
    BY <1>2 DEF BuildRest, air, past
  <2>2. t = "http" => h.pc # "command"
    BY <2>1 DEF Building
  <2> QED
    BY <2>1, <2>2, BindingF
<1> QED
  BY <1>1, <1>2, Steps, EntryF, ClearF, SetLightF, StoreF, CommandF, CtrlUpF, SendLightsF, RegisterF,
     SendStateF, EventF, DeliverF, LoseF, Zenon

\* What the invariant says of a light about which nothing is on its way.
LEMMA QuietCurrent ==
  ASSUME TInv, FInv, NEW l \in spoken, lost = 0, Quiet(l)
  PROVE  Current(l)
<1>1. TypeInv /\ Agrees(l)
  BY DEF TInv, FInv, Fresh
<1>2. PICK n \in 1 .. Len(device) : device[n].id = l
  BY DEF FInv, Known
<1>3. find_dev(l) \in 1 .. Len(device) /\ device[find_dev(l)].id = l
  BY <1>1, <1>2, FindFacts, FindDev DEF TypeInv
<1>4. find_dev(l) # 0
  BY <1>3
<1> QED
  BY <1>1, <1>3, <1>4 DEF Agrees, Current

\* Nothing on its way about a light, and no post half done: it is quiet.
LEMMA NotPending ==
  ASSUME NEW l, ~ Pending(l), ~ (h.pc = "command" /\ device[h.i].id = l)
  PROVE  Quiet(l)
BY DEF Pending, Quiet, Reports, Commands

\* Once the threads rest and nothing about a light is on its way, the table has
\* its states, for every interleaving of posts, presses and reports.
THEOREM SpecTableCurrent == Spec => []TableCurrent
<1>1. Init => TInv /\ Building /\ FInv
  BY InitTInv, InitBuilding, InitFInv
<1>2. TInv /\ Building /\ FInv /\ [Next]_vars => TInv' /\ Building' /\ FInv'
  BY NextT, NextBuilding, NextF
<1>3. TInv /\ FInv => TableCurrent
  <2> SUFFICES ASSUME TInv, FInv, NEW l \in spoken, h.pc = "idle", lost = 0, ~ Pending(l)
               PROVE  Current(l)
    BY DEF TableCurrent
  <2>1. Quiet(l)
    BY NotPending
  <2> QED
    BY <2>1, QuietCurrent
<1> QED
  BY <1>1, <1>2, <1>3, PTL DEF Spec

-----------------------------------------------------------------------------
(* OneBinding and PressFlips: an entry has the binding last posted for its *)
(* device, but for the one that is being rewritten, and a press that no    *)
(* store disturbed holds what the table still says.                        *)

Rewriting == {"clear", "lights"}

Bound(i) == bound[device[i].id] = <<device[i].devid, device[i].light>>

Held     == \A i \in 1 .. Len(device) : ~ (h.pc \in Rewriting /\ h.i = i) => Bound(i)
Half     == h.pc \in Rewriting =>
              bound[device[h.i].id] = <<device[h.i].devid, Head(h.msg).light>>
Missing  == h.pc = "lights" => device[h.i].light \cup h.todo = Head(h.msg).light
Unbound  == \A d \in Devices : (\A i \in 1 .. Len(device) : device[i].id # d) => bound[d] = <<0, {}>>

Bind == Held /\ Half /\ Missing /\ Unbound

\* tempctrl[] of a press, by the table.
Taken(i, j, ctrl) ==
  /\ \A c \in Channel : ctrl[c] # 2 <=> c \in device[i].light
  /\ device[i].type = 7 /\ j # 0 => \A c \in device[i].light : ctrl[c] = 1 - device[j].state[c]

Press ==
  s.pc \in Pressed /\ s.calm = 1 =>
    /\ ~ Halfway(s.i, s.j)
    /\ s.j # 0 => device[s.j].id = device[s.i].devid
    /\ s.pc = "send" => Taken(s.i, s.j, s.ctrl)

LEMMA InitBindPress == Init => Bind /\ Press
BY DEF Init, Idle, Bind, Held, Half, Missing, Unbound, Press, Pressed, Rewriting

\* Steps that leave the bindings in the table alone.
LEMMA BindKeep ==
  ASSUME Bind, Places, UNCHANGED bound, Len(device') = Len(device),
         \A i \in 1 .. Len(device) : /\ device'[i].id = device[i].id
                                     /\ device'[i].devid = device[i].devid
                                     /\ device'[i].light = device[i].light,
         h' = h \/ (h.pc \notin Rewriting /\ h'.pc \notin Rewriting)
  PROVE  Bind'
<1>1. h.pc \in Rewriting => h.i \in 1 .. Len(device)
  BY DEF Places, HasEntry, Rewriting
<1>2. Held'
  BY DEF Bind, Held, Bound
<1>3. Half'
  BY <1>1 DEF Bind, Half
<1>4. Missing'
  BY <1>1 DEF Bind, Missing, Rewriting
<1>5. Unbound'
  BY DEF Bind, Unbound
<1> QED
  BY <1>2, <1>3, <1>4, <1>5 DEF Bind

\* The devid of an entry is stored: the entry is half rewritten.
LEMMA EntryBind == ASSUME TInv, Bind, Entry PROVE Bind'
<1>1. TypeInv /\ Places /\ h.pc = "entry" /\ h.pc \notin Rewriting
  BY DEF TInv, Entry, Rewriting
<1>2. ASSUME device' = device, bound' = bound, h'.pc \notin Rewriting PROVE Bind'
  BY <1>1, <1>2, BindKeep
<1>3. ASSUME NEW n \in 1 .. Len(device), NEW e \in Entries, e = Head(h.msg), device[n].id = e.id,
             Stores(n, [device[n] EXCEPT !.devid = e.devid]),
             bound' = [bound EXCEPT ![e.id] = <<e.devid, e.light>>],
             h' = [pc |-> "clear", msg |-> h.msg, i |-> n]
      PROVE  Bind'
  <2>1. device[n] \in Entries /\ e.devid \in Targets /\ e.id \in Devices
        /\ bound \in [Devices -> Targets \X SUBSET Channel]
    BY <1>1, EntryType DEF Entries, TypeInv
  <2>2. [device[n] EXCEPT !.devid = e.devid].devid = e.devid
    BY <2>1, EntryStore
  <2>3. /\ Len(device') = Len(device) /\ device'[n].devid = e.devid
        /\ \A m \in 1 .. Len(device) : m # n => device'[m] = device[m]
        /\ \A m \in 1 .. Len(device) : device'[m].id = device[m].id
    BY <1>3, <2>2 DEF Stores
  <2>4. bound'[e.id] = <<e.devid, e.light>> /\ \A d \in Devices : d # e.id => bound'[d] = bound[d]
    BY <1>3, <2>1
  <2>5. h'.pc = "clear" /\ h'.i = n /\ h'.msg = h.msg
    BY <1>3
  <2>6. Held'
    <3> SUFFICES ASSUME NEW m \in 1 .. Len(device), m # n PROVE Bound(m)'
      BY <2>3, <2>5 DEF Held, Rewriting
    <3>1. device[m].id # e.id /\ device[m].id \in Devices
      BY <1>1, <1>3, EntryType DEF TypeInv, Unique
    <3>2. Bound(m)
      BY <1>1 DEF Bind, Held
    <3> QED
      BY <2>3, <2>4, <3>1, <3>2 DEF Bound
  <2>7. Half'
    BY <1>3, <2>3, <2>4, <2>5 DEF Half
  <2>8. Missing'
    BY <2>5 DEF Missing
  <2>9. Unbound'
    <3> SUFFICES ASSUME NEW d \in Devices, \A m \in 1 .. Len(device') : device'[m].id # d
                 PROVE  bound'[d] = <<0, {}>>
      BY DEF Unbound
    <3>1. d # e.id /\ \A m \in 1 .. Len(device) : device[m].id # d
      BY <1>3, <2>3
    <3> QED
      BY <2>4, <3>1 DEF Bind, Unbound
  <2> QED
    BY <2>6, <2>7, <2>8, <2>9 DEF Bind
<1>4. \/ device' = device /\ bound' = bound /\ h'.pc \notin Rewriting
      \/ \E n \in 1 .. Len(device) :
           /\ Head(h.msg) \in Entries /\ device[n].id = Head(h.msg).id
           /\ Stores(n, [device[n] EXCEPT !.devid = Head(h.msg).devid])
           /\ bound' = [bound EXCEPT ![Head(h.msg).id] = <<Head(h.msg).devid, Head(h.msg).light>>]
           /\ h' = [pc |-> "clear", msg |-> h.msg, i |-> n]
  BY EntryEffect DEF Rewriting
<1> QED
  BY <1>2, <1>3, <1>4

\* The lights of the entry that is rewritten, which no other entry has a part in.
LEMMA LightsBind ==
  ASSUME TInv, Bind, h.pc \in Rewriting, UNCHANGED bound, NEW x \in SUBSET Channel, NEW todo,
         Stores(h.i, [device[h.i] EXCEPT !.light = x]), x \cup todo = Head(h.msg).light,
         h'.pc = "lights", h'.i = h.i, h'.msg = h.msg, h'.todo = todo
  PROVE  Bind'
<1>1. TypeInv /\ h.i \in 1 .. Len(device)
  BY DEF TInv, Stores
<1> DEFINE g == [device[h.i] EXCEPT !.light = x]
<1>2. g.devid = device[h.i].devid /\ g.light = x
  BY <1>1, EntryType, EntryStore
<1>3. Stores(h.i, g)
  OBVIOUS
<1> HIDE DEF g
<1>4. /\ Len(device') = Len(device) /\ device'[h.i].devid = device[h.i].devid /\ device'[h.i].light = x
      /\ \A m \in 1 .. Len(device) : m # h.i => device'[m] = device[m]
      /\ \A m \in 1 .. Len(device) : device'[m].id = device[m].id
  BY <1>2, <1>3 DEF Stores
<1>5. Held'
  BY <1>4 DEF Bind, Held, Bound, Rewriting
<1>6. Half'
  BY <1>1, <1>4 DEF Bind, Half
<1>7. Missing'
  BY <1>4 DEF Missing
<1>8. Unbound'
  BY <1>4 DEF Bind, Unbound
<1> QED
  BY <1>5, <1>6, <1>7, <1>8 DEF Bind

LEMMA ClearBind == ASSUME TInv, Bind, ClearLights PROVE Bind'
<1>1. /\ Stores(h.i, [device[h.i] EXCEPT !.light = {}]) /\ h.pc = "clear" /\ bound' = bound
      /\ h' = [pc |-> "lights", msg |-> h.msg, i |-> h.i, todo |-> Head(h.msg).light]
  BY ClearEffect DEF ClearLights, past
<1>2. /\ h'.pc = "lights" /\ h'.i = h.i /\ h'.msg = h.msg /\ h'.todo = Head(h.msg).light
      /\ {} \in SUBSET Channel /\ {} \cup h'.todo = Head(h.msg).light /\ h.pc \in Rewriting
  BY <1>1 DEF Rewriting
<1> QED
  BY <1>1, <1>2, LightsBind

LEMMA SetLightBind == ASSUME TInv, Bind, SetLight PROVE Bind'
<1>1. TypeInv /\ Places /\ h.pc = "lights" /\ h.pc \in HasEntry /\ h.pc \in Rewriting /\ bound' = bound
  BY SetLightEffect DEF TInv, HasEntry, Rewriting
<1>2. h.i \in 1 .. Len(device) /\ h.todo \in SUBSET Channel /\ device[h.i].light \in SUBSET Channel
  BY <1>1, HttpPlace, EntryType
<1>3. CASE /\ h.todo = {} /\ h' = [pc |-> "compare", msg |-> h.msg, i |-> h.i, c |-> 1]
           /\ UNCHANGED <<device, s>>
  <2>1. h'.pc = "compare" /\ h'.pc \notin Rewriting
    BY <1>3 DEF Rewriting
  <2>2. device[h.i].light = Head(h.msg).light
    BY <1>1, <1>3 DEF Bind, Missing
  <2>3. Bound(h.i)
    BY <1>1, <2>2 DEF Bind, Half, Bound
  <2>4. \A n \in 1 .. Len(device) : Bound(n)
    BY <2>3 DEF Bind, Held
  <2>5. Held'
    BY <1>1, <1>3, <2>4 DEF Held, Bound
  <2>6. Half' /\ Missing'
    BY <2>1 DEF Half, Missing
  <2>7. Unbound'
    BY <1>1, <1>3 DEF Bind, Unbound
  <2> QED
    BY <2>5, <2>6, <2>7 DEF Bind
<1>4. ASSUME NEW c \in h.todo,
             Stores(h.i, [device[h.i] EXCEPT !.light = device[h.i].light \cup {c}]),
             h' \in [pc : {"lights"}, msg : {h.msg}, i : {h.i}, todo : {h.todo \ {c}}]
      PROVE  Bind'
  <2>1. h'.pc = "lights" /\ h'.i = h.i /\ h'.msg = h.msg /\ h'.todo = h.todo \ {c}
    BY <1>4
  <2>2. /\ device[h.i].light \cup {c} \in SUBSET Channel
        /\ (device[h.i].light \cup {c}) \cup (h.todo \ {c}) = device[h.i].light \cup h.todo
    BY <1>2
  <2>3. device[h.i].light \cup h.todo = Head(h.msg).light
    BY <1>1 DEF Bind, Missing
  <2> QED
    BY <1>1, <1>4, <2>1, <2>2, <2>3, LightsBind
<1> QED
  BY <1>3, <1>4, SetLightEffect

\* A device that is added is bound to nothing, and nothing was posted for it.
LEMMA RegisterBind == ASSUME TInv, Bind, Register PROVE Bind'
<1>1. TypeInv /\ Places /\ UNCHANGED <<h, bound>>
  BY RegisterEffect DEF TInv
<1>2. CASE device' = device
  BY <1>1, <1>2, BindKeep
<1>3. CASE device' # device
  <2>1. PICK e \in Entries : /\ device' = Append(device, e) /\ e.devid = 0 /\ e.light = {}
                             /\ \A n \in 1 .. Len(device) : device[n].id # e.id
    BY <1>3, RegisterEffect
  <2>2. /\ Len(device') = Len(device) + 1 /\ Len(device) \in Nat /\ device'[Len(device) + 1] = e
        /\ \A n \in 1 .. Len(device) : n \in 1 .. Len(device') /\ device'[n] = device[n]
        /\ \A n \in 1 .. Len(device') : n \in 1 .. Len(device) \/ n = Len(device) + 1
    BY <1>1, <2>1, AppendFacts
  <2>3. h.pc \in Rewriting => h.i \in 1 .. Len(device) /\ device'[h.i] = device[h.i]
    BY <1>1, <2>2 DEF Places, HasEntry, Rewriting
  <2>4. e.id \in Devices
    BY DEF Entries
  <2>5. bound[e.id] = <<0, {}>>
    BY <2>1, <2>4 DEF Bind, Unbound
  <2>6. Held'
    <3> SUFFICES ASSUME NEW n \in 1 .. Len(device'), ~ (h.pc \in Rewriting /\ h.i = n) PROVE Bound(n)'
      BY <1>1 DEF Held
    <3>1. CASE n \in 1 .. Len(device)
      BY <1>1, <2>2, <3>1 DEF Bind, Held, Bound
    <3>2. CASE n = Len(device) + 1
      BY <1>1, <2>1, <2>2, <2>5, <3>2 DEF Bound
    <3> QED
      BY <2>2, <3>1, <3>2
  <2>7. Half'
    BY <1>1, <2>3 DEF Bind, Half
  <2>8. Missing'
    BY <1>1, <2>3 DEF Bind, Missing, Rewriting
  <2>9. Unbound'
    BY <1>1, <2>2 DEF Bind, Unbound
  <2> QED
    BY <2>6, <2>7, <2>8, <2>9 DEF Bind
<1> QED
  BY <1>2, <1>3

\* A state is stored, by a post or a report.
LEMMA StateBind ==
  ASSUME TInv, Bind, NEW n, NEW v \in Vector, Stores(n, [device[n] EXCEPT !.state = v]), UNCHANGED bound,
         h' = h \/ (h.pc \notin Rewriting /\ h'.pc \notin Rewriting)
  PROVE  Bind'
<1>1. TypeInv /\ Places /\ n \in 1 .. Len(device)
  BY DEF TInv, Stores
<1> DEFINE g == [device[n] EXCEPT !.state = v]
<1>2. g.devid = device[n].devid /\ g.light = device[n].light
  BY <1>1, EntryType, EntryStore
<1>3. Stores(n, g)
  OBVIOUS
<1> HIDE DEF g
<1>4. /\ Len(device') = Len(device)
      /\ \A i \in 1 .. Len(device) : /\ device'[i].id = device[i].id
                                     /\ device'[i].devid = device[i].devid
                                     /\ device'[i].light = device[i].light
  BY <1>2, <1>3 DEF Stores
<1> QED
  BY <1>1, <1>4, BindKeep

LEMMA NextBind == ASSUME TInv, Building, Bind, [Next]_vars PROVE Bind'
<1>1. TypeInv /\ Places
  BY DEF TInv
<1>2. ASSUME Store PROVE Bind'
  <2>1. /\ h.pc = "store" /\ h'.pc = "command" /\ bound' = bound
    BY <1>2, StoreEffect
  <2>2. PICK v \in Vector : Stores(h.i, [device[h.i] EXCEPT !.state = v])
    BY <1>2, StoreEffect
  <2> QED
    BY <2>1, <2>2, StateBind DEF Rewriting
<1>3. ASSUME SendState PROVE Bind'
  <2>1. h' = h /\ bound' = bound /\ up # << >> /\ Head(up).kind = "state"
    BY <1>3, SendStateEffect
  <2>2. Head(up).state \in Vector
    BY <1>1, <2>1, HeadUp
  <2>3. device' = device \/ \E n : Stores(n, [device[n] EXCEPT !.state = Head(up).state])
    BY <1>3, SendStateEffect
  <2> QED
    BY <1>1, <2>1, <2>2, <2>3, BindKeep, StateBind
<1>4. ASSUME Compare \/ Command PROVE Bind'
  <2>1. UNCHANGED <<device, bound>> /\ h.pc \in {"compare", "command"}
    BY <1>4, CompareEffect, CommandEffect
  <2>2. h'.pc \notin Rewriting
    <3>1. \/ h' \in [pc : {"store"}, msg : {h.msg}, i : {h.i}, c : {h.c}]
          \/ h' \in [pc : {"compare"}, msg : {h.msg}, i : {h.i}, c : Channel]
          \/ h' \in [pc : {"entry"}, msg : Seq(Entries)]
      BY <1>4, <2>1, CompareEffect, CommandEffect, NextChannelEffect
    <3> QED
      BY <3>1 DEF Rewriting
  <2> QED
    BY <1>1, <2>1, <2>2, BindKeep DEF Rewriting
<1>5. ASSUME \/ Get \/ Post \/ CtrlUp \/ ReadLights \/ SendLights \/ Event \/ Deliver \/ Lose
             \/ UNCHANGED vars \/ \E t \in Threads : BuildEntry(t) \/ BuildEnd(t) \/ BuildCopy(t)
      PROVE  Bind'
  <2>1. UNCHANGED <<device, bound>>
    BY <1>5 DEF Get, Post, CtrlUp, ReadLights, SendLights, BuildEntry, BuildEnd, BuildCopy, Event, Deliver, Lose, vars, past
  <2>2. h' = h \/ (h.pc \notin Rewriting /\ h'.pc \notin Rewriting)
    <3>1. CASE Get
      BY <3>1 DEF Get, Idle, Rewriting
    <3>2. CASE Post
      BY <3>2, PostMsg DEF Post, Rewriting
    <3>3. CASE ~ Get /\ ~ Post
      BY <1>5, <3>3 DEF CtrlUp, ReadLights, SendLights, BuildEntry, BuildEnd, BuildCopy, Event, Deliver,
                        Lose, vars
    <3> QED
      BY <3>1, <3>2, <3>3
  <2> QED
    BY <1>1, <2>1, <2>2, BindKeep
<1>6. ASSUME NEW t \in Threads, BuildRest(t) PROVE Bind'
  <2>1. UNCHANGED <<device, bound>> /\ build[t].pc = "half"
        /\ h' = (IF t = "http" THEN [pc |-> "answer"] ELSE h)
    BY <1>6 DEF BuildRest, past
  <2>2. t = "http" => h.pc = "build"
    BY <2>1 DEF Building
  <2>3. h' = h \/ (h.pc \notin Rewriting /\ h'.pc \notin Rewriting)
    BY <2>1, <2>2 DEF Rewriting
  <2> QED
    BY <1>1, <2>1, <2>3, BindKeep
<1> QED
  BY <1>2, <1>3, <1>4, <1>5, <1>6, Steps, EntryBind, ClearBind, SetLightBind, RegisterBind, Zenon

\* A store of the HTTP thread leaves a press that stays calm as it is.
LEMMA StoresPress ==
  ASSUME TInv, Press, NEW n, NEW g, Stores(n, g), Disturb(n),
         h'.pc \in {"clear", "lights", "command"} => h'.i = n
  PROVE  Press'
<1>1. TypeInv /\ Places
  BY DEF TInv
<1> SUFFICES ASSUME s'.pc \in Pressed, s'.calm = 1
             PROVE  /\ ~ Halfway(s.i, s.j)'
                    /\ s.j # 0 => device'[s.j].id = device'[s.i].devid
                    /\ s.pc = "send" => Taken(s.i, s.j, s.ctrl)'
                    /\ s' = s
  BY DEF Press
<1>2. s.pc \in Pressed /\ s' = s /\ n # s.i /\ n # s.j
  BY <1>1, DisturbFacts
<1>3. s.i \in 1 .. Len(device) /\ (s.j # 0 => s.j \in 1 .. Len(device))
  BY <1>1, <1>2, SerialPlace
<1>4. device'[s.i] = device[s.i] /\ (s.j # 0 => device'[s.j] = device[s.j])
  BY <1>2, <1>3 DEF Stores
<1>5. ~ Halfway(s.i, s.j)'
  BY <1>2 DEF Halfway
<1>6. s.j # 0 => device[s.j].id = device[s.i].devid
  BY <1>2 DEF Press
<1>7. s.pc = "send" => Taken(s.i, s.j, s.ctrl)
  BY <1>2 DEF Press
<1>8. s.pc = "send" => Taken(s.i, s.j, s.ctrl)'
  BY <1>2, <1>4, <1>7 DEF Taken
<1> QED
  BY <1>2, <1>4, <1>5, <1>6, <1>8

\* Steps that store nothing.
LEMMA PressKeep ==
  ASSUME Press, UNCHANGED <<device, s>>, h' = h \/ h'.pc \notin {"clear", "lights", "command"}
  PROVE  Press'
<1>1. Halfway(s.i, s.j)' => Halfway(s.i, s.j)
  BY DEF Halfway
<1>2. Taken(s.i, s.j, s.ctrl) => Taken(s.i, s.j, s.ctrl)'
  BY DEF Taken
<1> QED
  BY <1>1, <1>2 DEF Press

\* A press begins calm when no post is half done, and holds what the light it is
\* bound to has in the table.
LEMMA CtrlUpPress == ASSUME TInv, Press, CtrlUp PROVE Press'
<1>1. s.pc = "idle" /\ UNCHANGED <<device, h>>
  BY CtrlUpEffect
<1>2. CASE s' = s
  BY <1>1, <1>2, PressKeep
<1>3. ASSUME NEW i \in 1 .. Len(device), NEW v \in Bits, NEW j, j # 0 => device[j].id = device[i].devid,
             s' = [pc |-> "read", i |-> i, j |-> j, value |-> v,
                   calm |-> IF Halfway(i, j) THEN 0 ELSE 1]
      PROVE  Press'
  <2>1. s'.pc = "read" /\ s'.i = i /\ s'.j = j /\ (s'.calm = 1 => ~ Halfway(i, j))
    BY <1>3
  <2>2. Halfway(i, j)' => Halfway(i, j)
    BY <1>1 DEF Halfway
  <2>3. Halfway(s.i, s.j)' <=> Halfway(i, j)'
    BY <2>1 DEF Halfway
  <2> QED
    BY <1>1, <1>3, <2>1, <2>2, <2>3 DEF Press
<1> QED
  BY <1>2, <1>3, CtrlUpEffect

LEMMA ReadLightsPress == ASSUME TInv, Press, ReadLights PROVE Press'
<1>1. TypeInv /\ Places /\ s.pc = "read" /\ s.pc \in Pressed /\ UNCHANGED <<device, h>>
  BY ReadLightsEffect DEF TInv, Pressed
<1>2. PICK t \in Orders :
        /\ \A c \in Channel :
             t[c] \in (IF c \notin device[s.i].light THEN {2}
                       ELSE IF device[s.i].type = 7 THEN Over(c) ELSE {s.value})
        /\ s' = [pc |-> "send", i |-> s.i, j |-> s.j, calm |-> s.calm, ctrl |-> t]
  BY ReadLightsEffect
<1>3. /\ s'.pc = "send" /\ s'.i = s.i /\ s'.j = s.j /\ s'.calm = s.calm /\ s'.ctrl = t
  BY <1>2
<1>4. /\ s.i \in 1 .. Len(device) /\ (s.j # 0 => s.j \in 1 .. Len(device)) /\ s.value \in Bits
  BY <1>1, SerialPlace
<1>5. \A c \in Channel : Over(c) \subseteq Bits
  BY DEF Over, Bits
<1>6. ASSUME NEW c \in Channel PROVE t[c] # 2 <=> c \in device[s.i].light
  <2>1. \A b \in Bits : b # 2
    BY DEF Bits
  <2>2. CASE c \notin device[s.i].light
    BY <1>2, <2>2
  <2>3. CASE c \in device[s.i].light
    <3>1. t[c] \in Bits
      BY <1>2, <1>4, <1>5, <2>3
    <3> QED
      BY <2>1, <2>3, <3>1
  <2> QED
    BY <2>2, <2>3
<1>7. ASSUME device[s.i].type = 7, s.j # 0, NEW c \in device[s.i].light
      PROVE  t[c] = 1 - device[s.j].state[c]
  <2>1. c \in Channel /\ device[s.j].state \in Vector
    BY <1>1, <1>4, <1>7, EntryType
  <2>2. device[s.j].state[c] \in Bits /\ t[c] \in Over(c)
    BY <1>2, <1>7, <2>1 DEF Vector
  <2> QED
    BY <1>7, <2>2 DEF Over, Bits
<1>8. Taken(s.i, s.j, t)
  BY <1>6, <1>7 DEF Taken
<1>9. Taken(s.i, s.j, s.ctrl)'
  BY <1>1, <1>3, <1>8 DEF Taken
<1>10. Halfway(s.i, s.j)' => Halfway(s.i, s.j)
  BY <1>1, <1>3 DEF Halfway
<1> QED
  BY <1>1, <1>3, <1>9, <1>10 DEF Press

LEMMA NextPress == ASSUME TInv, Press, [Next]_vars PROVE Press'
<1>1. TypeInv /\ Places
  BY DEF TInv
<1>2. ASSUME Entry PROVE Press'
  <2>1. \/ UNCHANGED <<device, s>> /\ h'.pc \notin {"clear", "lights", "command"}
        \/ \E n, g : Stores(n, g) /\ Disturb(n) /\ h' = [pc |-> "clear", msg |-> h.msg, i |-> n]
    <3>1. /\ h' = [pc |-> "build"] => h'.pc \notin {"clear", "lights", "command"}
          /\ h' \in [pc : {"entry"}, msg : Seq(Entries)] => h'.pc \notin {"clear", "lights", "command"}
      OBVIOUS
    <3> QED
      BY <1>2, <3>1, EntryEffect, Zenon
  <2>2. ASSUME NEW n, NEW g, Stores(n, g), Disturb(n), h' = [pc |-> "clear", msg |-> h.msg, i |-> n]
        PROVE  Press'
    <3>1. h'.i = n
      BY <2>2
    <3> QED
      BY <2>2, <3>1, StoresPress
  <2> QED
    BY <2>1, <2>2, PressKeep
<1>3. ASSUME ClearLights PROVE Press'
  <2>1. h' = [pc |-> "lights", msg |-> h.msg, i |-> h.i, todo |-> Head(h.msg).light]
    BY <1>3, ClearEffect
  <2>2. h'.i = h.i
    BY <2>1
  <2> QED
    BY <1>3, <2>2, ClearEffect, StoresPress
<1>4. ASSUME SetLight PROVE Press'
  <2>1. \/ UNCHANGED <<device, s>> /\ h'.pc \notin {"clear", "lights", "command"}
        \/ \E g : Stores(h.i, g) /\ Disturb(h.i) /\ h'.i = h.i
    <3>1. h' = [pc |-> "compare", msg |-> h.msg, i |-> h.i, c |-> 1]
            => h'.pc \notin {"clear", "lights", "command"}
      OBVIOUS
    <3>2. \A c : h' \in [pc : {"lights"}, msg : {h.msg}, i : {h.i}, todo : {h.todo \ {c}}] => h'.i = h.i
      OBVIOUS
    <3> QED
      BY <1>4, <3>1, <3>2, SetLightEffect, Zenon
  <2> QED
    BY <2>1, PressKeep, StoresPress
<1>5. ASSUME Store PROVE Press'
  <2>1. h'.i = h.i /\ \E g : Stores(h.i, g) /\ Disturb(h.i)
    BY <1>5, StoreEffect
  <2> QED
    BY <2>1, StoresPress
<1>6. ASSUME Compare \/ Command PROVE Press'
  <2>1. UNCHANGED <<device, s>> /\ h.pc \in {"compare", "command"}
    BY <1>6, CompareEffect, CommandEffect
  <2>2. h'.pc \notin {"clear", "lights", "command"}
    <3>1. \/ h' \in [pc : {"store"}, msg : {h.msg}, i : {h.i}, c : {h.c}]
          \/ h' \in [pc : {"compare"}, msg : {h.msg}, i : {h.i}, c : Channel]
          \/ h' \in [pc : {"entry"}, msg : Seq(Entries)]
      BY <1>6, <2>1, CompareEffect, CommandEffect, NextChannelEffect
    <3> QED
      BY <3>1
  <2> QED
    BY <2>1, <2>2, PressKeep
<1>7. ASSUME \/ Get \/ Post \/ Event \/ Deliver \/ Lose \/ UNCHANGED vars
             \/ \E t \in Threads : BuildEntry(t) \/ BuildEnd(t) \/ BuildCopy(t)
      PROVE  Press'
  <2>1. UNCHANGED <<device, s>>
    BY <1>7 DEF Get, Post, BuildEntry, BuildEnd, BuildCopy, Event, Deliver, Lose, vars
  <2>2. h' = h \/ h'.pc \notin {"clear", "lights", "command"}
    <3>1. CASE Get
      BY <3>1 DEF Get, Idle
    <3>2. CASE Post
      BY <3>2, PostMsg
    <3>3. CASE ~ Get /\ ~ Post
      BY <1>7, <3>3 DEF BuildEntry, BuildEnd, BuildCopy, Event, Deliver, Lose, vars
    <3> QED
      BY <3>1, <3>2, <3>3
  <2> QED
    BY <2>1, <2>2, PressKeep
<1>8. ASSUME NEW t \in Threads, BuildRest(t) PROVE Press'
  <2>1. device' = device /\ (s' = Idle \/ s' = s) /\ (h' = h \/ h' = [pc |-> "answer"])
    BY <1>8 DEF BuildRest
  <2>2. CASE s' = Idle
    BY <2>2 DEF Press, Pressed, Idle
  <2>3. CASE s' = s
    BY <2>1, <2>3, PressKeep
  <2> QED
    BY <2>1, <2>2, <2>3
<1>9. ASSUME Register \/ SendState \/ SendLights PROVE Press'
  <2>1. s'.pc \notin Pressed
    <3>1. s' = Idle \/ s' = [pc |-> "build"] \/ (s' = s /\ s.pc = "idle")
      BY <1>9, RegisterEffect, SendStateEffect, SendLightsEffect, Zenon
    <3> QED
      BY <3>1 DEF Pressed, Idle
  <2> QED
    BY <2>1 DEF Press
<1> QED
  BY <1>2, <1>3, <1>4, <1>5, <1>6, <1>7, <1>8, <1>9, Steps, CtrlUpPress, ReadLightsPress, Zenon

\* Only SendLights ends a press.
LEMMA PressEnds ==
  ASSUME TInv, [Next]_vars, s.pc = "send", s'.pc = "idle"
  PROVE  SendLights
<1>1. TypeInv /\ Places
  BY DEF TInv
<1>2. ~ (s.pc = s'.pc)
  OBVIOUS
<1>3. ASSUME NEW t \in Threads, BuildRest(t) PROVE FALSE
  <2>1. t = "serial" /\ build[t].pc = "half"
    BY <1>2, <1>3 DEF BuildRest
  <2>2. build["serial"].pc = "none"
    BY <1>1 DEF Places
  <2> QED
    BY <2>1, <2>2
<1>4. ASSUME NEW n, Disturb(n) PROVE FALSE
  BY <1>1, <1>2, <1>4, DisturbFacts
<1>5. ASSUME Entry \/ ClearLights \/ SetLight \/ Store PROVE FALSE
  BY <1>2, <1>4, <1>5, EntryEffect, ClearEffect, SetLightEffect, StoreEffect
<1>6. ASSUME \/ Get \/ Post \/ Compare \/ Command \/ Event \/ Deliver \/ Lose \/ UNCHANGED vars
             \/ \E t \in Threads : BuildEntry(t) \/ BuildEnd(t) \/ BuildCopy(t)
      PROVE  FALSE
  BY <1>2, <1>6 DEF Get, Post, Compare, Command, Event, Deliver, Lose, BuildEntry, BuildEnd, BuildCopy, vars
<1>7. ASSUME CtrlUp \/ ReadLights \/ Register \/ SendState PROVE FALSE
  BY <1>7 DEF CtrlUp, ReadLights, Register, SendState
<1> QED
  BY <1>3, <1>5, <1>6, <1>7, Steps, Zenon

GInv == TInv /\ Building /\ FInv /\ Bind /\ Press

LEMMA SpecGInv == Spec => []GInv
<1>1. Init => GInv
  BY InitTInv, InitBuilding, InitFInv, InitBindPress DEF GInv
<1>2. GInv /\ [Next]_vars => GInv'
  BY NextT, NextBuilding, NextF, NextBind, NextPress DEF GInv
<1> QED
  BY <1>1, <1>2, PTL DEF Spec

\* The one command of a press is for the binding last posted for the remote or
\* the sensor, unless a post rewrites it meanwhile.
THEOREM SpecOneBinding == Spec => OneBinding
<1>1. GInv /\ [Next]_vars =>
        [s.pc = "send" /\ s'.pc = "idle" /\ s.calm = 1
           => \A n \in Len(down) + 1 .. Len(down') :
                bound[device[s.i].id] = <<down'[n].id, {c \in Channel : down'[n].ctrl[c] # 2}>>]_vars
  <2> SUFFICES ASSUME GInv, [Next]_vars, s.pc = "send", s'.pc = "idle", s.calm = 1,
                      NEW n \in Len(down) + 1 .. Len(down')
               PROVE  bound[device[s.i].id] = <<down'[n].id, {c \in Channel : down'[n].ctrl[c] # 2}>>
    OBVIOUS
  <2>1. TInv /\ TypeInv /\ Places /\ SendLights /\ s.pc \in Pressed
    BY PressEnds DEF GInv, TInv, Pressed
  <2>2. Ctrl(device[s.i].devid, s.ctrl) /\ s.ctrl \in Orders
    BY <2>1, SendLightsEffect
  <2> DEFINE x == [id |-> device[s.i].devid, ctrl |-> s.ctrl]
  <2>3. down \in Seq(Downs) /\ Len(down) \in Nat
    BY <2>1 DEF TypeInv
  <2>4. down' = Append(down, x)
    <3>1. down' # down
      BY <2>3
    <3> QED
      BY <2>1, <2>2, <3>1, CtrlEffect
  <2>5. x \in Downs
    BY <2>1, <2>2, <2>3, <2>4, CtrlEffect
  <2>6. down'[n] = x
    <3> HIDE DEF x
    <3>1. Len(down') = Len(down) + 1 /\ down'[Len(down) + 1] = x
      BY <2>3, <2>4, <2>5
    <3>2. n = Len(down) + 1
      BY <2>3, <3>1
    <3> QED
      BY <3>1, <3>2
  <2>7. ~ Halfway(s.i, s.j) /\ Taken(s.i, s.j, s.ctrl)
    BY <2>1 DEF GInv, Press
  <2>8. s.i \in 1 .. Len(device)
    BY <2>1, SerialPlace
  <2>9. bound[device[s.i].id] = <<device[s.i].devid, device[s.i].light>>
    BY <2>7, <2>8 DEF GInv, Bind, Held, Bound, Halfway, Rewriting
  <2>10. device[s.i].light = {c \in Channel : s.ctrl[c] # 2}
    <3>1. device[s.i].light \subseteq Channel
      BY <2>1, <2>8, EntryType
    <3> QED
      BY <2>7, <3>1 DEF Taken
  <2>11. down'[n].id = device[s.i].devid /\ down'[n].ctrl = s.ctrl
    BY <2>6
  <2> QED
    BY <2>9, <2>10, <2>11
<1> QED
  BY <1>1, SpecGInv, PTL DEF Spec, OneBinding

\* A press of a remote switches the lights it is bound to over, when the last
\* change of the light is in the table and no post stores to either meanwhile.
THEOREM SpecPressFlips == Spec => PressFlips
<1>1. GInv /\ [Next]_vars =>
        [s.pc = "send" /\ s'.pc = "idle" /\ s.calm = 1 /\ device[s.i].type = 7 /\ s.j # 0 /\ lost = 0
           => LET l == device[s.j].id IN
              l \in spoken /\ ~Pending(l) =>
                \A c \in device[s.i].light : down'[Len(down')].ctrl[c] = 1 - light[l][c]]_vars
  <2> DEFINE l == device[s.j].id
  <2> SUFFICES ASSUME GInv, [Next]_vars, s.pc = "send", s'.pc = "idle", s.calm = 1,
                      device[s.i].type = 7, s.j # 0, lost = 0, l \in spoken, ~ Pending(l),
                      NEW c \in device[s.i].light
               PROVE  down'[Len(down')].ctrl[c] = 1 - light[l][c]
    OBVIOUS
  <2>1. TInv /\ TypeInv /\ Places /\ SendLights /\ s.pc \in Pressed
    BY PressEnds DEF GInv, TInv, Pressed
  <2>2. Ctrl(device[s.i].devid, s.ctrl) /\ s.ctrl \in Orders
    BY <2>1, SendLightsEffect
  <2>3. ~ Halfway(s.i, s.j) /\ Taken(s.i, s.j, s.ctrl) /\ l = device[s.i].devid
    BY <2>1 DEF GInv, Press
  <2>4. s.i \in 1 .. Len(device) /\ s.j \in 1 .. Len(device)
    BY <2>1, SerialPlace
  <2>5. ~ (h.pc = "command" /\ device[h.i].id = l)
    <3>1. h.pc = "command" => h.i \in 1 .. Len(device)
      BY <2>1 DEF Places, HasEntry
    <3> QED
      BY <2>1, <2>3, <2>4, <3>1 DEF Halfway, TypeInv, Unique
  <2>6. Agrees(l)
    <3>1. Quiet(l)
      BY <2>5, NotPending
    <3> QED
      BY <3>1 DEF GInv, FInv, Fresh
  <2>7. s.ctrl[c] = 1 - light[l][c]
    <3>1. device[s.j].state = light[l]
      BY <2>4, <2>6 DEF Agrees
    <3> QED
      BY <2>3, <3>1 DEF Taken
  <2>8. l \in Lights
    BY <2>1 DEF TypeInv
  <2> HIDE DEF l
  <2> DEFINE x == [id |-> l, ctrl |-> s.ctrl]
  <2>9. down' = Append(down, x) /\ x \in Downs /\ down \in Seq(Downs)
    BY <2>1, <2>2, <2>3, <2>8, CtrlEffect DEF TypeInv
  <2>10. down'[Len(down')] = x
    <3> HIDE DEF x
    <3> QED
      BY <2>9
  <2> QED
    BY <2>7, <2>10
<1> QED
  BY <1>1, SpecGInv, PTL DEF Spec, PressFlips
=============================================================================
