---------------------------- MODULE DeviceTable ----------------------------
(***************************************************************************)
(* The device table mxj_device[] of zbclient.c and the device list         *)
(* json_str made from it.                                                  *)
(*                                                                         *)
(* main() starts the serial thread first and fills the table with the      *)
(* devices of the house afterwards, so the serial thread may look devices  *)
(* up, store their reports, register new ones and publish lists while the  *)
(* table is being filled.  Nothing is locked.  A step is an assignment to  *)
(* a field of an entry, the load or the store of devsize ++, the look-up,  *)
(* or one of the three parts of build_json(): reading the table, copying   *)
(* the first half of the text to json_str, copying the rest.               *)
(***************************************************************************)
EXTENDS Integers, Sequences

CONSTANTS Fixed,      \* the devices main() registers, in order
          New,        \* other devices that announce themselves
          Switches,   \* devices of type 4
          Plug,       \* POWER_CIWO_ID
          Channels,   \* number of channels each device reports
          DEV_SIZE,   \* entries of the table
          LQ, FCS,    \* the last bytes of a report: link quality and checksum
          NameLen,    \* bytes of the name main() gives to each device
          Printed,    \* bytes of an entry of the list apart from name and states
          SENSOR,     \* most bytes of Printed of a device that can register
          REST,       \* most bytes of the entries of the devices not in Fixed
          BUF,        \* bytes of str2 and of json_str
          MaxFrames   \* bound on the frames received

ASSUME TableAssumption ==
  /\ Fixed \in Seq(Nat) /\ New \subseteq Nat
  /\ DEV_SIZE \in Nat /\ Len(Fixed) < DEV_SIZE
  /\ \A i, j \in 1 .. Len(Fixed) : Fixed[i] = Fixed[j] => i = j
  /\ LQ \in 0 .. 255 /\ FCS \in 0 .. 255 /\ MaxFrames \in Nat
  /\ \A i \in 1 .. Len(Fixed) : NameLen[Fixed[i]] \in Nat \ {0}

VARIABLES
  id, named,   \* fields of the entries: id, and the bytes of name, 0 for NULL
  state,       \* field of the entries: the three channels
  devsize,     \* number of entries in use
  json_str,    \* the list published: for either half of the text the list it
               \* comes from, a sequence of entries
  mpc, spc,    \* where the main and the serial thread are
  k,           \* how many devices main() has added
  reg,         \* the devsize a thread has loaded in devsize ++
  dev,         \* id of the frame the serial thread handles
  list,        \* str2 of a thread in build_json()
  told,        \* history: the channels each device last reported
  stale,       \* history: 1 when the other thread changed the table after a
               \* thread read it in build_json(), or their copies overlapped
  late,        \* history: stale, of the thread that published last
  raced,       \* history: 1 when a registration met main() filling the table
  frames,      \* history: number of frames
  down         \* 1 when the process has died

vars == <<id, named, state, devsize, json_str, mpc, spc, k, reg, dev, list,
          told, stale, late, raced, frames, down>>

Fields  == <<id, named, state>>
History == <<told, stale, late, raced, frames>>

Ids     == {Fixed[i] : i \in 1 .. Len(Fixed)} \cup New
Entries == 0 .. DEV_SIZE      \* the last one lies behind the table
Chan    == 1 .. 3
Byte    == {0, 1, LQ, FCS}
Threads == {"main", "serial"}

\* main() registers the plug; state[] has three channels.
ASSUME DeviceAssumption ==
  /\ \E i \in 1 .. Len(Fixed) : Fixed[i] = Plug
  /\ \A d \in Ids : Channels[d] \in Chan

\* The sum of the first n values of f, as a loop of n turns adds them up.
Total(f, n) ==
  LET sum[m \in 0 .. n] == IF m = 0 THEN 0 ELSE sum[m-1] + f[m] IN sum[n]

\* The most bytes the i-th device of the house can need in the list: with its
\* name, three states of three digits and a comma; a sensor may take its place.
Room(i) ==
  (IF Printed[Fixed[i]] > SENSOR THEN Printed[Fixed[i]] ELSE SENSOR) + NameLen[Fixed[i]] + 10

\* The house as main() knows it fits the buffers.
ASSUME TextAssumption ==
  /\ \A d \in Ids \cup {0} : Printed[d] \in Nat
  /\ \A d \in (Ids \ (Switches \cup {Plug})) \cup {0} : Printed[d] <= SENSOR
  /\ SENSOR \in Nat /\ REST \in Nat /\ BUF \in Nat
  /\ 13 + REST + Total([i \in 1 .. Len(Fixed) |-> Room(i)], Len(Fixed)) < BUF

Init ==
  /\ id = [i \in Entries |-> 0] /\ named = [i \in Entries |-> 0]
  /\ state = [i \in Entries |-> [c \in Chan |-> 0]]
  /\ devsize = 0 /\ json_str = << << >>, << >> >>
  /\ mpc = "id" /\ spc = "idle" /\ k = 0 /\ dev = 0
  /\ reg = [t \in Threads |-> 0] /\ list = [t \in Threads |-> << >>]
  /\ told = [d \in Ids |-> [c \in Chan |-> 0]]
  /\ stale = [t \in Threads |-> 0] /\ late = 0 /\ raced = 0
  /\ frames = 0 /\ down = 0

-----------------------------------------------------------------------------
(* What both threads do.                                                   *)

\* The index find_dev() returns, -1 when the device is not in the table.
find_dev(d) ==
  IF \E i \in 0 .. devsize-1 : id[i] = d
  THEN CHOOSE i \in 0 .. devsize-1 : id[i] = d /\ \A j \in 0 .. i-1 : id[j] # d
  ELSE -1

\* The entries build_json() writes out.
Listed == [i \in 1 .. devsize |-> [id |-> id[i-1], name |-> named[i-1], state |-> state[i-1]]]

\* The decimal digits of a byte.
Digits(n) == IF n < 10 THEN 1 ELSE IF n < 100 THEN 2 ELSE 3

\* The bytes json_object_to_json_string() makes of an entry.
EntryText(e) ==
  Printed[e.id] + e.name + Digits(e.state[1]) + Digits(e.state[2]) + Digits(e.state[3])

\* The length of the list: {"devices":[ in front, a comma after each entry, ]}
\* after the last.
ListText(l) == 12 + REST + Total([n \in DOMAIN l |-> EntryText(l[n]) + 1], Len(l)) + 1

\* t has changed the table: a list the other thread is making is out of date.
Outdate(t) ==
  stale' = [u \in Threads |-> IF u # t /\ {mpc, spc} \cap {"copy", "half"} # {} THEN 1 ELSE stale[u]]

\* Mutant: a name that is NULL is listed as an empty one.
ReadTableTolerant(t) ==
  /\ list'  = [list  EXCEPT ![t] = Listed]
  /\ stale' = [stale EXCEPT ![t] = 0]
  /\ UNCHANGED down

\* The loop of build_json().  json_object_new_string() does not survive a
\* device whose name is NULL.
ReadTable(t) ==
  IF \E i \in 0 .. devsize-1 : named[i] = 0
  THEN down' = 1 /\ UNCHANGED <<list, stale>>
  ELSE /\ list'  = [list  EXCEPT ![t] = Listed]
       /\ stale' = [stale EXCEPT ![t] = 0]
       /\ UNCHANGED down

\* strcpy(json_str, str2), first half.  The other thread may be in the middle of
\* its own: then the bytes of the two texts may mix as they will.
CopyList(t) ==
  /\ json_str' = <<list[t], json_str[2]>>
  /\ stale' = [u \in Threads |-> IF "half" \in {mpc, spc} THEN 1 ELSE stale[u]]

\* strcpy(json_str, str2), second half
CopyRest(t) ==
  /\ json_str' = <<json_str[1], list[t]>>
  /\ late'  = stale[t]
  /\ list'  = [list  EXCEPT ![t] = << >>]
  /\ stale' = [stale EXCEPT ![t] = 0]

-----------------------------------------------------------------------------
(* main(): fill the table, ask for all states, publish the first list.     *)

AddId ==
  /\ mpc = "id" /\ k < Len(Fixed)
  /\ id' = [id EXCEPT ![devsize] = Fixed[k+1]]
  /\ mpc' = "fields" /\ raced' = IF spc \in {"fields", "load", "store"} THEN 1 ELSE raced
  /\ Outdate("main")
  /\ UNCHANGED <<named, state, devsize, json_str, spc, k, reg, dev, list, told, late, frames, down>>

\* type, idx, heart, name, registered
AddFields ==
  /\ mpc = "fields"
  /\ named' = [named EXCEPT ![devsize] = NameLen[Fixed[k+1]]]
  /\ mpc' = "load"
  /\ UNCHANGED <<id, state, devsize, json_str, spc, k, reg, dev, list, History, down>>

\* if(devsize<DEV_SIZE) devsize ++;
AddLoad ==
  /\ mpc = "load"
  /\ mpc' = "store" /\ reg' = [reg EXCEPT !["main"] = devsize]
  /\ UNCHANGED <<Fields, devsize, json_str, spc, k, dev, list, History, down>>

\* Mutant: the entry is not counted.
AddStoreForgotten ==
  /\ mpc = "store"
  /\ k' = k + 1 /\ mpc' = "id"
  /\ Outdate("main")
  /\ UNCHANGED <<Fields, devsize, json_str, spc, reg, dev, list, told, late, raced, frames, down>>

AddStore ==
  /\ mpc = "store"
  /\ devsize' = IF reg["main"] < DEV_SIZE THEN reg["main"] + 1 ELSE devsize
  /\ k' = k + 1 /\ mpc' = "id"
  /\ Outdate("main")
  /\ UNCHANGED <<Fields, json_str, spc, reg, dev, list, told, late, raced, frames, down>>

\* MXJ_GetStateMessage(0xffff), then build_json() of main().
FirstList ==
  /\ mpc = "id" /\ k = Len(Fixed)
  /\ ReadTable("main") /\ mpc' = "copy"
  /\ UNCHANGED <<Fields, devsize, json_str, spc, k, reg, dev, told, late, raced, frames>>

FirstCopy ==
  /\ mpc = "copy"
  /\ CopyList("main") /\ mpc' = "half"
  /\ UNCHANGED <<Fields, devsize, spc, k, reg, dev, list, told, late, raced, frames, down>>

FirstRest ==
  /\ mpc = "half"
  /\ CopyRest("main") /\ mpc' = "loop"
  /\ UNCHANGED <<Fields, devsize, spc, k, reg, dev, told, raced, frames, down>>

Main == AddId \/ AddFields \/ AddLoad \/ AddStore \/ FirstList \/ FirstCopy \/ FirstRest

-----------------------------------------------------------------------------
(* Serial thread: recieve_usart().                                         *)

\* Mutant: the second channel is looked for in front of the first.
ReportShifted(d) ==
  /\ spc = "idle" /\ frames < MaxFrames /\ frames' = frames + 1
  /\ \E v \in [1 .. Channels[d] -> {0, 1}] :
       LET r == [c \in Chan |-> IF c <= Channels[d] THEN v[c]
                                ELSE IF c = Channels[d] + 1 THEN LQ ELSE FCS]
           i == find_dev(d)
       IN  IF i = -1 THEN UNCHANGED <<state, told, stale, spc>>
           ELSE /\ state' = [state EXCEPT ![i] = [r EXCEPT ![2] = r[1]]]
                /\ told' = [told EXCEPT ![d] = [c \in Chan |-> IF c \in DOMAIN v THEN v[c] ELSE @[c]]]
                /\ Outdate("serial") /\ spc' = "build"
  /\ UNCHANGED <<id, named, devsize, json_str, mpc, k, reg, dev, list, late, raced, down>>

\* MXJ_SEND_STATE: a report of all the device's channels, then the link
\* quality.  Every report is long enough for the three tests of len, so three
\* bytes are stored whatever the number of channels: of a device with one
\* channel, the link quality and the checksum thread() leaves behind the frame.
Report(d) ==
  /\ spc = "idle" /\ frames < MaxFrames /\ frames' = frames + 1
  /\ \E v \in [1 .. Channels[d] -> {0, 1}] :
       LET r == [c \in Chan |-> IF c <= Channels[d] THEN v[c]
                                ELSE IF c = Channels[d] + 1 THEN LQ ELSE FCS]
           i == find_dev(d)
       IN  IF i = -1 THEN UNCHANGED <<state, told, stale, spc>>
           ELSE /\ state' = [state EXCEPT ![i] = r]
                /\ told' = [told EXCEPT ![d] = [c \in Chan |-> IF c \in DOMAIN v THEN v[c] ELSE @[c]]]
                /\ Outdate("serial") /\ spc' = "build"
  /\ UNCHANGED <<id, named, devsize, json_str, mpc, k, reg, dev, list, late, raced, down>>

\* Mutant: the list is not made again.
ControlUpQuiet(d) ==
  /\ spc = "idle" /\ frames < MaxFrames /\ frames' = frames + 1
  /\ d \in Switches /\ find_dev(d) # -1
  /\ \/ UNCHANGED <<state, told>>
     \/ \E c \in Chan, v \in {0, 1} :
          /\ state' = [state EXCEPT ![find_dev(d)][c] = v]
          /\ told' = [told EXCEPT ![d][c] = v]
  /\ Outdate("serial") /\ UNCHANGED spc
  /\ UNCHANGED <<id, named, devsize, json_str, mpc, k, reg, dev, list, late, raced, down>>

\* MXJ_CTRL_UP of a wall switch: channel rx[5] is now rx[6]; any other rx[5]
\* stores nothing.  A list is made in either case.
ControlUp(d) ==
  /\ spc = "idle" /\ frames < MaxFrames /\ frames' = frames + 1
  /\ d \in Switches /\ find_dev(d) # -1
  /\ \/ UNCHANGED <<state, told>>
     \/ \E c \in Chan, v \in {0, 1} :
          /\ state' = [state EXCEPT ![find_dev(d)][c] = v]
          /\ told' = [told EXCEPT ![d][c] = v]
  /\ Outdate("serial") /\ spc' = "build"
  /\ UNCHANGED <<id, named, devsize, json_str, mpc, k, reg, dev, list, late, raced, down>>

\* MXJ_CTRL_UP of the plug: it is switched over, and no list is made.
Toggle ==
  /\ spc = "idle" /\ frames < MaxFrames /\ frames' = frames + 1
  /\ find_dev(Plug) # -1
  /\ state' = [state EXCEPT ![find_dev(Plug)][1] = 1 - @]
  /\ told' = [told EXCEPT ![Plug][1] = 1 - state[find_dev(Plug)][1]]
  /\ Outdate("serial")
  /\ UNCHANGED <<id, named, devsize, json_str, mpc, spc, k, reg, dev, list, late, raced, down>>

\* MXJ_XIAOMI18 with the model name of a sensor that find_dev() does not know:
\* mxj_device[devsize].id=id
RegisterId(d) ==
  /\ spc = "idle" /\ frames < MaxFrames /\ frames' = frames + 1
  /\ d \in Ids \ Switches /\ d # Plug /\ find_dev(d) = -1
  /\ id' = [id EXCEPT ![devsize] = d] /\ dev' = d
  /\ spc' = "fields" /\ raced' = IF mpc # "loop" THEN 1 ELSE raced
  /\ Outdate("serial")
  /\ UNCHANGED <<named, state, devsize, json_str, mpc, k, reg, list, told, late, down>>

\* type, idx, registered; name is not set.
RegisterFields ==
  /\ spc = "fields"
  /\ spc' = "load"
  /\ UNCHANGED <<Fields, devsize, json_str, mpc, k, reg, dev, list, History, down>>

RegisterLoad ==
  /\ spc = "load"
  /\ spc' = "store" /\ reg' = [reg EXCEPT !["serial"] = devsize]
  /\ UNCHANGED <<Fields, devsize, json_str, mpc, k, dev, list, History, down>>

RegisterStore ==
  /\ spc = "store"
  /\ devsize' = IF reg["serial"] < DEV_SIZE THEN reg["serial"] + 1 ELSE devsize
  /\ spc' = "build"
  /\ Outdate("serial")
  /\ UNCHANGED <<Fields, json_str, mpc, k, reg, dev, list, told, late, raced, frames, down>>

BuildList ==
  /\ spc = "build"
  /\ ReadTable("serial") /\ spc' = "copy"
  /\ UNCHANGED <<Fields, devsize, json_str, mpc, k, reg, dev, told, late, raced, frames>>

BuildCopy ==
  /\ spc = "copy"
  /\ CopyList("serial") /\ spc' = "half"
  /\ UNCHANGED <<Fields, devsize, mpc, k, reg, dev, list, told, late, raced, frames, down>>

BuildRest ==
  /\ spc = "half"
  /\ CopyRest("serial") /\ spc' = "idle"
  /\ UNCHANGED <<Fields, devsize, mpc, k, reg, dev, told, raced, frames, down>>

Serial ==
  \/ \E d \in Ids : Report(d) \/ ControlUp(d) \/ RegisterId(d)
  \/ Toggle
  \/ RegisterFields \/ RegisterLoad \/ RegisterStore \/ BuildList \/ BuildCopy \/ BuildRest

Next == down = 0 /\ (Main \/ Serial)

Spec == Init /\ [][Next]_vars

-----------------------------------------------------------------------------
(* Properties.                                                             *)

\* After the start the table holds the devices of the house, in main()'s
\* order, each with its name, unless a sensor announced itself while main() was
\* filling it.  No other device is ever listed: the first to register takes the
\* process down.
HouseComplete ==
  mpc = "loop" /\ spc = "idle" /\ down = 0 /\ raced = 0 =>
    /\ devsize = Len(Fixed)
    /\ \A i \in 1 .. Len(Fixed) : id[i-1] = Fixed[i] /\ named[i-1] = NameLen[Fixed[i]]

\* Of every device in the table, the channels it has are as it last reported
\* them; only a registration during the start can confuse entries.
StateAsReported ==
  raced = 0 =>
    \A d \in Ids : find_dev(d) # -1 =>
      \A c \in 1 .. Channels[d] : state[find_dev(d)][c] = told[d][c]

\* When no thread is at work both halves of the published list are the table,
\* except for the plug; only when the two threads changed the table or copied
\* lists at the same time can it be an old one or a mixture, until the next
\* report.
ListCurrent ==
  mpc = "loop" /\ spc = "idle" /\ down = 0 /\ late = 0 =>
    \A h \in 1 .. 2 :
      /\ Len(json_str[h]) = devsize
      /\ \A i \in 1 .. devsize :
           id[i-1] # Plug => json_str[h][i] = Listed[i]

\* The text of every list build_json() puts together fits str2, and json_str to
\* which it is copied, whatever was reported and registered and however the
\* registrations met main(): strcat() and strcpy() do not ask.  A mixture of two
\* texts is no longer than the longer of them.
ListFits ==
  /\ \A t \in Threads : ListText(list[t]) < BUF
  /\ \A h \in 1 .. 2 : ListText(json_str[h]) < BUF
=============================================================================
