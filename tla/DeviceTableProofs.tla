-------------------------- MODULE DeviceTableProofs --------------------------
(***************************************************************************)
(* Proofs about the device table and the device list of zbclient.c for     *)
(* every house, every set of new sensors and every number of frames.       *)
(***************************************************************************)
EXTENDS DeviceTable, NaturalsInduction, WellFoundedInduction, TLAPS

MainPc   == {"id", "fields", "load", "store", "copy", "half", "loop"}
SerialPc == {"idle", "fields", "load", "store", "build", "copy", "half"}
Filling  == {"fields", "load", "store"}
States   == [Chan -> Int]

\* The types of the table and of the places of the threads.
TypeOK ==
  /\ id \in [Entries -> Nat] /\ named \in [Entries -> Nat] /\ state \in [Entries -> States]
  /\ devsize \in 0 .. DEV_SIZE /\ k \in 0 .. Len(Fixed)
  /\ mpc \in MainPc /\ spc \in SerialPc
  /\ (mpc \in Filling => k < Len(Fixed))
  /\ reg \in [Threads -> 0 .. DEV_SIZE]
  /\ told \in [Ids -> States] /\ stale \in [Threads -> {0, 1}]
  /\ DOMAIN list = Threads /\ dev \in Nat
  /\ raced \in {0, 1} /\ down \in {0, 1}

LEMMA Constants ==
  /\ DEV_SIZE \in Nat /\ Len(Fixed) \in Nat /\ Len(Fixed) < DEV_SIZE
  /\ \A i \in 1 .. Len(Fixed) : Fixed[i] \in Nat /\ Fixed[i] \in Ids /\ NameLen[Fixed[i]] \in Nat \ {0}
  /\ Ids \subseteq Nat /\ Plug \in Ids
  /\ LQ \in Int /\ FCS \in Int
<1>1. DEV_SIZE \in Nat /\ Len(Fixed) \in Nat /\ Len(Fixed) < DEV_SIZE /\ LQ \in Int /\ FCS \in Int
  <2>1. DEV_SIZE \in Nat /\ Len(Fixed) < DEV_SIZE /\ LQ \in 0 .. 255 /\ FCS \in 0 .. 255
    BY TableAssumption
  <2>2. Fixed \in Seq(Nat)
    BY TableAssumption
  <2>3. Len(Fixed) \in Nat
    BY <2>2
  <2> QED
    BY <2>1, <2>3
<1>2. \A i \in 1 .. Len(Fixed) : Fixed[i] \in Nat /\ NameLen[Fixed[i]] \in Nat \ {0}
  BY TableAssumption
<1>3. \A i \in 1 .. Len(Fixed) : Fixed[i] \in Ids
  BY DEF Ids
<1>4. Ids \subseteq Nat
  <2>1. New \subseteq Nat
    BY TableAssumption
  <2> QED
    BY <1>2, <2>1 DEF Ids
<1>5. Plug \in Ids
  BY <1>3, DeviceAssumption
<1> QED
  BY <1>1, <1>2, <1>3, <1>4, <1>5

LEMMA Least ==
  ASSUME NEW T \in SUBSET Nat, T # {} PROVE \E x \in T : \A y \in T : x <= y
<1> DEFINE R == OpToRel(<, Nat)
<1>1. IsWellFoundedOn(R, Nat)
  BY NatLessThanWellFounded
<1>2. \A x, y \in Nat : y < x => <<y, x>> \in R
  BY DEF OpToRel
<1> HIDE DEF R
<1>3. PICK x \in T : \A y \in T : ~(<<y, x>> \in R)
  BY <1>1, WFMin
<1>4. ASSUME NEW y \in T PROVE x <= y
  <2>1. x \in Nat /\ y \in Nat
    OBVIOUS
  <2>2. ~(y < x)
    BY <1>2, <1>3, <2>1
  <2> QED
    BY <2>1, <2>2
<1> QED
  BY <1>4

\* The index find_dev() returns is one of the table, and the device is there.
LEMMA FindDev ==
  ASSUME TypeOK, NEW d
  PROVE  /\ find_dev(d) # -1 => find_dev(d) \in 0 .. devsize-1 /\ id[find_dev(d)] = d
         /\ find_dev(d) = -1 => \A i \in 0 .. devsize-1 : id[i] # d
<1> DEFINE T == {i \in 0 .. devsize-1 : id[i] = d}
<1>1. ASSUME NEW n \in 0 .. devsize-1, id[n] = d
      PROVE  find_dev(d) \in 0 .. devsize-1 /\ id[find_dev(d)] = d
  <2>0. 0 .. devsize-1 \subseteq Nat
    BY Constants DEF TypeOK
  <2>1. T \in SUBSET Nat /\ T # {}
    BY <1>1, <2>0
  <2>2. PICK x \in T : \A y \in T : x <= y
    <3> HIDE DEF T
    <3> QED BY <2>1, Least
  <2>3. x \in 0 .. devsize-1 /\ id[x] = d /\ devsize \in Nat
    BY DEF TypeOK
  <2>4. \A j \in 0 .. x-1 : j \in 0 .. devsize-1 /\ ~(x <= j)
    BY <2>3
  <2>5. \A j \in 0 .. x-1 : id[j] # d
    BY <2>2, <2>4
  <2> QED
    BY <1>1, <2>3, <2>5 DEF find_dev
<1>2. ~(\E i \in 0 .. devsize-1 : id[i] = d) => find_dev(d) = -1
  BY DEF find_dev
<1>3. -1 \notin 0 .. devsize-1
  OBVIOUS
<1> QED
  BY <1>1, <1>2, <1>3

LEMMA InitTypeOK == Init => TypeOK
BY Constants DEF Init, TypeOK, MainPc, SerialPc, Filling, States, Entries

LEMMA MainTypeOK == ASSUME TypeOK, Main PROVE TypeOK'
<1> USE DEF TypeOK, MainPc, SerialPc, Filling
<1>1. CASE AddId
  <2>1. k + 1 \in 1 .. Len(Fixed)
    BY <1>1, Constants DEF AddId
  <2>2. Fixed[k+1] \in Nat
    BY <2>1, Constants
  <2> QED
    BY <1>1, <2>2, Constants DEF AddId, Outdate, Threads
<1>2. CASE AddFields
  <2>1. k + 1 \in 1 .. Len(Fixed)
    BY <1>2, Constants DEF AddFields
  <2>2. NameLen[Fixed[k+1]] \in Nat
    BY <2>1, Constants
  <2> QED
    BY <1>2, <2>2 DEF AddFields, History
<1>3. CASE AddLoad
  BY <1>3 DEF AddLoad, History, Fields, Threads
<1>4. CASE AddStore
  <2>1. reg["main"] \in 0 .. DEV_SIZE
    BY DEF Threads
  <2>2. devsize' \in 0 .. DEV_SIZE /\ k' \in 0 .. Len(Fixed)
    BY <1>4, <2>1, Constants DEF AddStore
  <2>3. stale' \in [Threads -> {0, 1}]
    BY <1>4 DEF AddStore, Outdate
  <2> QED
    BY <1>4, <2>2, <2>3 DEF AddStore, Fields
<1>5. CASE FirstList
  BY <1>5 DEF FirstList, ReadTable, Fields, Threads
<1>6. CASE FirstCopy \/ FirstRest
  BY <1>6 DEF FirstCopy, FirstRest, CopyList, CopyRest, Fields, Threads
<1> QED
  BY <1>1, <1>2, <1>3, <1>4, <1>5, <1>6 DEF Main

LEMMA ReportTypeOK == ASSUME TypeOK, NEW d \in Ids, Report(d) PROVE TypeOK'
<1>1. PICK v \in [1 .. Channels[d] -> {0, 1}] :
        \/ UNCHANGED <<state, told, stale, spc>>
        \/ /\ state' = [state EXCEPT ![find_dev(d)] =
                          [c \in Chan |-> IF c <= Channels[d] THEN v[c]
                                          ELSE IF c = Channels[d] + 1 THEN LQ ELSE FCS]]
           /\ told' = [told EXCEPT ![d] = [c \in Chan |-> IF c \in DOMAIN v THEN v[c] ELSE told[d][c]]]
           /\ Outdate("serial") /\ spc' = "build"
  BY DEF Report
<1>2. Channels[d] \in Nat
  BY DeviceAssumption DEF Chan
<1>3. [c \in Chan |-> IF c <= Channels[d] THEN v[c]
                      ELSE IF c = Channels[d] + 1 THEN LQ ELSE FCS] \in States
  <2>1. \A c \in Chan : c <= Channels[d] => v[c] \in Int
    BY <1>2 DEF Chan
  <2> QED
    BY <2>1, Constants DEF States
<1>4. [c \in Chan |-> IF c \in DOMAIN v THEN v[c] ELSE told[d][c]] \in States
  BY DEF TypeOK, States
<1>5. state' \in [Entries -> States] /\ told' \in [Ids -> States] /\ stale' \in [Threads -> {0, 1}]
      /\ spc' \in SerialPc
  BY <1>1, <1>3, <1>4 DEF TypeOK, Outdate, SerialPc
<1> QED
  BY <1>5 DEF Report, TypeOK

LEMMA SwitchTypeOK ==
  ASSUME TypeOK, Toggle \/ \E d \in Ids : ControlUp(d) PROVE TypeOK'
<1>1. ASSUME NEW i, NEW c \in Chan, NEW x \in Int PROVE [state EXCEPT ![i][c] = x] \in [Entries -> States]
  <2>1. i \in Entries => [state[i] EXCEPT ![c] = x] \in States
    BY DEF TypeOK, States
  <2> QED
    BY <2>1 DEF TypeOK
<1>2. ASSUME NEW d \in Ids, NEW c \in Chan, NEW x \in Int PROVE [told EXCEPT ![d][c] = x] \in [Ids -> States]
  <2>1. [told[d] EXCEPT ![c] = x] \in States
    BY DEF TypeOK, States
  <2> QED
    BY <2>1 DEF TypeOK
<1>3. CASE \E d \in Ids : ControlUp(d)
  <2> PICK d \in Ids : ControlUp(d)
    BY <1>3
  <2>1. state' \in [Entries -> States] /\ told' \in [Ids -> States]
    <3>1. CASE UNCHANGED <<state, told>>
      BY <3>1 DEF TypeOK
    <3>2. ASSUME NEW c \in Chan, NEW v \in {0, 1}, state' = [state EXCEPT ![find_dev(d)][c] = v],
                 told' = [told EXCEPT ![d][c] = v]
          PROVE  state' \in [Entries -> States] /\ told' \in [Ids -> States]
      <4>1. v \in Int
        OBVIOUS
      <4>2. [state EXCEPT ![find_dev(d)][c] = v] \in [Entries -> States]
        BY <1>1, <4>1
      <4>3. [told EXCEPT ![d][c] = v] \in [Ids -> States]
        BY <1>2, <4>1
      <4> QED
        BY <3>2, <4>2, <4>3
    <3> QED
      BY <3>1, <3>2 DEF ControlUp
  <2> QED
    BY <2>1 DEF ControlUp, TypeOK, Outdate, SerialPc
<1>4. CASE Toggle
  <2>0. find_dev(Plug) \in Entries
    <3>1. find_dev(Plug) \in 0 .. devsize-1
      BY <1>4, FindDev DEF Toggle
    <3>2. 0 .. devsize-1 \subseteq Entries
      BY Constants DEF Entries, TypeOK
    <3> QED
      BY <3>1, <3>2
  <2>1. 1 - state[find_dev(Plug)][1] \in Int /\ 1 \in Chan
    BY <2>0 DEF Chan, TypeOK, States
  <2>2. state' \in [Entries -> States] /\ told' \in [Ids -> States]
    BY <1>1, <1>2, <1>4, <2>1, Constants DEF Toggle
  <2> QED
    BY <1>4, <2>2 DEF Toggle, TypeOK, Outdate
<1> QED
  BY <1>3, <1>4

LEMMA SerialTypeOK == ASSUME TypeOK, Serial PROVE TypeOK'
<1>1. ASSUME NEW d \in Ids, RegisterId(d) PROVE TypeOK'
  BY <1>1, Constants DEF RegisterId, TypeOK, Outdate, SerialPc
<1>2. CASE RegisterFields \/ RegisterLoad
  BY <1>2 DEF RegisterFields, RegisterLoad, TypeOK, SerialPc, Fields, History, Threads
<1>3. CASE RegisterStore
  <2>1. devsize' \in 0 .. DEV_SIZE
    BY <1>3, Constants DEF RegisterStore, TypeOK, Threads
  <2> QED
    BY <1>3, <2>1 DEF RegisterStore, TypeOK, Outdate, SerialPc, Fields
<1>4. CASE BuildList
  BY <1>4 DEF BuildList, ReadTable, TypeOK, SerialPc, Fields, Threads
<1>5. CASE BuildCopy \/ BuildRest
  BY <1>5 DEF BuildCopy, BuildRest, CopyList, CopyRest, TypeOK, SerialPc, Fields, Threads
<1> QED
  BY <1>1, <1>2, <1>3, <1>4, <1>5, ReportTypeOK, SwitchTypeOK DEF Serial

\* devsize never passes DEV_SIZE: no entry but the one behind the table can be
\* written outside it, and none outside it is read.
THEOREM SpecTypeOK == Spec => []TypeOK
<1>1. TypeOK /\ [Next]_vars => TypeOK'
  <2> SUFFICES ASSUME TypeOK, [Next]_vars PROVE TypeOK'
    OBVIOUS
  <2>1. CASE Next
    BY <2>1, MainTypeOK, SerialTypeOK DEF Next
  <2>2. CASE UNCHANGED vars
    BY <2>2 DEF vars, TypeOK
  <2> QED
    BY <2>1, <2>2
<1> QED
  BY <1>1, InitTypeOK, PTL DEF Spec

-----------------------------------------------------------------------------
(* The devices of the house.                                               *)

\* The first n entries are the first n devices of main().
Table(n) == \A i \in 1 .. n : id[i-1] = Fixed[i] /\ named[i-1] = NameLen[Fixed[i]]

\* How far main() is, as long as no registration met it.  The entries behind
\* have no name, so the list made after a registration is the last one.
House ==
  raced = 0 /\ down = 0 =>
    /\ mpc # "loop" => spc \notin Filling
    /\ mpc \in {"copy", "half", "loop"} => k = Len(Fixed)
    /\ Table(k)
    /\ mpc \in Filling => id[k] = Fixed[k+1]
    /\ mpc \in {"load", "store"} => named[k] = NameLen[Fixed[k+1]]
    /\ mpc = "store" => reg["main"] = k
    /\ spc = "store" => reg["serial"] = k
    /\ \A i \in Entries : i > k \/ (i = k /\ mpc \notin {"load", "store"}) => named[i] = 0
    /\ devsize = k \/ (mpc = "loop" /\ spc = "build" /\ devsize = k + 1)

\* The first k entries lie in the table.
LEMMA KInside ==
  ASSUME TypeOK
  PROVE  /\ k \in Nat /\ k <= Len(Fixed) /\ k < DEV_SIZE /\ k \in Entries
         /\ \A i \in 1 .. k : i - 1 \in Entries /\ i - 1 < k
BY Constants DEF TypeOK, Entries

LEMMA MainHouse == ASSUME TypeOK, House, down = 0, Main PROVE House'
<1> SUFFICES ASSUME raced' = 0, down' = 0
             PROVE  House'
  BY DEF House
<1>1. raced = 0
  BY DEF Main, AddId, AddFields, AddLoad, AddStore, FirstList, FirstCopy, FirstRest, History, TypeOK
<1> USE <1>1, KInside DEF House
<1>2. CASE AddId
  <2>1. devsize = k
    BY <1>2 DEF AddId
  <2>2. /\ id'[k] = Fixed[k+1] /\ \A i \in Entries : i # k => id'[i] = id[i]
        /\ UNCHANGED <<named, devsize, spc, k, reg>> /\ mpc' = "fields" /\ mpc = "id"
    BY <1>2, <2>1 DEF AddId, TypeOK
  <2>3. Table(k)'
    BY <2>2 DEF Table
  <2> QED
    BY <2>1, <2>2, <2>3
<1>3. CASE AddFields
  <2>1. devsize = k
    BY <1>3 DEF AddFields
  <2>2. /\ named'[k] = NameLen[Fixed[k+1]] /\ \A i \in Entries : i # k => named'[i] = named[i]
        /\ UNCHANGED <<id, devsize, spc, k, reg>> /\ mpc' = "load" /\ mpc = "fields"
    BY <1>3, <2>1 DEF AddFields, TypeOK
  <2>3. Table(k)'
    BY <2>2 DEF Table
  <2> QED
    BY <2>1, <2>2, <2>3 DEF Filling
<1>4. CASE AddLoad
  <2>1. devsize = k
    BY <1>4 DEF AddLoad
  <2>2. /\ reg'["main"] = k /\ reg'["serial"] = reg["serial"]
        /\ UNCHANGED <<id, named, devsize, spc, k>> /\ mpc' = "store" /\ mpc = "load"
    BY <1>4, <2>1 DEF AddLoad, TypeOK, Fields, Threads
  <2> QED
    BY <2>1, <2>2 DEF Filling, Table
<1>5. CASE AddStore
  <2>1. devsize = k /\ reg["main"] = k
    BY <1>5 DEF AddStore
  <2>2. /\ devsize' = k + 1 /\ k' = k + 1
        /\ UNCHANGED <<id, named, spc, reg>> /\ mpc' = "id" /\ mpc = "store"
    BY <1>5, <2>1 DEF AddStore, Fields
  <2>3. Table(k)'
    <3>1. \A i \in 1 .. k+1 : i \in 1 .. k \/ (i = k + 1 /\ i - 1 = k)
      OBVIOUS
    <3>2. id[k] = Fixed[k+1] /\ named[k] = NameLen[Fixed[k+1]]
      BY <2>2 DEF Filling
    <3> QED
      BY <2>2, <3>1, <3>2 DEF Table
  <2>4. spc \notin Filling
    BY <2>2
  <2>5. \A i \in Entries : i >= k + 1 => named'[i] = 0
    BY <2>2, Constants DEF Entries
  <2>6. \A i \in Entries : i > k' \/ i = k' => i >= k + 1
    BY <2>2, Constants DEF Entries
  <2> QED
    BY <2>1, <2>2, <2>3, <2>4, <2>5, <2>6 DEF Filling
<1>6. CASE FirstList
  BY <1>6 DEF FirstList, Fields, Table, Filling
<1>7. CASE FirstCopy \/ FirstRest
  BY <1>7 DEF FirstCopy, FirstRest, Fields, Table, Filling
<1> QED
  BY <1>2, <1>3, <1>4, <1>5, <1>6, <1>7 DEF Main

LEMMA SerialHouse == ASSUME TypeOK, House, down = 0, Serial PROVE House'
<1> SUFFICES ASSUME raced' = 0, down' = 0
             PROVE  House'
  BY DEF House
<1>1. raced = 0
  BY DEF Serial, Report, ControlUp, RegisterId, Toggle, RegisterFields, RegisterLoad,
    RegisterStore, BuildList, BuildCopy, BuildRest, History, TypeOK
<1> USE <1>1, KInside DEF House
<1>2. ASSUME NEW d \in Ids, Report(d) \/ ControlUp(d) PROVE House'
  <2>1. UNCHANGED <<id, named, devsize, mpc, k, reg>> /\ spc = "idle" /\ spc' \in {"idle", "build"}
    BY <1>2 DEF Report, ControlUp
  <2> QED
    BY <2>1 DEF Table, Filling
<1>3. CASE Toggle
  BY <1>3 DEF Toggle, Table, Filling
<1>4. ASSUME NEW d \in Ids, RegisterId(d) PROVE House'
  <2>1. mpc = "loop" /\ spc = "idle" /\ devsize = k
    BY <1>4 DEF RegisterId
  <2>2. /\ \A i \in Entries : i # k => id'[i] = id[i]
        /\ UNCHANGED <<named, devsize, mpc, k, reg>> /\ spc' = "fields"
    BY <1>4, <2>1 DEF RegisterId, TypeOK
  <2>3. Table(k)'
    BY <2>2 DEF Table
  <2> QED
    BY <2>1, <2>2, <2>3 DEF Filling
<1>5. CASE RegisterFields
  BY <1>5 DEF RegisterFields, Fields, Table, Filling
<1>6. CASE RegisterLoad
  <2>1. devsize = k
    BY <1>6 DEF RegisterLoad
  <2>2. /\ reg'["serial"] = k /\ reg'["main"] = reg["main"]
        /\ UNCHANGED <<id, named, devsize, mpc, k>> /\ spc' = "store" /\ spc = "load"
    BY <1>6, <2>1 DEF RegisterLoad, TypeOK, Fields, Threads
  <2> QED
    BY <2>1, <2>2 DEF Filling, Table
<1>7. CASE RegisterStore
  <2>1. reg["serial"] = k /\ mpc = "loop"
    BY <1>7 DEF RegisterStore, Filling
  <2>2. devsize' = k + 1 /\ UNCHANGED <<id, named, mpc, k, reg>> /\ spc' = "build"
    BY <1>7, <2>1 DEF RegisterStore, Fields
  <2> QED
    BY <2>1, <2>2 DEF Filling, Table
<1>8. CASE BuildList
  <2>1. UNCHANGED <<id, named, devsize, mpc, k, reg>> /\ spc' = "copy"
    BY <1>8 DEF BuildList, Fields
  <2>2. \A i \in 0 .. devsize-1 : named[i] # 0
    BY <1>8 DEF BuildList, ReadTable
  <2>3. devsize = k
    <3>1. devsize = k + 1 => k \in 0 .. devsize-1
      OBVIOUS
    <3>2. devsize = k + 1 /\ mpc = "loop" => named[k] = 0
      OBVIOUS
    <3> QED
      BY <2>2, <3>1, <3>2
  <2> QED
    BY <2>1, <2>3 DEF Filling, Table
<1>9. CASE BuildCopy \/ BuildRest
  BY <1>9 DEF BuildCopy, BuildRest, Fields, Table, Filling
<1> QED
  BY <1>2, <1>3, <1>4, <1>5, <1>6, <1>7, <1>8, <1>9 DEF Serial

LEMMA NextHouse == TypeOK /\ House /\ [Next]_vars => House'
<1> SUFFICES ASSUME TypeOK, House, [Next]_vars PROVE House'
  OBVIOUS
<1>1. CASE Next
  BY <1>1, MainHouse, SerialHouse DEF Next
<1>2. CASE UNCHANGED vars
  BY <1>2 DEF vars, House, Table
<1> QED
  BY <1>1, <1>2

LEMMA InitHouse == Init => House
BY Constants DEF Init, House, Table, Filling

\* After the start the table is the house, and stays it as long as the process
\* lives, unless a sensor announced itself while main() was filling it.
THEOREM SpecHouseComplete == Spec => []HouseComplete
<1>1. TypeOK /\ House => HouseComplete
  BY DEF House, HouseComplete, Table
<1> QED
  BY <1>1, SpecTypeOK, InitHouse, NextHouse, PTL DEF Spec

-----------------------------------------------------------------------------
(* The states of the devices.                                              *)

Used     == 0 .. devsize-1
Known(d) == \E i \in Used : id[i] = d
Right(i) == \A c \in 1 .. Channels[id[i]] : state[i][c] = told[id[i]][c]

\* Every entry is another device's and as it reported; a device that has no
\* entry has reported nothing, and the entries behind are empty.
Reported ==
  raced = 0 =>
    /\ \A i, j \in Used : id[i] = id[j] => i = j
    /\ \A i \in Used : id[i] \in Ids /\ Right(i)
    /\ \A d \in Ids : ~Known(d) => \A c \in Chan : told[d][c] = 0
    /\ \A i \in Entries : i >= devsize => \A c \in Chan : state[i][c] = 0
    /\ down = 0 /\ spc \in Filling => dev \in Ids /\ id[devsize] = dev /\ ~Known(dev)

LEMMA UsedEntries ==
  ASSUME TypeOK
  PROVE  /\ devsize \in Nat /\ devsize \in Entries /\ devsize \notin Used
         /\ Used \subseteq Entries /\ \A i \in Used : i # devsize /\ ~(i >= devsize)
BY Constants DEF TypeOK, Entries, Used

\* One more entry, for a device that had none.
LEMMA GrowReported ==
  ASSUME TypeOK, Reported, raced = 0, NEW d \in Ids, id[devsize] = d, ~Known(d),
         devsize' = devsize + 1, UNCHANGED <<id, state, told, raced>>, spc' \notin Filling
  PROVE  Reported'
<1>1. Used' = Used \cup {devsize} /\ devsize \notin Used /\ devsize \in Entries
  BY UsedEntries DEF Used
<1>2. \A i, j \in Used' : id[i] = id[j] => i = j
  BY <1>1 DEF Reported, Known
<1>3. Right(devsize)
  <2>1. \A c \in Chan : told[d][c] = 0 /\ state[devsize][c] = 0
    BY <1>1, UsedEntries DEF Reported
  <2>2. 1 .. Channels[d] \subseteq Chan
    BY DeviceAssumption DEF Chan
  <2> QED
    BY <2>1, <2>2 DEF Right
<1>4. \A i \in Used' : id[i] \in Ids /\ Right(i)
  BY <1>1, <1>3 DEF Reported
<1>5. \A i \in Used' : Right(i)'
  BY <1>4 DEF Right
<1>6. \A e \in Ids : ~Known(e)' => ~Known(e)
  BY <1>1 DEF Known
<1>7. \A i \in Entries : i >= devsize' => i >= devsize
  BY UsedEntries, Constants DEF Entries
<1> QED
  BY <1>2, <1>4, <1>5, <1>6, <1>7 DEF Reported

\* The table, the states and the reports stay.
LEMMA SameReported ==
  ASSUME Reported, UNCHANGED <<id, state, told, devsize, dev, raced>>, down = 0,
         spc' \in Filling => spc \in Filling
  PROVE  Reported'
<1>1. Used' = Used /\ (\A d \in Ids : Known(d)' <=> Known(d)) /\ \A i \in Used : Right(i)' <=> Right(i)
  BY DEF Used, Known, Right
<1>2. raced = 0 /\ down' = 0 /\ spc' \in Filling => dev \in Ids /\ id[devsize] = dev /\ ~Known(dev)
  BY DEF Reported
<1> QED
  BY <1>1, <1>2 DEF Reported, Used, Known, Right

LEMMA MainReported == ASSUME TypeOK, House, Reported, down = 0, Main PROVE Reported'
<1> SUFFICES ASSUME raced' = 0 PROVE Reported'
  BY DEF Reported
<1>1. raced = 0
  BY DEF Main, AddId, AddFields, AddLoad, AddStore, FirstList, FirstCopy, FirstRest, History, TypeOK
<1>2. CASE AddId
  <2>1. /\ \A i \in Used : id'[i] = id[i]
        /\ UNCHANGED <<state, devsize, told, spc, dev, raced, down>> /\ spc \notin Filling
    BY <1>1, <1>2, UsedEntries DEF AddId, TypeOK, House
  <2>2. Used' = Used /\ (\A d \in Ids : Known(d)' <=> Known(d)) /\ \A i \in Used : Right(i)' <=> Right(i)
    BY <2>1 DEF Used, Known, Right
  <2> QED
    BY <1>1, <2>1, <2>2 DEF Reported
<1>3. CASE AddStore
  <2>1. devsize = k /\ reg["main"] = k /\ spc \notin Filling /\ id[k] = Fixed[k+1] /\ Table(k) /\ mpc = "store"
    BY <1>1, <1>3 DEF AddStore, House, Filling
  <2>2. devsize' = devsize + 1 /\ UNCHANGED <<id, state, told, raced, spc>>
    BY <1>3, <2>1, KInside DEF AddStore, Fields
  <2>3. k + 1 \in 1 .. Len(Fixed)
    BY <2>1, Constants, KInside DEF TypeOK, Filling
  <2>4. Fixed[k+1] \in Ids
    BY <2>3, Constants
  <2>5. ~Known(Fixed[k+1])
    <3> SUFFICES ASSUME NEW i \in Used PROVE id[i] # Fixed[k+1]
      BY DEF Known
    <3>1. i + 1 \in 1 .. k /\ (i + 1) - 1 = i /\ i + 1 # k + 1 /\ i + 1 \in 1 .. Len(Fixed)
      BY <2>1, Constants, KInside DEF Used
    <3>2. id[i] = Fixed[i+1]
      BY <2>1, <3>1 DEF Table
    <3> QED
      BY <2>3, <3>1, <3>2, TableAssumption
  <2> QED
    BY <1>1, <2>1, <2>2, <2>4, <2>5, GrowReported
<1>4. CASE AddFields \/ AddLoad \/ FirstList \/ FirstCopy \/ FirstRest
  <2>1. UNCHANGED <<id, state, told, devsize, dev, raced, spc>>
    BY <1>4 DEF AddFields, AddLoad, FirstList, FirstCopy, FirstRest, Fields, History
  <2> QED
    BY <2>1, SameReported
<1> QED
  BY <1>2, <1>3, <1>4 DEF Main

\* A device stores what it says into its own entry.
LEMMA StoreReported ==
  ASSUME TypeOK, Reported, raced = 0, NEW d \in Ids, NEW n \in Used, id[n] = d,
         UNCHANGED <<id, devsize, dev, raced>>, spc' \notin Filling,
         \A i \in Entries : i # n => state'[i] = state[i],
         \A e \in Ids : e # d => told'[e] = told[e],
         \A c \in 1 .. Channels[d] : state'[n][c] = told'[d][c]
  PROVE  Reported'
<1>1. Used' = Used /\ (\A e \in Ids : Known(e)' <=> Known(e)) /\ Known(d)
  BY DEF Used, Known
<1>2. ASSUME NEW i \in Used PROVE id[i] \in Ids /\ Right(i)'
  <2>1. CASE i = n
    BY <2>1 DEF Right
  <2>2. CASE i # n
    <3>1. i \in Entries /\ id[i] # d /\ id[i] \in Ids /\ Right(i)
      BY <2>2, UsedEntries DEF Reported
    <3>2. state'[i] = state[i] /\ told'[id[i]] = told[id[i]]
      BY <2>2, <3>1
    <3> QED
      BY <3>1, <3>2 DEF Right
  <2> QED
    BY <2>1, <2>2
<1>3. \A i \in Entries : i >= devsize => i # n /\ state'[i] = state[i]
  BY UsedEntries
<1>4. \A e \in Ids : ~Known(e) => e # d /\ told'[e] = told[e]
  BY <1>1
<1> QED
  BY <1>1, <1>2, <1>3, <1>4 DEF Reported, Used

LEMMA SerialReported == ASSUME TypeOK, House, Reported, down = 0, Serial PROVE Reported'
<1> SUFFICES ASSUME raced' = 0 PROVE Reported'
  BY DEF Reported
<1>1. raced = 0
  BY DEF Serial, Report, ControlUp, RegisterId, Toggle, RegisterFields, RegisterLoad,
    RegisterStore, BuildList, BuildCopy, BuildRest, History, TypeOK
<1>2. ASSUME NEW d \in Ids, Report(d) PROVE Reported'
  <2>1. PICK v \in [1 .. Channels[d] -> {0, 1}] :
          \/ UNCHANGED <<state, told, stale, spc>>
          \/ /\ find_dev(d) # -1
             /\ state' = [state EXCEPT ![find_dev(d)] =
                            [c \in Chan |-> IF c <= Channels[d] THEN v[c]
                                            ELSE IF c = Channels[d] + 1 THEN LQ ELSE FCS]]
             /\ told' = [told EXCEPT ![d] = [c \in Chan |-> IF c \in DOMAIN v THEN v[c] ELSE told[d][c]]]
             /\ Outdate("serial") /\ spc' = "build"
    BY <1>2 DEF Report
  <2>2. UNCHANGED <<id, devsize, dev, raced>> /\ spc = "idle"
    BY <1>2 DEF Report
  <2>3. CASE UNCHANGED <<state, told, stale, spc>>
    BY <2>2, <2>3, SameReported
  <2>4. CASE ~UNCHANGED <<state, told, stale, spc>>
    <3> DEFINE n == find_dev(d)
    <3>1. n \in Used /\ id[n] = d /\ n \in Entries
      BY <2>1, <2>4, FindDev, UsedEntries DEF Used
    <3>2. \A c \in 1 .. Channels[d] : c \in Chan /\ c <= Channels[d] /\ c \in DOMAIN v
      BY DeviceAssumption DEF Chan
    <3> HIDE DEF n
    <3>3. state'[n] = [c \in Chan |-> IF c <= Channels[d] THEN v[c]
                                      ELSE IF c = Channels[d] + 1 THEN LQ ELSE FCS]
          /\ \A i \in Entries : i # n => state'[i] = state[i]
      BY <2>1, <2>4, <3>1 DEF TypeOK, n
    <3>4. told'[d] = [c \in Chan |-> IF c \in DOMAIN v THEN v[c] ELSE told[d][c]]
          /\ \A e \in Ids : e # d => told'[e] = told[e]
      BY <2>1, <2>4 DEF TypeOK
    <3>5. \A c \in 1 .. Channels[d] : state'[n][c] = told'[d][c]
      BY <3>2, <3>3, <3>4
    <3>6. spc' \notin Filling
      BY <2>1, <2>4 DEF Filling
    <3> QED
      BY <1>1, <2>2, <3>1, <3>3, <3>4, <3>5, <3>6, StoreReported
  <2> QED
    BY <2>3, <2>4
<1>3. ASSUME NEW d \in Ids, NEW c \in Chan, NEW x, find_dev(d) # -1,
             state' = [state EXCEPT ![find_dev(d)][c] = x], told' = [told EXCEPT ![d][c] = x],
             UNCHANGED <<id, devsize, dev, raced>>, spc' \notin Filling
      PROVE  Reported'
  <2> DEFINE n == find_dev(d)
  <2>1. n \in Used /\ id[n] = d /\ n \in Entries
    BY <1>3, FindDev, UsedEntries DEF Used
  <2> HIDE DEF n
  <2>2. /\ state'[n] = [state[n] EXCEPT ![c] = x] /\ state[n] \in States
        /\ \A i \in Entries : i # n => state'[i] = state[i]
    BY <1>3, <2>1 DEF TypeOK, n
  <2>3. /\ told'[d] = [told[d] EXCEPT ![c] = x] /\ told[d] \in States
        /\ \A e \in Ids : e # d => told'[e] = told[e]
    BY <1>3 DEF TypeOK
  <2>4. ASSUME NEW b \in 1 .. Channels[d] PROVE state'[n][b] = told'[d][b]
    <3>1. b \in Chan
      BY DeviceAssumption DEF Chan
    <3>2. state[n][b] = told[d][b]
      BY <1>1, <2>1 DEF Reported, Right
    <3> QED
      BY <2>2, <2>3, <3>1, <3>2 DEF States
  <2> QED
    BY <1>1, <1>3, <2>1, <2>2, <2>3, <2>4, StoreReported
<1>4. ASSUME NEW d \in Ids, ControlUp(d) PROVE Reported'
  <2>1. UNCHANGED <<id, devsize, dev, raced>> /\ spc' = "build" /\ find_dev(d) # -1
    BY <1>4 DEF ControlUp
  <2>2. CASE UNCHANGED <<state, told>>
    BY <2>1, <2>2, SameReported DEF Filling
  <2>3. CASE ~UNCHANGED <<state, told>>
    <3>1. PICK c \in Chan, v \in {0, 1} : state' = [state EXCEPT ![find_dev(d)][c] = v]
                                         /\ told' = [told EXCEPT ![d][c] = v]
      BY <1>4, <2>3 DEF ControlUp
    <3> QED
      BY <1>3, <2>1, <3>1 DEF Filling
  <2> QED
    BY <2>2, <2>3
<1>5. CASE Toggle
  <2> DEFINE x == 1 - state[find_dev(Plug)][1]
  <2>1. /\ state' = [state EXCEPT ![find_dev(Plug)][1] = x] /\ told' = [told EXCEPT ![Plug][1] = x]
        /\ UNCHANGED <<id, devsize, dev, raced>> /\ spc' = "idle" /\ find_dev(Plug) # -1
    BY <1>5 DEF Toggle
  <2>2. 1 \in Chan /\ Plug \in Ids
    BY Constants DEF Chan
  <2> HIDE DEF x
  <2> QED
    BY <1>3, <2>1, <2>2 DEF Filling
<1>6. ASSUME NEW d \in Ids, RegisterId(d) PROVE Reported'
  <2>1. /\ id'[devsize] = d /\ \A i \in Used : id'[i] = id[i]
        /\ UNCHANGED <<state, devsize, told, raced, down>> /\ dev' = d /\ find_dev(d) = -1
    BY <1>1, <1>6, UsedEntries DEF RegisterId, TypeOK
  <2>2. Used' = Used /\ (\A e \in Ids : Known(e)' <=> Known(e)) /\ \A i \in Used : Right(i)' <=> Right(i)
    BY <2>1 DEF Used, Known, Right
  <2>3. ~Known(d)
    BY <2>1, FindDev DEF Known, Used
  <2> QED
    BY <1>1, <2>1, <2>2, <2>3 DEF Reported
<1>7. CASE RegisterStore
  <2>1. devsize = k /\ reg["serial"] = k /\ dev \in Ids /\ id[devsize] = dev /\ ~Known(dev)
    BY <1>1, <1>7 DEF RegisterStore, House, Reported, Filling
  <2>2. devsize' = devsize + 1 /\ UNCHANGED <<id, state, told, raced>> /\ spc' = "build"
    BY <1>7, <2>1, KInside DEF RegisterStore, Fields
  <2> QED
    BY <1>1, <2>1, <2>2, GrowReported DEF Filling
<1>8. CASE RegisterFields \/ RegisterLoad \/ BuildList \/ BuildCopy \/ BuildRest
  <2>1. UNCHANGED <<id, state, told, devsize, dev, raced>> /\ (spc' \in Filling => spc \in Filling)
    BY <1>8 DEF RegisterFields, RegisterLoad, BuildList, BuildCopy, BuildRest, Fields, History, Filling
  <2> QED
    BY <2>1, SameReported
<1> QED
  BY <1>2, <1>4, <1>5, <1>6, <1>7, <1>8 DEF Serial

\* The channels of every device in the table are as it last reported them,
\* unless a sensor announced itself while main() was filling the table.
THEOREM SpecStateAsReported == Spec => []StateAsReported
<1>1. Init => Reported
  <2>1. Init => Used = {} /\ spc \notin Filling
    BY DEF Init, Used, Filling
  <2> QED
    BY <2>1 DEF Init, Reported
<1>2. TypeOK /\ House /\ Reported /\ [Next]_vars => Reported'
  <2> SUFFICES ASSUME TypeOK, House, Reported, [Next]_vars PROVE Reported'
    OBVIOUS
  <2>1. CASE Next
    BY <2>1, MainReported, SerialReported DEF Next
  <2>2. CASE UNCHANGED vars
    BY <2>2 DEF vars, Reported, Used, Known, Right
  <2> QED
    BY <2>1, <2>2
<1>3. TypeOK /\ Reported => StateAsReported
  <2> SUFFICES ASSUME TypeOK, Reported, raced = 0, NEW d \in Ids, find_dev(d) # -1
               PROVE  \A c \in 1 .. Channels[d] : state[find_dev(d)][c] = told[d][c]
    BY DEF StateAsReported
  <2>1. find_dev(d) \in Used /\ id[find_dev(d)] = d
    BY FindDev DEF Used
  <2> QED
    BY <2>1 DEF Reported, Right
<1> QED
  BY <1>1, <1>2, <1>3, SpecTypeOK, InitHouse, NextHouse, PTL DEF Spec

-----------------------------------------------------------------------------
(* The published list.                                                     *)

\* l is the table, except for the plug.
Current(l) ==
  /\ Len(l) = devsize
  /\ \A i \in 1 .. devsize : id[i-1] # Plug => l[i] = Listed[i]

Half(t)   == IF t = "main" THEN mpc = "half" ELSE spc = "half"
Copies(t) == Half(t) \/ IF t = "main" THEN mpc = "copy" ELSE spc = "copy"

\* A list that is being copied is current, and the half that has been copied is
\* still there, unless the other thread has changed the table or copied since.
Read ==
  \A t \in Threads : down = 0 /\ Copies(t) /\ stale[t] = 0 =>
    Current(list[t]) /\ (Half(t) => json_str[1] = list[t])

\* What the list shows of the table.
LEMMA SameCurrent ==
  ASSUME TypeOK, NEW l, Current(l), UNCHANGED devsize,
         \A i \in Used : id'[i] = id[i] /\ named'[i] = named[i],
         \A i \in Used : id[i] # Plug => state'[i] = state[i]
  PROVE  Current(l)'
<1>1. \A i \in 1 .. devsize : i - 1 \in Used
  BY UsedEntries DEF Used
<1>2. \A i \in 1 .. devsize : id[i-1] # Plug => Listed[i]' = Listed[i]
  BY <1>1 DEF Listed
<1> QED
  BY <1>1, <1>2 DEF Current

LEMMA ListedCurrent == ASSUME TypeOK PROVE Current(Listed)
<1>1. devsize \in Nat
  BY UsedEntries
<1>2. Len(Listed) = devsize
  BY <1>1 DEF Listed
<1> QED
  BY <1>2 DEF Current

\* A step that changes what a list shows outdates the other thread's.
LEMMA OutdateRead ==
  ASSUME TypeOK, NEW t \in Threads, Outdate(t), NEW u \in Threads, u # t, Copies(u)
  PROVE  stale'[u] = 1
BY DEF Outdate, Copies, Half, Threads

\* Neither thread starts or goes on copying, and the table shows the same or
\* the copying thread is outdated.
LEMMA MainRead == ASSUME TypeOK, Read, ListCurrent, down = 0, Main PROVE Read' /\ ListCurrent'
<1> USE UsedEntries
<1>1. mpc # "loop"
  BY DEF Main, AddId, AddFields, AddLoad, AddStore, FirstList, FirstCopy, FirstRest, TypeOK
<1>2. CASE AddId \/ AddStore
  <2>1. Outdate("main") /\ mpc' \notin {"copy", "half", "loop"} /\ spc' = spc
    BY <1>2 DEF AddId, AddStore
  <2>2. Read'
    <3>1. \A t \in Threads : Copies(t)' => t = "serial" /\ Copies(t)
      BY <2>1 DEF Copies, Half, Threads
    <3>2. "main" \in Threads /\ "serial" \in Threads
      BY DEF Threads
    <3> QED
      BY <2>1, <3>1, <3>2, OutdateRead DEF Read
  <2> QED
    BY <2>1, <2>2 DEF ListCurrent
<1>3. CASE AddFields \/ AddLoad
  <2>1. /\ UNCHANGED <<id, state, devsize, json_str, list, stale, spc, down>>
        /\ mpc' \notin {"copy", "half", "loop"}
        /\ \A i \in Used : named'[i] = named[i]
    BY <1>3 DEF AddFields, AddLoad, Fields, History, TypeOK
  <2>2. \A t \in Threads : (Copies(t)' => Copies(t)) /\ (Half(t)' => Half(t))
    BY <2>1 DEF Copies, Half
  <2>3. \A t \in Threads : Current(list[t]) => Current(list[t])'
    BY <2>1, SameCurrent
  <2> QED
    BY <2>1, <2>2, <2>3 DEF Read, ListCurrent
<1>4. CASE FirstList
  <2>1. UNCHANGED <<id, named, state, devsize, json_str, spc>> /\ mpc' = "copy"
    BY <1>4 DEF FirstList, Fields
  <2>2. down' = 0 => /\ list' = [list EXCEPT !["main"] = Listed]
                     /\ stale' = [stale EXCEPT !["main"] = 0]
    BY <1>4 DEF FirstList, ReadTable
  <2>3. \A l : Current(l) => Current(l)'
    BY <2>1, SameCurrent
  <2>4. Current(Listed)
    BY ListedCurrent
  <2>5. ASSUME NEW t \in Threads, down' = 0, Copies(t)', stale'[t] = 0
      PROVE  Current(list'[t]) /\ (Half(t)' => json_str'[1] = list'[t])
    <3>1. CASE t = "main"
      BY <2>1, <2>2, <2>4, <2>5, <3>1 DEF TypeOK, Half
    <3>2. CASE t # "main"
      BY <2>1, <2>2, <2>5, <3>2 DEF TypeOK, Read, Copies, Half
    <3> QED
      BY <3>1, <3>2
  <2>6. \A l : Current(l) => Len(l) = devsize' /\ \A i \in 1 .. devsize' : id'[i-1] # Plug => l[i] = Listed'[i]
    BY <2>3 DEF Current
  <2>7. Read'
    BY <2>5, <2>6 DEF Read, Current
  <2> QED
    BY <2>1, <2>7 DEF ListCurrent
<1>5. CASE FirstCopy
  <2>1. /\ UNCHANGED <<id, named, state, devsize, list, spc, down>> /\ mpc = "copy" /\ mpc' = "half"
        /\ json_str'[1] = list["main"]
        /\ stale' = [u \in Threads |-> IF "half" \in {mpc, spc} THEN 1 ELSE stale[u]]
    BY <1>5 DEF FirstCopy, CopyList, Fields
  <2>2. \A l : Current(l) => Len(l) = devsize' /\ \A i \in 1 .. devsize' : id'[i-1] # Plug => l[i] = Listed'[i]
    BY <2>1, SameCurrent DEF Current
  <2>3. ASSUME NEW t \in Threads, down' = 0, Copies(t)', stale'[t] = 0
        PROVE  Current(list[t]) /\ (Half(t)' => json_str'[1] = list'[t])
    <3>1. spc # "half" /\ stale[t] = 0
      BY <2>1, <2>3
    <3> QED
      BY <2>1, <2>3, <3>1 DEF Read, Copies, Half, Threads
  <2>4. Read'
    BY <2>1, <2>2, <2>3 DEF Read, Current
  <2> QED
    BY <2>1, <2>4 DEF ListCurrent
<1>6. CASE FirstRest
  <2>1. /\ UNCHANGED <<id, named, state, devsize, spc, down>> /\ mpc = "half" /\ mpc' = "loop"
        /\ json_str'[1] = json_str[1] /\ json_str'[2] = list["main"] /\ late' = stale["main"]
        /\ list'["serial"] = list["serial"] /\ stale'["serial"] = stale["serial"]
    BY <1>6 DEF FirstRest, CopyRest, Fields, TypeOK, Threads
  <2>2. \A l : Current(l) => Len(l) = devsize' /\ \A i \in 1 .. devsize' : id'[i-1] # Plug => l[i] = Listed'[i]
    BY <2>1, SameCurrent DEF Current
  <2>3. Read'
    BY <2>1, <2>2 DEF Read, Current, Copies, Half, Threads
  <2>4. late' = 0 => Current(list["main"]) /\ json_str'[1] = list["main"] /\ json_str'[2] = list["main"]
    BY <2>1 DEF Read, Copies, Half, Threads
  <2>5. \A h \in 1 .. 2 : h = 1 \/ h = 2
    OBVIOUS
  <2> QED
    BY <2>1, <2>2, <2>3, <2>4, <2>5 DEF ListCurrent
<1> QED
  BY <1>2, <1>3, <1>4, <1>5, <1>6 DEF Main

LEMMA SerialRead == ASSUME TypeOK, Read, ListCurrent, down = 0, Serial PROVE Read' /\ ListCurrent'
<1> USE UsedEntries
<1>0. "main" \in Threads /\ "serial" \in Threads
  BY DEF Threads
<1>1. ASSUME Outdate("serial"), spc \notin {"copy", "half"}, spc' \notin {"copy", "half"}, UNCHANGED <<mpc, list>> PROVE Read'
  <2>1. \A t \in Threads : Copies(t)' => t # "serial" /\ Copies(t)
    BY <1>1 DEF Copies, Half, Threads
  <2> QED
    BY <1>0, <1>1, <2>1, OutdateRead DEF Read
<1>2. ASSUME NEW d \in Ids, Report(d) PROVE Read' /\ ListCurrent'
  <2>1. /\ spc = "idle" /\ UNCHANGED <<id, named, devsize, json_str, mpc, list, late, down>>
        /\ UNCHANGED <<state, told, stale, spc>> \/ (Outdate("serial") /\ spc' = "build")
    BY <1>2 DEF Report
  <2>2. CASE UNCHANGED <<state, told, stale, spc>>
    BY <2>1, <2>2 DEF Read, ListCurrent, Current, Copies, Half, Listed
  <2>3. CASE Outdate("serial") /\ spc' = "build"
    BY <1>1, <2>1, <2>3 DEF ListCurrent
  <2> QED
    BY <2>1, <2>2, <2>3
<1>3. ASSUME NEW d \in Ids, ControlUp(d) \/ RegisterId(d) PROVE Read' /\ ListCurrent'
  <2>1. spc = "idle" /\ spc' \in {"build", "fields"} /\ Outdate("serial") /\ UNCHANGED <<mpc, list>>
    BY <1>3 DEF ControlUp, RegisterId
  <2> QED
    BY <1>1, <2>1 DEF ListCurrent
<1>4. CASE Toggle
  <2>1. /\ spc = "idle" /\ UNCHANGED <<id, named, devsize, json_str, mpc, spc, list, late, down>>
        /\ Outdate("serial") /\ find_dev(Plug) # -1
        /\ state' = [state EXCEPT ![find_dev(Plug)] = state'[find_dev(Plug)]]
    <3>1. find_dev(Plug) \in Entries
      BY <1>4, FindDev DEF Toggle, Used
    <3> QED
      BY <1>4, <3>1 DEF Toggle, TypeOK
  <2>2. Read'
    BY <1>1, <2>1
  <2>3. \A i \in Used : id[i] # Plug => state'[i] = state[i]
    BY <2>1, FindDev DEF TypeOK
  <2>4. \A h \in 1 .. 2 : Current(json_str[h]) => Current(json_str[h])'
    BY <2>1, <2>3, SameCurrent
  <2> QED
    BY <2>1, <2>2, <2>4 DEF ListCurrent, Current
<1>5. CASE RegisterFields \/ RegisterLoad
  BY <1>5 DEF RegisterFields, RegisterLoad, Fields, History, Read, ListCurrent, Current, Copies, Half, Listed
<1>6. CASE RegisterStore
  BY <1>1, <1>6 DEF RegisterStore, ListCurrent
<1>7. CASE BuildList
  <2>1. UNCHANGED <<id, named, state, devsize, json_str, mpc>> /\ spc' = "copy"
    BY <1>7 DEF BuildList, Fields
  <2>2. down' = 0 => /\ list' = [list EXCEPT !["serial"] = Listed]
                     /\ stale' = [stale EXCEPT !["serial"] = 0]
    BY <1>7 DEF BuildList, ReadTable
  <2>3. \A l : Current(l) => Len(l) = devsize' /\ \A i \in 1 .. devsize' : id'[i-1] # Plug => l[i] = Listed'[i]
    BY <2>1, SameCurrent DEF Current
  <2>4. Current(Listed)
    BY ListedCurrent
  <2>5. ASSUME NEW t \in Threads, down' = 0, Copies(t)', stale'[t] = 0
      PROVE  Current(list'[t]) /\ (Half(t)' => json_str'[1] = list'[t])
    <3>1. CASE t = "serial"
      BY <2>1, <2>2, <2>4, <2>5, <3>1 DEF TypeOK, Half
    <3>2. CASE t # "serial"
      BY <2>1, <2>2, <2>5, <3>2 DEF TypeOK, Read, Copies, Half, Threads
    <3> QED
      BY <3>1, <3>2
  <2>6. Read'
    BY <2>3, <2>5 DEF Read, Current
  <2> QED
    BY <2>1, <2>6 DEF ListCurrent
<1>8. CASE BuildCopy
  <2>1. /\ UNCHANGED <<id, named, state, devsize, list, mpc, down>> /\ spc = "copy" /\ spc' = "half"
        /\ json_str'[1] = list["serial"]
        /\ stale' = [u \in Threads |-> IF "half" \in {mpc, spc} THEN 1 ELSE stale[u]]
    BY <1>8 DEF BuildCopy, CopyList, Fields
  <2>2. \A l : Current(l) => Len(l) = devsize' /\ \A i \in 1 .. devsize' : id'[i-1] # Plug => l[i] = Listed'[i]
    BY <2>1, SameCurrent DEF Current
  <2>3. ASSUME NEW t \in Threads, down' = 0, Copies(t)', stale'[t] = 0
        PROVE  Current(list[t]) /\ (Half(t)' => json_str'[1] = list'[t])
    <3>1. mpc # "half" /\ stale[t] = 0
      BY <2>1, <2>3
    <3> QED
      BY <2>1, <2>3, <3>1 DEF Read, Copies, Half, Threads
  <2>4. Read'
    BY <2>1, <2>2, <2>3 DEF Read, Current
  <2> QED
    BY <2>1, <2>4 DEF ListCurrent
<1>9. CASE BuildRest
  <2>1. /\ UNCHANGED <<id, named, state, devsize, mpc, down>> /\ spc = "half" /\ spc' = "idle"
        /\ json_str'[1] = json_str[1] /\ json_str'[2] = list["serial"] /\ late' = stale["serial"]
        /\ list'["main"] = list["main"] /\ stale'["main"] = stale["main"]
    BY <1>9 DEF BuildRest, CopyRest, Fields, TypeOK, Threads
  <2>2. \A l : Current(l) => Len(l) = devsize' /\ \A i \in 1 .. devsize' : id'[i-1] # Plug => l[i] = Listed'[i]
    BY <2>1, SameCurrent DEF Current
  <2>3. Read'
    BY <2>1, <2>2 DEF Read, Current, Copies, Half, Threads
  <2>4. late' = 0 => Current(list["serial"]) /\ json_str'[1] = list["serial"] /\ json_str'[2] = list["serial"]
    BY <2>1 DEF Read, Copies, Half, Threads
  <2>5. \A h \in 1 .. 2 : h = 1 \/ h = 2
    OBVIOUS
  <2> QED
    BY <2>1, <2>2, <2>3, <2>4, <2>5 DEF ListCurrent
<1> QED
  BY <1>2, <1>3, <1>4, <1>5, <1>6, <1>7, <1>8, <1>9 DEF Serial

\* When both threads rest both halves of the published list are the table,
\* except for the plug, unless the threads changed the table or copied lists at
\* the same time.
THEOREM SpecListCurrent == Spec => []ListCurrent
<1>1. Init => Read /\ ListCurrent
  BY DEF Init, Read, ListCurrent, Copies, Half
<1>2. TypeOK /\ Read /\ ListCurrent /\ [Next]_vars => Read' /\ ListCurrent'
  <2> SUFFICES ASSUME TypeOK, Read, ListCurrent, [Next]_vars PROVE Read' /\ ListCurrent'
    OBVIOUS
  <2>1. CASE Next
    BY <2>1, MainRead, SerialRead DEF Next
  <2>2. CASE UNCHANGED vars
    BY <2>2 DEF vars, Read, ListCurrent, Current, Copies, Half, Listed
  <2> QED
    BY <2>1, <2>2
<1> QED
  BY <1>1, <1>2, SpecTypeOK, PTL DEF Spec

-----------------------------------------------------------------------------
(* Sums.  Induction along a loop: what holds before the first turn, and     *)
(* after each turn if it held before it, holds after every turn.            *)

LEMMA LoopInduction ==
  ASSUME NEW N \in Nat, NEW T, 0 \in T, \A n \in 1 .. N : n-1 \in T => n \in T
  PROVE  \A n \in 0 .. N : n \in T
<1> DEFINE U == {n \in 0 .. N : n \notin T}
<1> SUFFICES ASSUME U # {} PROVE FALSE
  OBVIOUS
<1>1. U \in SUBSET Nat
  OBVIOUS
<1>2. PICK x \in U : \A y \in U : x <= y
  <2> HIDE DEF U
  <2> QED BY <1>1, Least
<1>3. x \in 1 .. N
  <2>1. x \in 0 .. N /\ x \notin T
    OBVIOUS
  <2>2. x # 0
    BY <2>1
  <2> QED
    BY <2>1, <2>2
<1>4. x-1 \notin U
  <2>1. ~(x <= x-1)
    BY <1>3
  <2> QED
    BY <1>2, <2>1
<1>5. x-1 \in T
  BY <1>3, <1>4
<1> QED
  BY <1>3, <1>5

\* The function Total() takes its value from.
IsSum(s, f, n) == s = [m \in 0 .. n |-> IF m = 0 THEN 0 ELSE s[m-1] + f[m]]

LEMMA SumExists == ASSUME NEW f, NEW N \in Nat PROVE \E s : IsSum(s, f, N)
<1> DEFINE T == {n \in 0 .. N : \E s : IsSum(s, f, n)}
<1>1. 0 \in T
  <2> DEFINE s == [m \in 0 .. 0 |-> 0]
  <2>1. s = [m \in 0 .. 0 |-> IF m = 0 THEN 0 ELSE s[m-1] + f[m]]
    OBVIOUS
  <2>2. IsSum(s, f, 0)
    BY <2>1 DEF IsSum
  <2> QED
    BY <2>2
<1>2. ASSUME NEW n \in 1 .. N, n-1 \in T PROVE n \in T
  <2>1. PICK s : IsSum(s, f, n-1)
    BY <1>2
  <2> DEFINE t == [m \in 0 .. n |-> IF m = n THEN s[n-1] + f[n] ELSE s[m]]
  <2>2. ASSUME NEW m \in 0 .. n PROVE t[m] = IF m = 0 THEN 0 ELSE t[m-1] + f[m]
    <3>1. CASE m = n
      <4>1. n-1 \in 0 .. n /\ n-1 # n /\ n # 0
        OBVIOUS
      <4>2. t[n-1] = s[n-1]
        BY <4>1
      <4> QED
        BY <3>1, <4>1, <4>2
    <3>2. CASE m # n
      <4>1. m \in 0 .. n-1 /\ (m # 0 => m-1 \in 0 .. n /\ m-1 # n)
        BY <3>2
      <4>2. s[m] = IF m = 0 THEN 0 ELSE s[m-1] + f[m]
        BY <2>1, <4>1 DEF IsSum
      <4>3. t[m] = s[m] /\ (m # 0 => t[m-1] = s[m-1])
        BY <3>2, <4>1
      <4> HIDE DEF t
      <4> QED
        BY <4>2, <4>3
    <3> QED
      BY <3>1, <3>2
  <2>3. t = [m \in 0 .. n |-> t[m]]
    OBVIOUS
  <2> HIDE DEF t
  <2>4. IsSum(t, f, n)
    BY <2>2, <2>3 DEF IsSum
  <2> QED
    BY <2>4
<1> HIDE DEF T
<1>3. N \in T
  BY <1>1, <1>2, LoopInduction
<1> QED
  BY <1>3 DEF T

LEMMA SumAgrees ==
  ASSUME NEW f, NEW N \in Nat, NEW n \in 0 .. N, NEW s, NEW t, IsSum(s, f, N), IsSum(t, f, n)
  PROVE  s[n] = t[n]
<1> DEFINE T == {m \in 0 .. n : s[m] = t[m]}
<1>1. 0 \in T
  BY DEF IsSum
<1>2. ASSUME NEW m \in 1 .. n, m-1 \in T PROVE m \in T
  <2>1. m # 0 /\ m \in 0 .. N /\ m \in 0 .. n
    OBVIOUS
  <2>2. s[m] = s[m-1] + f[m] /\ t[m] = t[m-1] + f[m]
    BY <2>1 DEF IsSum
  <2> QED
    BY <1>2, <2>1, <2>2
<1>3. n \in Nat /\ n \in 0 .. n
  OBVIOUS
<1> HIDE DEF T
<1>4. n \in T
  BY <1>1, <1>2, <1>3, LoopInduction
<1> QED
  BY <1>4 DEF T

LEMMA TotalIs == ASSUME NEW f, NEW n \in Nat PROVE \E s : IsSum(s, f, n) /\ Total(f, n) = s[n]
<1> DEFINE t == CHOOSE s : IsSum(s, f, n)
<1>1. IsSum(t, f, n)
  BY SumExists
<1>2. Total(f, n) = t[n]
  BY Zenon DEF Total, IsSum
<1> QED
  BY <1>1, <1>2, Zenon

\* Each turn of the loop adds a value.
LEMMA TotalStep ==
  ASSUME NEW f, NEW n \in Nat
  PROVE  /\ Total(f, 0) = 0
         /\ n # 0 => Total(f, n) = Total(f, n-1) + f[n]
<1>1. Total(f, 0) = 0
  <2>1. PICK s : IsSum(s, f, 0) /\ Total(f, 0) = s[0]
    BY TotalIs
  <2> QED
    BY <2>1 DEF IsSum
<1>2. ASSUME n # 0 PROVE Total(f, n) = Total(f, n-1) + f[n]
  <2>1. n-1 \in Nat /\ n-1 \in 0 .. n /\ n \in 0 .. n
    BY <1>2
  <2>2. PICK s : IsSum(s, f, n) /\ Total(f, n) = s[n]
    BY TotalIs
  <2>3. PICK t : IsSum(t, f, n-1) /\ Total(f, n-1) = t[n-1]
    BY <2>1, TotalIs
  <2>4. s[n-1] = t[n-1]
    BY <2>1, <2>2, <2>3, SumAgrees
  <2>5. s[n] = s[n-1] + f[n]
    BY <1>2, <2>1, <2>2 DEF IsSum
  <2> QED
    BY <2>2, <2>3, <2>4, <2>5
<1> QED
  BY <1>1, <1>2

\* Smaller values have a smaller sum, and a part of the loop adds up to less.
LEMMA TotalLeq ==
  ASSUME NEW N \in Nat, NEW f, NEW g,
         \A m \in 1 .. N : f[m] \in Nat /\ g[m] \in Nat /\ f[m] <= g[m]
  PROVE  \A n \in 0 .. N : Total(f, n) \in Nat /\ Total(g, n) \in Nat /\ Total(f, n) <= Total(g, n)
<1> DEFINE T == {n \in 0 .. N : Total(f, n) \in Nat /\ Total(g, n) \in Nat /\ Total(f, n) <= Total(g, n)}
<1>1. 0 \in T
  BY TotalStep
<1>2. ASSUME NEW n \in 1 .. N, n-1 \in T PROVE n \in T
  <2>1. Total(f, n) = Total(f, n-1) + f[n] /\ Total(g, n) = Total(g, n-1) + g[n]
    BY TotalStep
  <2> QED
    BY <1>2, <2>1
<1> HIDE DEF T
<1>3. \A n \in 0 .. N : n \in T
  BY <1>1, <1>2, LoopInduction
<1> QED
  BY <1>3 DEF T

LEMMA TotalNat ==
  ASSUME NEW N \in Nat, NEW f, \A m \in 1 .. N : f[m] \in Nat
  PROVE  \A n \in 0 .. N : Total(f, n) \in Nat
<1>1. \A m \in 1 .. N : f[m] \in Nat /\ f[m] \in Nat /\ f[m] <= f[m]
  OBVIOUS
<1> QED
  BY <1>1, TotalLeq

LEMMA TotalPart ==
  ASSUME NEW N \in Nat, NEW f, \A m \in 1 .. N : f[m] \in Nat, NEW j \in 0 .. N
  PROVE  Total(f, j) <= Total(f, N)
<1> DEFINE T == {n \in 0 .. N : j <= n => Total(f, j) <= Total(f, n)}
<1>0. \A n \in 0 .. N : Total(f, n) \in Nat
  BY TotalNat
<1>1. 0 \in T
  BY <1>0
<1>2. ASSUME NEW n \in 1 .. N, n-1 \in T PROVE n \in T
  <2>1. Total(f, n) = Total(f, n-1) + f[n] /\ f[n] \in Nat
    BY TotalStep
  <2>2. Total(f, n) \in Nat /\ Total(f, n-1) \in Nat /\ Total(f, j) \in Nat
    BY <1>0
  <2>3. CASE j = n
    BY <2>2, <2>3
  <2>4. CASE j # n
    BY <1>2, <2>1, <2>2, <2>4
  <2> QED
    BY <2>3, <2>4
<1> HIDE DEF T
<1>3. N \in T
  BY <1>1, <1>2, LoopInduction
<1> QED
  BY <1>3 DEF T

\* A store to one place adds to the sum what it adds to that place, at most.
LEMMA TotalStore ==
  ASSUME NEW N \in Nat, NEW f, NEW g, NEW i \in 1 .. N, NEW d \in Nat,
         \A m \in 1 .. N : f[m] \in Nat /\ g[m] \in Nat,
         \A m \in 1 .. N : m # i => g[m] = f[m],
         g[i] <= f[i] + d
  PROVE  Total(g, N) <= Total(f, N) + d
<1> DEFINE T == {n \in 0 .. N : Total(g, n) <= Total(f, n) + (IF n < i THEN 0 ELSE d)}
<1>0. \A n \in 0 .. N : Total(f, n) \in Nat /\ Total(g, n) \in Nat
  BY TotalNat
<1>1. 0 \in T
  BY TotalStep
<1>2. ASSUME NEW n \in 1 .. N, n-1 \in T PROVE n \in T
  <2>1. /\ Total(f, n) = Total(f, n-1) + f[n] /\ Total(g, n) = Total(g, n-1) + g[n]
        /\ f[n] \in Nat /\ g[n] \in Nat
    BY TotalStep
  <2>2. Total(f, n-1) \in Nat /\ Total(g, n-1) \in Nat
    BY <1>0
  <2>3. Total(g, n-1) <= Total(f, n-1) + (IF n-1 < i THEN 0 ELSE d)
    BY <1>2
  <2>4. CASE n = i
    BY <2>1, <2>2, <2>3, <2>4
  <2>5. CASE n # i
    BY <2>1, <2>2, <2>3, <2>5
  <2> QED
    BY <2>4, <2>5
<1> HIDE DEF T
<1>3. \A n \in 0 .. N : n \in T
  BY <1>1, <1>2, LoopInduction, Zenon
<1>4. N \in T
  BY <1>3
<1> QED
  BY <1>4 DEF T

-----------------------------------------------------------------------------
(* The text of the list.  Every name main() gives out and every id it       *)
(* stores weighs something; what the table weighs is never more than what   *)
(* main() has put into it, whatever entries it and the serial thread        *)
(* overwrite, and a list weighs no more than the table.                     *)

\* What the id of an entry needs beyond the id of a sensor.
Excess(d) == IF Printed[d] > SENSOR THEN Printed[d] - SENSOR ELSE 0

\* The most bytes of an entry with its comma, if it has a name.
Weight(i) == Excess(id[i]) + named[i] + (IF named[i] > 0 THEN SENSOR + 10 ELSE 0)

Weights == [m \in 1 .. DEV_SIZE+1 |-> Weight(m-1)]
Rooms   == [i \in 1 .. Len(Fixed) |-> Room(i)]

\* What main() has put into the table so far.
Spent ==
  Total(Rooms, k) + (CASE mpc = "fields" -> Excess(Fixed[k+1])
                       [] mpc \in {"load", "store"} -> Room(k+1)
                       [] OTHER -> 0)

Budget ==
  /\ \A i \in Entries : id[i] \in Ids \cup {0}
  /\ Total(Weights, DEV_SIZE+1) <= Spent

LEMMA TextConstants ==
  /\ SENSOR \in Nat /\ REST \in Nat /\ BUF \in Nat
  /\ \A d \in Ids \cup {0} : Printed[d] \in Nat /\ Excess(d) \in Nat /\ Printed[d] <= SENSOR + Excess(d)
  /\ \A d \in (Ids \ (Switches \cup {Plug})) \cup {0} : Excess(d) = 0
  /\ \A i \in 1 .. Len(Fixed) :
       Rooms[i] \in Nat /\ Rooms[i] = SENSOR + Excess(Fixed[i]) + NameLen[Fixed[i]] + 10
  /\ 13 + REST + Total(Rooms, Len(Fixed)) < BUF
<1>1. SENSOR \in Nat /\ REST \in Nat /\ BUF \in Nat /\ 13 + REST + Total(Rooms, Len(Fixed)) < BUF
  BY TextAssumption DEF Rooms
<1>2. \A d \in Ids \cup {0} : Printed[d] \in Nat
  BY TextAssumption
<1>3. \A d \in Ids \cup {0} : Excess(d) \in Nat /\ Printed[d] <= SENSOR + Excess(d)
  BY <1>1, <1>2 DEF Excess
<1>4. ASSUME NEW d \in (Ids \ (Switches \cup {Plug})) \cup {0} PROVE Excess(d) = 0
  <2>1. Printed[d] <= SENSOR /\ Printed[d] \in Nat
    BY <1>2, TextAssumption
  <2> QED
    BY <1>1, <2>1 DEF Excess
<1>5. ASSUME NEW i \in 1 .. Len(Fixed)
      PROVE  Rooms[i] \in Nat /\ Rooms[i] = SENSOR + Excess(Fixed[i]) + NameLen[Fixed[i]] + 10
  <2>1. NameLen[Fixed[i]] \in Nat /\ Fixed[i] \in Ids
    BY Constants
  <2>2. Printed[Fixed[i]] \in Nat
    BY <1>2, <2>1
  <2> DEFINE p == Printed[Fixed[i]]  n == NameLen[Fixed[i]]
  <2>3. /\ Rooms[i] = (IF p > SENSOR THEN p ELSE SENSOR) + n + 10
        /\ Excess(Fixed[i]) = IF p > SENSOR THEN p - SENSOR ELSE 0
    BY DEF Rooms, Room, Excess
  <2>4. p \in Nat /\ n \in Nat
    BY <2>1, <2>2
  <2> HIDE DEF p, n
  <2>5. Rooms[i] \in Nat /\ Rooms[i] = SENSOR + Excess(Fixed[i]) + n + 10
    BY <1>1, <2>3, <2>4
  <2> QED
    BY <2>5 DEF n
<1> QED
  BY <1>1, <1>2, <1>3, <1>4, <1>5

LEMMA WeightsNat ==
  ASSUME TypeOK, Budget
  PROVE  /\ \A i \in Entries : Weight(i) \in Nat
         /\ \A m \in 1 .. DEV_SIZE+1 : m-1 \in Entries /\ Weights[m] = Weight(m-1) /\ Weights[m] \in Nat
<1>1. ASSUME NEW i \in Entries PROVE Weight(i) \in Nat
  <2>1. Excess(id[i]) \in Nat /\ named[i] \in Nat /\ SENSOR \in Nat
    BY TextConstants DEF TypeOK, Budget
  <2> QED
    BY <2>1 DEF Weight
<1>2. \A m \in 1 .. DEV_SIZE+1 : m-1 \in Entries /\ Weights[m] = Weight(m-1)
  BY Constants DEF Entries, Weights
<1> QED
  BY <1>1, <1>2

LEMMA RoomsNat ==
  /\ \A n \in 0 .. Len(Fixed) : Total(Rooms, n) \in Nat /\ Total(Rooms, n) <= Total(Rooms, Len(Fixed))
  /\ \A n \in 0 .. Len(Fixed)-1 : Total(Rooms, n+1) = Total(Rooms, n) + Rooms[n+1]
<1>1. Len(Fixed) \in Nat /\ \A m \in 1 .. Len(Fixed) : Rooms[m] \in Nat
  BY Constants, TextConstants
<1>2. \A n \in 0 .. Len(Fixed) : Total(Rooms, n) \in Nat
  BY <1>1, TotalNat
<1>3. \A n \in 0 .. Len(Fixed) : Total(Rooms, n) <= Total(Rooms, Len(Fixed))
  BY <1>1, TotalPart
<1>4. ASSUME NEW n \in 0 .. Len(Fixed)-1 PROVE Total(Rooms, n+1) = Total(Rooms, n) + Rooms[n+1]
  <2>1. n+1 \in Nat /\ n+1 # 0 /\ (n+1)-1 = n
    BY <1>1
  <2> QED
    BY <2>1, TotalStep
<1> QED
  BY <1>2, <1>3, <1>4

\* What main() has put in is no more than the house.
LEMMA SpentLeq ==
  ASSUME TypeOK PROVE Spent \in Nat /\ Spent <= Total(Rooms, Len(Fixed))
<1>1. k \in 0 .. Len(Fixed) /\ Len(Fixed) \in Nat
  BY Constants DEF TypeOK
<1>2. CASE mpc \in Filling
  <2>1. k \in 0 .. Len(Fixed)-1 /\ k+1 \in 1 .. Len(Fixed) /\ k+1 \in 0 .. Len(Fixed)
    BY <1>1, <1>2 DEF TypeOK
  <2>2. Total(Rooms, k+1) = Total(Rooms, k) + Rooms[k+1] /\ Total(Rooms, k+1) <= Total(Rooms, Len(Fixed))
    BY <2>1, RoomsNat
  <2>3. /\ Rooms[k+1] \in Nat /\ Rooms[k+1] = Room(k+1)
        /\ Rooms[k+1] = SENSOR + Excess(Fixed[k+1]) + NameLen[Fixed[k+1]] + 10
    BY <2>1, TextConstants DEF Rooms
  <2>4. SENSOR \in Nat /\ Excess(Fixed[k+1]) \in Nat /\ NameLen[Fixed[k+1]] \in Nat
    BY <2>1, TextConstants, Constants
  <2>5. Total(Rooms, k) \in Nat /\ Total(Rooms, Len(Fixed)) \in Nat
    BY <1>1, RoomsNat
  <2>6. Spent = Total(Rooms, k) + Excess(Fixed[k+1]) \/ Spent = Total(Rooms, k) + Rooms[k+1]
    BY <1>2, <2>3 DEF Spent, Filling
  <2> DEFINE a == Total(Rooms, k)  b == Rooms[k+1]  x == Excess(Fixed[k+1])
             h == Total(Rooms, Len(Fixed))
  <2>7. /\ a \in Nat /\ b \in Nat /\ x \in Nat /\ h \in Nat
        /\ x <= b /\ a + b <= h /\ (Spent = a + x \/ Spent = a + b)
    <3>1. x <= b
      BY <2>3, <2>4
    <3> QED
      BY <2>2, <2>3, <2>4, <2>5, <2>6, <3>1
  <2> HIDE DEF a, b, x, h
  <2>8. Spent \in Nat /\ Spent <= h
    BY <2>7
  <2> QED
    BY <2>8 DEF h
<1>3. CASE mpc \notin Filling
  <2>1. Spent = Total(Rooms, k) + 0
    BY <1>3 DEF Spent, Filling
  <2> QED
    BY <1>1, <2>1, RoomsNat
<1> QED
  BY <1>2, <1>3

\* A list of a table all of whose entries in use have a name fits.
LEMMA ListedFits ==
  ASSUME TypeOK, Budget, \A i \in 0 .. devsize-1 : named[i] # 0
  PROVE  ListText(Listed) < BUF
<1> DEFINE L == [n \in DOMAIN Listed |-> EntryText(Listed[n]) + 1]
<1>1. /\ devsize \in Nat /\ DEV_SIZE \in Nat /\ DEV_SIZE+1 \in Nat /\ devsize <= DEV_SIZE
      /\ devsize \in 0 .. devsize /\ devsize \in 0 .. DEV_SIZE+1 /\ DEV_SIZE+1 \in 0 .. DEV_SIZE+1
  BY Constants DEF TypeOK
<1>2. DOMAIN Listed = 1 .. devsize /\ Len(Listed) = devsize
  BY <1>1 DEF Listed
<1>3. ASSUME NEW n \in 1 .. devsize
      PROVE  L[n] \in Nat /\ Weights[n] \in Nat /\ L[n] <= Weights[n]
  <2>1. n-1 \in 0 .. devsize-1 /\ n-1 \in Entries /\ n \in 1 .. DEV_SIZE+1
    BY <1>1 DEF Entries
  <2> DEFINE e == Listed[n]
  <2>2. e.id = id[n-1] /\ e.name = named[n-1]
    BY DEF Listed
  <2>3. \A x : Digits(x) \in 1 .. 3
    BY DEF Digits
  <2>4. PICK a \in 1 .. 3, b \in 1 .. 3, c \in 1 .. 3 :
          EntryText(e) = Printed[id[n-1]] + named[n-1] + a + b + c
    BY <2>2, <2>3 DEF EntryText
  <2>5. L[n] = EntryText(e) + 1
    BY <1>2
  <2>6. /\ Printed[id[n-1]] \in Nat /\ Excess(id[n-1]) \in Nat /\ SENSOR \in Nat
        /\ Printed[id[n-1]] <= SENSOR + Excess(id[n-1])
    BY <2>1, TextConstants DEF Budget
  <2>7. named[n-1] \in Nat /\ named[n-1] > 0
    BY <2>1 DEF TypeOK
  <2>8. Weights[n] \in Nat /\ Weights[n] = Excess(id[n-1]) + named[n-1] + (SENSOR + 10)
    BY <2>1, <2>7, WeightsNat DEF Weight
  <2> HIDE DEF L, e
  <2> QED
    BY <2>4, <2>5, <2>6, <2>7, <2>8
<1> HIDE DEF L
<1>4. Total(L, devsize) \in Nat /\ Total(L, devsize) <= Total(Weights, devsize)
  BY <1>1, <1>3, TotalLeq
<1>5. Total(Weights, devsize) <= Total(Weights, DEV_SIZE+1)
  BY <1>1, WeightsNat, TotalPart
<1>6. Total(Weights, devsize) \in Nat /\ Total(Weights, DEV_SIZE+1) \in Nat
  BY <1>1, WeightsNat, TotalNat
<1>7. Total(Weights, DEV_SIZE+1) <= Total(Rooms, Len(Fixed)) /\ Total(Rooms, Len(Fixed)) \in Nat
  <2>1. Total(Weights, DEV_SIZE+1) <= Spent /\ Spent \in Nat /\ Spent <= Total(Rooms, Len(Fixed))
    BY SpentLeq DEF Budget
  <2>2. Total(Rooms, Len(Fixed)) \in Nat
    BY Constants, RoomsNat
  <2> QED
    BY <1>6, <2>1, <2>2
<1>8. ListText(Listed) = 12 + REST + Total(L, devsize) + 1
  BY <1>2 DEF ListText, L
<1> QED
  BY <1>4, <1>5, <1>6, <1>7, <1>8, TextConstants

LEMMA EmptyFits == ListText(<< >>) < BUF
<1> DEFINE L == [n \in DOMAIN << >> |-> EntryText(<< >>[n]) + 1]
<1>1. ListText(<< >>) = 12 + REST + Total(L, 0) + 1
  BY DEF ListText
<1> HIDE DEF L
<1>2. Total(L, 0) = 0
  BY TotalStep
<1>3. Total(Rooms, Len(Fixed)) \in Nat
  BY Constants, RoomsNat
<1> QED
  BY <1>1, <1>2, <1>3, TextConstants

\* A store to entry i that adds at most w to its weight adds at most w to the
\* table's.
LEMMA EntryBudget ==
  ASSUME TypeOK, Budget, TypeOK', NEW i \in Entries, NEW w \in Nat,
         \A j \in Entries : j # i => id'[j] = id[j] /\ named'[j] = named[j],
         id'[i] \in Ids \cup {0}, Weight(i)' <= Weight(i) + w, Weight(i)' \in Nat
  PROVE  /\ \A j \in Entries : id'[j] \in Ids \cup {0}
         /\ Total(Weights', DEV_SIZE+1) \in Nat
         /\ Total(Weights', DEV_SIZE+1) <= Total(Weights, DEV_SIZE+1) + w
<1>1. \A j \in Entries : id'[j] \in Ids \cup {0}
  BY DEF Budget
<1>2. i \in 0 .. DEV_SIZE /\ DEV_SIZE \in Nat
  BY Constants DEF Entries
<1>3. i+1 \in 1 .. DEV_SIZE+1 /\ DEV_SIZE+1 \in Nat /\ (i+1)-1 = i
  BY <1>2
<1>4. ASSUME NEW m \in 1 .. DEV_SIZE+1
      PROVE  /\ Weights[m] \in Nat /\ Weights'[m] \in Nat
             /\ m # i+1 => Weights'[m] = Weights[m]
  <2>1. m-1 \in Entries /\ Weights[m] = Weight(m-1) /\ Weights[m] \in Nat
    BY WeightsNat
  <2>2. Weights'[m] = Weight(m-1)'
    BY DEF Weights
  <2>3. CASE m = i+1
    <3>1. m-1 = i
      BY <1>2, <2>3
    <3> QED
      BY <2>1, <2>2, <2>3, <3>1
  <2>4. CASE m # i+1
    <3>1. m-1 # i
      BY <1>2, <2>4
    <3>2. Weight(m-1)' = Weight(m-1)
      BY <2>1, <3>1 DEF Weight
    <3> QED
      BY <2>1, <2>2, <3>2
  <2> QED
    BY <2>3, <2>4
<1>5. Weights'[i+1] <= Weights[i+1] + w
  BY <1>3, WeightsNat DEF Weights
<1>6. Total(Weights', DEV_SIZE+1) \in Nat /\ Total(Weights', DEV_SIZE+1) <= Total(Weights, DEV_SIZE+1) + w
  <2> DEFINE f == Weights  g == Weights'
  <2>1. /\ \A m \in 1 .. DEV_SIZE+1 : f[m] \in Nat /\ g[m] \in Nat
        /\ \A m \in 1 .. DEV_SIZE+1 : m # i+1 => g[m] = f[m]
        /\ g[i+1] <= f[i+1] + w
    BY <1>4, <1>5
  <2> HIDE DEF f, g
  <2>2. Total(g, DEV_SIZE+1) <= Total(f, DEV_SIZE+1) + w
    BY <1>3, <2>1, TotalStore
  <2>3. Total(g, DEV_SIZE+1) \in Nat
    <3>1. DEV_SIZE+1 \in 0 .. DEV_SIZE+1
      BY <1>3
    <3> QED
      BY <1>3, <2>1, <3>1, TotalNat
  <2> QED
    BY <2>2, <2>3 DEF f, g
<1> QED
  BY <1>1, <1>6

\* A step that touches neither id nor name and puts nothing in.
LEMMA SameBudget ==
  ASSUME Budget, UNCHANGED <<id, named>>, Spent' = Spent PROVE Budget'
BY DEF Budget, Weights, Weight

\* What a store of main() adds to the table, main() has put in.
LEMMA SpendBudget ==
  ASSUME TypeOK, TypeOK', Budget, NEW i \in Entries, NEW w \in Nat,
         \A j \in Entries : j # i => id'[j] = id[j] /\ named'[j] = named[j],
         id'[i] \in Ids \cup {0}, Weight(i)' <= Weight(i) + w, Weight(i)' \in Nat,
         Spent' = Spent + w
  PROVE  Budget'
<1>1. DEV_SIZE+1 \in Nat /\ DEV_SIZE+1 \in 0 .. DEV_SIZE+1
  BY Constants
<1>2. Total(Weights, DEV_SIZE+1) \in Nat /\ Spent \in Nat
  BY <1>1, WeightsNat, TotalNat, SpentLeq
<1>3. /\ \A j \in Entries : id'[j] \in Ids \cup {0}
      /\ Total(Weights', DEV_SIZE+1) \in Nat
      /\ Total(Weights', DEV_SIZE+1) <= Total(Weights, DEV_SIZE+1) + w
  BY EntryBudget
<1>4. Total(Weights, DEV_SIZE+1) <= Spent
  BY DEF Budget
<1>5. Total(Weights', DEV_SIZE+1) <= Spent'
  BY <1>2, <1>3, <1>4
<1> QED
  BY <1>3, <1>5 DEF Budget

LEMMA MainBudget == ASSUME TypeOK, TypeOK', Budget, Main PROVE Budget'
<1>1. ASSUME k \in 0 .. Len(Fixed)-1
      PROVE  /\ Total(Rooms, k+1) = Total(Rooms, k) + Rooms[k+1] /\ Rooms[k+1] = Room(k+1)
             /\ Rooms[k+1] = SENSOR + Excess(Fixed[k+1]) + NameLen[Fixed[k+1]] + 10
             /\ SENSOR \in Nat /\ Excess(Fixed[k+1]) \in Nat /\ NameLen[Fixed[k+1]] \in Nat \ {0}
             /\ Fixed[k+1] \in Ids /\ Total(Rooms, k) \in Nat
  <2>1. k+1 \in 1 .. Len(Fixed) /\ k \in 0 .. Len(Fixed)
    BY <1>1, Constants
  <2>2. Fixed[k+1] \in Ids /\ NameLen[Fixed[k+1]] \in Nat \ {0} /\ Rooms[k+1] = Room(k+1)
    BY <2>1, Constants DEF Rooms
  <2> QED
    BY <1>1, <2>1, <2>2, RoomsNat, TextConstants
<1>2. PICK i \in Entries : i = devsize
  BY Constants DEF TypeOK, Entries
<1>3. Excess(id[i]) \in Nat /\ named[i] \in Nat
  BY <1>2, TextConstants DEF Budget, TypeOK
<1>4. CASE AddId
  <2>1. k \in 0 .. Len(Fixed)-1
    BY <1>4, Constants DEF AddId, TypeOK
  <2> DEFINE w == Excess(Fixed[k+1])
  <2>2. /\ \A j \in Entries : j # i => id'[j] = id[j] /\ named'[j] = named[j]
        /\ id'[i] = Fixed[k+1] /\ named'[i] = named[i]
    BY <1>2, <1>4 DEF AddId, TypeOK
  <2>3. w \in Nat /\ id'[i] \in Ids \cup {0} /\ Excess(id[i])' = w
    BY <1>1, <2>1, <2>2 DEF Excess
  <2>4. Spent' = Spent + w
    BY <1>1, <1>4, <2>1 DEF AddId, Spent, Rooms, Excess
  <2> HIDE DEF w
  <2>5. Weight(i)' <= Weight(i) + w /\ Weight(i)' \in Nat
    <3> DEFINE x == Excess(id[i])  n == named[i]  b == IF n > 0 THEN SENSOR + 10 ELSE 0
    <3>1. x \in Nat /\ n \in Nat /\ b \in Nat /\ w \in Nat
      BY <1>3, <2>3, TextConstants
    <3>2. Weight(i) = x + n + b
      BY DEF Weight
    <3>3. Weight(i)' = w + n + b
      BY <2>2, <2>3 DEF Weight
    <3> HIDE DEF x, n, b
    <3> QED
      BY <3>1, <3>2, <3>3
  <2> QED
    BY <1>2, <2>2, <2>3, <2>4, <2>5, SpendBudget
<1>5. CASE AddFields
  <2>1. k \in 0 .. Len(Fixed)-1
    BY <1>5, Constants DEF AddFields, TypeOK, Filling
  <2> DEFINE n == NameLen[Fixed[k+1]]  w == n + SENSOR + 10
  <2>2. /\ \A j \in Entries : j # i => id'[j] = id[j] /\ named'[j] = named[j]
        /\ id'[i] = id[i] /\ named'[i] = n
    BY <1>2, <1>5 DEF AddFields, TypeOK
  <2>3. w \in Nat /\ id'[i] \in Ids \cup {0} /\ n \in Nat /\ n > 0
    <3>1. id[i] \in Ids \cup {0}
      BY DEF Budget
    <3>2. n \in Nat \ {0} /\ SENSOR \in Nat
      BY <1>1, <2>1
    <3> HIDE DEF n
    <3> QED
      BY <2>2, <3>1, <3>2
  <2>4. Spent' = Spent + w
    <3>1. Spent = Total(Rooms, k) + Excess(Fixed[k+1]) /\ Spent' = Total(Rooms, k) + Rooms[k+1]
      BY <1>1, <1>5, <2>1 DEF AddFields, Spent, Rooms
    <3> DEFINE a == Total(Rooms, k)  x == Excess(Fixed[k+1])
    <3>2. Rooms[k+1] = SENSOR + x + n + 10 /\ a \in Nat /\ x \in Nat /\ SENSOR \in Nat
      BY <1>1, <2>1
    <3>3. Spent = a + x /\ Spent' = a + Rooms[k+1]
      BY <3>1
    <3> HIDE DEF a, x, n
    <3> QED
      BY <2>3, <3>2, <3>3
  <2> HIDE DEF n
  <2>5. Weight(i)' <= Weight(i) + w /\ Weight(i)' \in Nat
    <3> DEFINE x == Excess(id[i])  o == named[i]  b == IF o > 0 THEN SENSOR + 10 ELSE 0
    <3>1. x \in Nat /\ o \in Nat /\ b \in Nat /\ SENSOR \in Nat
      BY <1>3, TextConstants
    <3>2. Weight(i) = x + o + b
      BY DEF Weight
    <3>3. Weight(i)' = x + n + (SENSOR + 10)
      BY <2>2, <2>3 DEF Weight, Excess
    <3> HIDE DEF x, o, b
    <3> QED
      BY <2>3, <3>1, <3>2, <3>3
  <2> HIDE DEF w
  <2> QED
    BY <1>2, <2>2, <2>3, <2>4, <2>5, SpendBudget
<1>6. CASE AddLoad
  <2>1. Spent' = Spent
    BY <1>6 DEF AddLoad, Spent
  <2> QED
    BY <1>6, <2>1, SameBudget DEF AddLoad, Fields
<1>7. CASE AddStore
  <2>1. k \in 0 .. Len(Fixed)-1
    BY <1>7, Constants DEF AddStore, TypeOK, Filling
  <2>2. Spent = Total(Rooms, k) + Rooms[k+1] /\ Spent' = Total(Rooms, k+1) + 0
    BY <1>1, <1>7, <2>1 DEF AddStore, Spent
  <2>3. Spent' = Spent
    BY <1>1, <2>1, <2>2, RoomsNat
  <2> QED
    BY <1>7, <2>3, SameBudget DEF AddStore, Fields
<1>8. CASE FirstList \/ FirstCopy \/ FirstRest
  <2>1. Spent' = Spent
    BY <1>8 DEF FirstList, FirstCopy, FirstRest, Spent
  <2> QED
    BY <1>8, <2>1, SameBudget DEF FirstList, FirstCopy, FirstRest, Fields
<1> QED
  BY <1>4, <1>5, <1>6, <1>7, <1>8 DEF Main

LEMMA SerialBudget == ASSUME TypeOK, TypeOK', Budget, Serial PROVE Budget'
<1>1. ASSUME NEW d \in Ids, RegisterId(d) PROVE Budget'
  <2>1. PICK i \in Entries : i = devsize
    BY Constants DEF TypeOK, Entries
  <2>2. /\ \A j \in Entries : j # i => id'[j] = id[j] /\ named'[j] = named[j]
        /\ id'[i] = d /\ named'[i] = named[i]
    BY <1>1, <2>1 DEF RegisterId, TypeOK
  <2>3. id'[i] \in Ids \cup {0} /\ Excess(id[i])' = 0
    <3>1. Excess(d) = 0
      BY <1>1, TextConstants DEF RegisterId
    <3> QED
      BY <2>2, <3>1 DEF Excess
  <2>4. Spent' = Spent + 0
    <3>1. Spent' = Spent
      BY <1>1 DEF RegisterId, Spent
    <3> QED
      BY <3>1, SpentLeq
  <2>5. Weight(i)' <= Weight(i) + 0 /\ Weight(i)' \in Nat
    <3> DEFINE x == Excess(id[i])  n == named[i]  b == IF n > 0 THEN SENSOR + 10 ELSE 0
    <3>1. x \in Nat /\ n \in Nat /\ b \in Nat
      <4>1. id[i] \in Ids \cup {0} /\ n \in Nat
        BY DEF Budget, TypeOK
      <4>2. x \in Nat
        BY <4>1, TextConstants
      <4> QED
        BY <4>1, <4>2, TextConstants
    <3>2. Weight(i) = x + n + b
      BY DEF Weight
    <3>3. Weight(i)' = 0 + n + b
      BY <2>2, <2>3 DEF Weight
    <3> HIDE DEF x, n, b
    <3> QED
      BY <3>1, <3>2, <3>3
  <2>6. 0 \in Nat
    OBVIOUS
  <2> QED
    BY <2>2, <2>3, <2>4, <2>5, <2>6, SpendBudget
<1>2. ASSUME UNCHANGED <<id, named, mpc, k>> PROVE Budget'
  <2>1. Spent' = Spent
    BY <1>2 DEF Spent
  <2> QED
    BY <1>2, <2>1, SameBudget
<1>3. ASSUME NEW d \in Ids, Report(d) \/ ControlUp(d) PROVE Budget'
  BY <1>2, <1>3 DEF Report, ControlUp
<1>4. CASE Toggle
  BY <1>2, <1>4 DEF Toggle
<1>5. CASE RegisterFields \/ RegisterLoad \/ RegisterStore
  BY <1>2, <1>5 DEF RegisterFields, RegisterLoad, RegisterStore, Fields
<1>6. CASE BuildList \/ BuildCopy \/ BuildRest
  BY <1>2, <1>6 DEF BuildList, BuildCopy, BuildRest, Fields
<1> QED
  BY <1>1, <1>3, <1>4, <1>5, <1>6 DEF Serial

LEMMA InitBudget == ASSUME Init PROVE Budget
<1>1. \A i \in Entries : id[i] = 0 /\ named[i] = 0
  BY DEF Init
<1>2. \A m \in 1 .. DEV_SIZE+1 : Weights[m] = 0
  <2> SUFFICES ASSUME NEW m \in 1 .. DEV_SIZE+1 PROVE Weight(m-1) = 0
    BY DEF Weights
  <2>1. m-1 \in Entries
    BY Constants DEF Entries
  <2>2. Excess(0) = 0
    BY TextConstants
  <2> QED
    BY <1>1, <2>1, <2>2 DEF Weight
<1>3. Total(Weights, DEV_SIZE+1) = 0
  <2> DEFINE T == {n \in 0 .. DEV_SIZE+1 : Total(Weights, n) = 0}
  <2>1. 0 \in T
    BY Constants, TotalStep
  <2>2. ASSUME NEW n \in 1 .. DEV_SIZE+1, n-1 \in T PROVE n \in T
    <3>1. Total(Weights, n) = Total(Weights, n-1) + Weights[n]
      BY TotalStep
    <3> QED
      BY <1>2, <2>2, <3>1
  <2>3. DEV_SIZE+1 \in Nat /\ DEV_SIZE+1 \in 0 .. DEV_SIZE+1
    BY Constants
  <2> HIDE DEF T
  <2>4. DEV_SIZE+1 \in T
    BY <2>1, <2>2, <2>3, LoopInduction
  <2> QED
    BY <2>4 DEF T
<1>4. Spent = 0
  <2>1. Total(Rooms, 0) = 0
    BY TotalStep
  <2> QED
    BY <2>1 DEF Init, Spent
<1> QED
  BY <1>1, <1>3, <1>4 DEF Budget

\* The two halves of build_json() make a list that fits and pass one on.
LEMMA ListStep ==
  ASSUME TypeOK, Budget, ListFits, Next PROVE ListFits'
<1>1. ASSUME NEW t \in Threads, ReadTable(t), UNCHANGED json_str PROVE ListFits'
  <2>1. CASE \E i \in 0 .. devsize-1 : named[i] = 0
    BY <1>1, <2>1 DEF ReadTable, ListFits, ListText, EntryText
  <2>2. CASE \A i \in 0 .. devsize-1 : named[i] # 0
    <3>1. ListText(Listed) < BUF
      BY <2>2, ListedFits
    <3>2. \A u \in Threads : list'[u] = IF u = t THEN Listed ELSE list[u]
      BY <1>1, <2>2 DEF ReadTable, TypeOK
    <3> QED
      BY <1>1, <3>1, <3>2 DEF ListFits, ListText, EntryText
  <2> QED
    BY <2>1, <2>2
<1>2. ASSUME NEW t \in Threads, CopyRest(t) PROVE ListFits'
  <2>1. \A u \in Threads : list'[u] = IF u = t THEN << >> ELSE list[u]
    BY <1>2 DEF CopyRest, TypeOK
  <2>2. json_str'[1] = json_str[1] /\ json_str'[2] = list[t]
    BY <1>2 DEF CopyRest
  <2>3. \A h \in 1 .. 2 : h = 1 \/ h = 2
    OBVIOUS
  <2> QED
    BY <2>1, <2>2, <2>3, EmptyFits DEF ListFits, ListText, EntryText
<1>7. ASSUME NEW t \in Threads, CopyList(t), UNCHANGED list PROVE ListFits'
  <2>1. json_str'[1] = list[t] /\ json_str'[2] = json_str[2]
    BY <1>7 DEF CopyList
  <2>2. \A h \in 1 .. 2 : h = 1 \/ h = 2
    OBVIOUS
  <2> QED
    BY <1>7, <2>1, <2>2 DEF ListFits, ListText, EntryText
<1>3. ASSUME UNCHANGED <<list, json_str>> PROVE ListFits'
  BY <1>3 DEF ListFits, ListText, EntryText
<1>4. "main" \in Threads /\ "serial" \in Threads
  BY DEF Threads
<1>5. CASE Main
  <2>1. CASE AddId \/ AddFields \/ AddLoad \/ AddStore
    BY <1>3, <2>1 DEF AddId, AddFields, AddLoad, AddStore
  <2>2. CASE FirstList
    BY <1>1, <1>4, <2>2 DEF FirstList
  <2>3. CASE FirstCopy
    BY <1>7, <1>4, <2>3 DEF FirstCopy
  <2>4. CASE FirstRest
    BY <1>2, <1>4, <2>4 DEF FirstRest
  <2> QED
    BY <1>5, <2>1, <2>2, <2>3, <2>4 DEF Main
<1>6. CASE Serial
  <2>1. ASSUME NEW d \in Ids, Report(d) \/ ControlUp(d) \/ RegisterId(d) PROVE ListFits'
    BY <1>3, <2>1 DEF Report, ControlUp, RegisterId
  <2>2. CASE Toggle \/ RegisterFields \/ RegisterLoad \/ RegisterStore
    BY <1>3, <2>2 DEF Toggle, RegisterFields, RegisterLoad, RegisterStore
  <2>3. CASE BuildList
    BY <1>1, <1>4, <2>3 DEF BuildList
  <2>4. CASE BuildCopy
    BY <1>7, <1>4, <2>4 DEF BuildCopy
  <2>5. CASE BuildRest
    BY <1>2, <1>4, <2>5 DEF BuildRest
  <2> QED
    BY <1>6, <2>1, <2>2, <2>3, <2>4, <2>5 DEF Serial
<1> QED
  BY <1>5, <1>6 DEF Next

\* Every list build_json() makes fits str2 and json_str, whatever was reported
\* and registered and in whatever order, for every house that fits with three
\* digits for each state and a sensor's text for each shorter entry.
THEOREM SpecListFits == Spec => []ListFits
<1>1. Init => Budget /\ ListFits
  <2> SUFFICES ASSUME Init PROVE Budget /\ ListFits
    OBVIOUS
  <2>1. json_str = << << >>, << >> >> /\ \A t \in Threads : list[t] = << >>
    BY DEF Init
  <2> QED
    BY <2>1, InitBudget, EmptyFits DEF ListFits
<1>2. TypeOK /\ TypeOK' /\ Budget /\ ListFits /\ [Next]_vars => Budget' /\ ListFits'
  <2> SUFFICES ASSUME TypeOK, TypeOK', Budget, ListFits, [Next]_vars PROVE Budget' /\ ListFits'
    OBVIOUS
  <2>1. CASE Next
    BY <2>1, MainBudget, SerialBudget, ListStep DEF Next
  <2>2. CASE UNCHANGED vars
    <3>1. UNCHANGED <<id, named, mpc, k, list, json_str>>
      BY <2>2 DEF vars
    <3>2. Spent' = Spent
      BY <3>1 DEF Spent
    <3> QED
      BY <3>1, <3>2, SameBudget DEF ListFits, ListText, EntryText
  <2> QED
    BY <2>1, <2>2
<1> QED
  BY <1>1, <1>2, SpecTypeOK, PTL DEF Spec
=============================================================================
