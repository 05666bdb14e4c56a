--------------------------- MODULE ControlProofs ---------------------------
(***************************************************************************)
(* No curtain is driven both ways, whatever clicks, texts and messages     *)
(* occur, in either program and however the threads' frames interleave,    *)
(* get lost or are cut off; what drives a curtain is about to be released; *)
(* and the scene for leaving darkens the house.                            *)
(***************************************************************************)
EXTENDS Control, TLAPS

\* The frames the programs send to curtains.  A frame that switches a relay on
\* switches the opposite one off.
BedroomStates == {<<0, 0, 1>>, <<1, 0, 0>>, <<0, 0, 0>>}
LivingStates  == {<<1, 0, 2, 2>>, <<0, 1, 2, 2>>, <<0, 0, 2, 2>>,
                  <<2, 2, 1, 0>>, <<2, 2, 0, 1>>, <<2, 2, 0, 0>>}

CurtainFrames == [to : {"CL_ZHUWO"}, msg : BedroomStates]
                   \cup [to : {"CL_KETING1"}, msg : LivingStates]

RoomFrames == [to : Lights \cup {"POWER_CIWO"}, msg : Seq(0 .. 3)]

Frames == CurtainFrames \cup RoomFrames \cup Json

\* The scripts of whole commands: frames to rooms, or one pulse.
Plain == Seq(RoomFrames \cup Json)

PulseScripts == {Bedroom(<<0, 0, 1>>), Bedroom(<<1, 0, 0>>), Sheer(1, 0), Sheer(0, 1),
                 Cloth(1, 0), Cloth(0, 1)}

Whole == Plain \cup PulseScripts

\* The inductive invariant: what is under way are such frames, and the relays of
\* the curtains are on or off, never two opposite ones on.
Scripts == script \in [Threads -> Seq(Frames)]

Relays ==
  /\ relay = [d \in Devices |-> relay[d]]
  /\ \A d \in Curtains \cap Devices : relay[d] \in [Channels -> {0, 1}]

IInv == gw \in {1, 2} /\ Scripts /\ Relays /\ Interlock

-----------------------------------------------------------------------------
(* What the scripts consist of.                                            *)

\* A sequence of one frame, and of one such sequence after another.
LEMMA OneFrame == ASSUME NEW f \in RoomFrames \cup Json PROVE <<f>> \in Plain
  BY DEF Plain

LEMMA Joined ==
  ASSUME NEW a \in Plain, NEW b \in Plain PROVE a \o b \in Plain
  BY DEF Plain

\* MXJ_SendCtrlMessage() to a room with three states, and with one.
LEMMA RoomFrame ==
  ASSUME NEW d \in Lights \cup {"POWER_CIWO"},
         NEW x \in {0, 1, 2, 3}, NEW y \in {0, 1, 2, 3}, NEW z \in {0, 1, 2, 3}
  PROVE  <<Ctrl(d, <<x, y, z>>)>> \in Plain /\ <<Ctrl(d, <<x>>)>> \in Plain
<1>1. <<x, y, z>> \in Seq(0 .. 3) /\ <<x>> \in Seq(0 .. 3)
  OBVIOUS
<1>2. Ctrl(d, <<x, y, z>>) \in RoomFrames /\ Ctrl(d, <<x>>) \in RoomFrames
  BY <1>1 DEF Ctrl, RoomFrames
<1> QED
  BY <1>2, OneFrame

\* A room's light switched on, or off.
LEMMA RoomSwitch ==
  ASSUME NEW d \in Lights PROVE On(d) \in Plain /\ Off(d) \in Plain
<1>1. d \in Lights \cup {"POWER_CIWO"}
  OBVIOUS
<1>2. <<Ctrl(d, <<1, 0, 0>>)>> \in Plain
  BY <1>1, RoomFrame, Zenon
<1>3. <<Ctrl(d, <<0, 0, 0>>)>> \in Plain
  BY <1>1, RoomFrame, Zenon
<1> QED
  BY <1>2, <1>3 DEF On, Off

\* All of them are made of such frames.
LEMMA WholeFrames == Whole \subseteq Seq(Frames)
<1>1. Plain \subseteq Seq(Frames)
  BY DEF Plain, Frames
<1>2. \A f, g \in CurtainFrames : <<f, g>> \in Seq(Frames)
  BY DEF Frames
<1>3. PulseScripts \subseteq Seq(Frames)
  BY <1>2 DEF PulseScripts, CurtainFrames, BedroomStates, LivingStates, Ctrl, Bedroom, Sheer, Cloth
<1> QED
  BY <1>1, <1>3 DEF Whole

\* The scene that darkens the house.
LEMMA Leaving ==
  Off("ZHUWO") \o Off("CIWO") \o Off("CHUFANG") \o Off("CANTING") \o Off("KETING")
    \o Off("MENTING") \o Off("GUODAO") \in Plain
<1>1. \A d \in Lights : Off(d) \in Plain
  BY RoomSwitch
<1> HIDE DEF Off
<1> QED
  BY <1>1, Joined DEF Lights

\* Every event of the serial thread sends such frames only, in zbclient.c ...
LEMMA ClickFrames == \A e \in ClickEvents : ClickScript(e) \in Whole
<1> SUFFICES ASSUME NEW e \in ClickEvents PROVE ClickScript(e) \in Whole
  OBVIOUS
<1>1. \A d \in Lights : On(d) \in Plain /\ Off(d) \in Plain
  BY RoomSwitch
<1>2. /\ <<Ctrl("ZHUWO", <<3, 3, 3>>)>> \in Plain
      /\ <<Ctrl("GUODAO", <<3, 3, 3>>)>> \in Plain
      /\ <<Ctrl("CIWO", <<3, 3, 3>>)>> \in Plain
      /\ <<Ctrl("CHUFANG", <<1, 1, 1>>)>> \in Plain
      /\ <<Ctrl("KETING", <<2>>)>> \in Plain
  BY RoomFrame DEF Lights
<1>3. On("ZHUWO") \o On("CIWO") \in Plain /\ On("ZHUWO") \o On("CHUFANG") \in Plain
  BY <1>1, Joined DEF Lights
<1>4. << >> \in Plain
  BY DEF Plain
<1> QED
  BY <1>2, <1>3, <1>4, Leaving DEF ClickScript, ClickEvents, Whole, PulseScripts

\* ... and in zbclient2.c.
LEMMA ClickFrames2 == \A e \in ClickEvents : ClickScript2(e) \in Whole
<1> SUFFICES ASSUME NEW e \in ClickEvents PROVE ClickScript2(e) \in Whole
  OBVIOUS
<1>1. ClickScript("XMKG_CI twice") \in Whole /\ ClickScript(e) \in Whole
  BY ClickFrames DEF ClickEvents
<1>2. /\ <<Ctrl("ZHUWO", <<3, 3, 3>>)>> \in Plain
      /\ <<Ctrl("MENTING", <<1, 1, 1>>)>> \in Plain
      /\ <<Ctrl("MENTING", <<0, 0, 0>>)>> \in Plain
  BY RoomFrame DEF Lights
<1>3. << >> \in Plain
  BY DEF Plain
<1> QED
  BY <1>1, <1>2, <1>3 DEF ClickScript2, Whole

\* So does every command of a user.
LEMMA TextFrames == \A x \in TextCommands : TextScript(x) \in Whole
<1> SUFFICES ASSUME NEW x \in TextCommands PROVE TextScript(x) \in Whole
  OBVIOUS
<1>1. \A d \in Lights : On(d) \in Plain /\ Off(d) \in Plain
  BY RoomSwitch
<1>2. /\ <<Ctrl("KETING", <<1, 1, 1>>)>> \in Plain
      /\ <<Ctrl("GUODAO", <<2, 2, 1>>)>> \in Plain
      /\ <<Ctrl("GUODAO", <<2, 2, 0>>)>> \in Plain
      /\ <<Ctrl("GUODAO", <<1, 2, 2>>)>> \in Plain
      /\ <<Ctrl("GUODAO", <<0, 2, 2>>)>> \in Plain
      /\ <<Ctrl("POWER_CIWO", <<1>>)>> \in Plain
      /\ <<Ctrl("POWER_CIWO", <<0>>)>> \in Plain
  BY RoomFrame DEF Lights
<1> QED
  BY <1>1, <1>2 DEF TextScript, TextCommands, Lights, Whole, PulseScripts

LEMMA TextFrames2 ==
  \A x \in TextCommands : \A s \in TextScripts2(x) : s \in Whole
<1>1. /\ <<Ctrl("GUODAO", <<2, 1, 2>>)>> \in Plain
      /\ <<Ctrl("GUODAO", <<2, 0, 2>>)>> \in Plain
  BY RoomFrame DEF Lights
<1>2. << >> \in Plain
  BY DEF Plain
<1> QED
  BY <1>1, <1>2, TextFrames DEF TextScripts2, Whole

-----------------------------------------------------------------------------
(* What the frames do to a curtain.                                        *)

\* Interlock for one curtain with relays r.
OneWay(d, r) ==
  /\ d = "CL_ZHUWO" => r[1] = 0 \/ r[3] = 0
  /\ d = "CL_KETING1" => (r[1] = 0 \/ r[2] = 0) /\ (r[3] = 0 \/ r[4] = 0)

LEMMA InterlockOneWay ==
  \A r : (\A p \in Pairs : r[p[1]][p[2]] = 0 \/ r[p[1]][p[3]] = 0)
         <=> \A d \in Curtains \cap Devices : OneWay(d, r[d])
<1> TAKE r
<1>1. ASSUME \A p \in Pairs : r[p[1]][p[2]] = 0 \/ r[p[1]][p[3]] = 0,
             NEW d \in Curtains \cap Devices
      PROVE  OneWay(d, r[d])
  <2>1. CASE d = "CL_ZHUWO"
    <3>1. <<"CL_ZHUWO", 1, 3>> \in Pairs
      BY <2>1 DEF Pairs
    <3> QED
      BY <1>1, <2>1, <3>1 DEF OneWay
  <2>2. CASE d = "CL_KETING1"
    <3>1. <<"CL_KETING1", 1, 2>> \in Pairs /\ <<"CL_KETING1", 3, 4>> \in Pairs
      BY <2>2 DEF Pairs
    <3> QED
      BY <1>1, <2>2, <3>1 DEF OneWay
  <2> QED
    BY <2>1, <2>2 DEF Curtains
<1>2. ASSUME \A d \in Curtains \cap Devices : OneWay(d, r[d]), NEW p \in Pairs
      PROVE  r[p[1]][p[2]] = 0 \/ r[p[1]][p[3]] = 0
  <2>1. p[1] \in Curtains \cap Devices
    BY DEF Pairs, Curtains
  <2> QED
    BY <1>2, <2>1 DEF Pairs, OneWay
<1> QED
  BY <1>1, <1>2

\* A curtain that obeys a frame stays driven one way.
LEMMA AppliedOneWay ==
  ASSUME NEW f \in CurtainFrames, NEW r \in [Channels -> {0, 1}], OneWay(f.to, r)
  PROVE  Applied(f, r) \in [Channels -> {0, 1}] /\ OneWay(f.to, Applied(f, r))
<1>1. \/ f.to = "CL_ZHUWO" /\ f.msg \in BedroomStates
      \/ f.to = "CL_KETING1" /\ f.msg \in LivingStates
  BY DEF CurtainFrames
<1>2. Applied(f, r) \in [Channels -> {0, 1}]
  BY <1>1 DEF Applied, BedroomStates, LivingStates, Channels
<1>3. CASE f.to = "CL_ZHUWO"
  BY <1>1, <1>3 DEF BedroomStates, Applied, OneWay, Channels
<1>4. CASE f.to = "CL_KETING1"
  BY <1>1, <1>4 DEF LivingStates, Applied, OneWay, Channels
<1> QED
  BY <1>1, <1>2, <1>3, <1>4

\* A frame to another device leaves the curtains alone.
LEMMA FrameTo ==
  ASSUME NEW f \in Frames PROVE f.to \in Curtains => f \in CurtainFrames
  BY ControlAssumption DEF Frames, RoomFrames, Curtains, Lights

-----------------------------------------------------------------------------
(* The steps.                                                              *)

LEMMA InitIInv == Init => IInv
<1> SUFFICES ASSUME Init PROVE IInv
  OBVIOUS
<1>1. << >> \in Seq(Frames)
  OBVIOUS
<1>2. Scripts
  BY <1>1 DEF Init, Scripts
<1>3. Relays
  BY DEF Init, Relays, Curtains
<1>4. Interlock
  BY DEF Init, Interlock, Pairs, Channels
<1> QED
  BY <1>2, <1>3, <1>4 DEF IInv, Init

\* Whatever a thread begins is a whole command.
LEMMA Beginning ==
  ASSUME gw \in {1, 2}, Click \/ Text \/ Post \/ KitchenOff
  PROVE  \E t \in Threads : \E name : \E s \in Whole : name # "none" /\ Start(t, name, s)
<1>1. CASE Click
  <2>1. PICK e \in Clicks[gw] : Start("serial", e, IF gw = 1 THEN ClickScript(e) ELSE ClickScript2(e))
    BY <1>1 DEF Click
  <2>2. e \in ClickEvents
    BY <2>1, ControlAssumption
  <2>3. (IF gw = 1 THEN ClickScript(e) ELSE ClickScript2(e)) \in Whole
    BY <2>2, ClickFrames, ClickFrames2
  <2>4. e # "none"
    BY <2>2 DEF ClickEvents
  <2> QED
    BY <2>1, <2>3, <2>4 DEF Threads
<1>2. CASE Text
  <2>1. PICK x \in Texts[gw] :
          \E s \in IF gw = 1 THEN {TextScript(x)} ELSE TextScripts2(x) : Start("http", x, s)
    BY <1>2 DEF Text
  <2>2. PICK s \in IF gw = 1 THEN {TextScript(x)} ELSE TextScripts2(x) : Start("http", x, s)
    BY <2>1
  <2>3. x \in TextCommands
    BY <2>1, ControlAssumption
  <2>4. s \in Whole
    BY <2>2, <2>3, TextFrames, TextFrames2
  <2>5. x # "none"
    BY <2>3 DEF TextCommands
  <2> QED
    BY <2>2, <2>4, <2>5 DEF Threads
<1>3. CASE Post
  <2>1. PICK f \in Json : Start("http", "control_down", <<f>>)
    BY <1>3 DEF Post
  <2>2. <<f>> \in Whole
    BY OneFrame DEF Whole
  <2> QED
    BY <2>1, <2>2 DEF Threads
<1>4. CASE KitchenOff
  <2>1. Off("CHUFANG") \in Whole
    BY RoomSwitch DEF Lights, Whole
  <2> QED
    BY <1>4, <2>1 DEF KitchenOff, Threads
<1> QED
  BY <1>1, <1>2, <1>3, <1>4

\* A thread that begins a command.
LEMMA StartIInv ==
  ASSUME IInv, NEW t \in Threads, NEW name, NEW s \in Whole, Start(t, name, s)
  PROVE  IInv'
<1>1. Scripts'
  BY WholeFrames DEF IInv, Scripts, Start
<1>2. Relays' /\ Interlock'
  BY DEF IInv, Relays, Interlock, Start
<1> QED
  BY <1>1, <1>2 DEF IInv, Start

LEMMA SendIInv == ASSUME IInv, NEW t \in Threads, Send(t) PROVE IInv'
<1> DEFINE f == Head(script[t])
<1>1. script[t] \in Seq(Frames) /\ script[t] # << >>
  BY DEF IInv, Scripts, Send
<1>2. f \in Frames /\ Tail(script[t]) \in Seq(Frames)
  BY <1>1
<1>3. Scripts'
  BY <1>2 DEF IInv, Scripts, Send
<1>4. relay' = [d \in Devices |-> IF d = f.to THEN Applied(f, relay[d]) ELSE relay[d]]
  BY DEF IInv, Relays, Send
<1>5. ASSUME NEW d \in Curtains \cap Devices
      PROVE  relay'[d] \in [Channels -> {0, 1}] /\ OneWay(d, relay'[d])
  <2>1. relay[d] \in [Channels -> {0, 1}] /\ OneWay(d, relay[d])
    BY InterlockOneWay DEF IInv, Relays, Interlock
  <2>2. CASE d = f.to
    BY <1>2, <1>4, <2>1, <2>2, FrameTo, AppliedOneWay
  <2>3. CASE d # f.to
    BY <1>4, <2>1, <2>3
  <2> QED
    BY <2>2, <2>3
<1>6. Relays'
  BY <1>4, <1>5 DEF Relays
<1>7. Interlock'
  BY <1>5, InterlockOneWay DEF Interlock
<1> QED
  BY <1>3, <1>6, <1>7 DEF IInv, Send

LEMMA NextIInv == IInv /\ [Next]_vars => IInv'
<1> SUFFICES ASSUME IInv, [Next]_vars PROVE IInv'
  OBVIOUS
<1>1. CASE Click \/ Text \/ Post \/ KitchenOff
  <2>1. gw \in {1, 2}
    BY DEF IInv
  <2>2. PICK t \in Threads : \E name : \E s \in Whole : name # "none" /\ Start(t, name, s)
    BY <1>1, <2>1, Beginning
  <2> QED
    BY <2>2, StartIInv
<1>2. CASE Die
  <2>1. Scripts'
    BY <1>2 DEF Die, Scripts
  <2> QED
    BY <1>2, <2>1 DEF Die, IInv, Relays, Interlock
<1>3. ASSUME NEW t \in Threads, Send(t) PROVE IInv'
  BY <1>3, SendIInv
<1>4. ASSUME NEW t \in Threads, Return(t) PROVE IInv'
  BY <1>4 DEF Return, IInv, Scripts, Relays, Interlock
<1>5. ASSUME NEW t \in Threads, Lose(t) PROVE IInv'
  <2>1. Tail(script[t]) \in Seq(Frames)
    BY <1>5 DEF IInv, Scripts, Lose
  <2>2. Scripts'
    BY <1>5, <2>1 DEF IInv, Scripts, Lose
  <2> QED
    BY <1>5, <2>2 DEF Lose, IInv, Relays, Interlock
<1>6. CASE UNCHANGED vars
  BY <1>6 DEF vars, IInv, Scripts, Relays, Interlock
<1> QED
  BY <1>1, <1>2, <1>3, <1>4, <1>5, <1>6 DEF Next, Run

\* Interlock holds of every run of either program, whatever events and commands
\* occur and however the three threads' frames interleave, are lost or are cut
\* off by the death of the process.
THEOREM SpecInterlock == Spec => []Interlock
<1>1. IInv => Interlock
  BY DEF IInv
<1> QED
  BY <1>1, InitIInv, NextIInv, PTL DEF Spec

-----------------------------------------------------------------------------
(* The release of a relay that is on.  A script is a command or the second  *)
(* frame of a pulse, and every relay of a curtain, not only those of Pairs, *)
(* has its release in front of some thread.                                 *)

LastFrames == {<<s[2]>> : s \in PulseScripts}

Shapes ==
  /\ cmd = [t \in Threads |-> cmd[t]]
  /\ \A t \in Threads : script[t] \in Whole \cup LastFrames /\ (cmd[t] = "none" => script[t] = << >>)

Released(d, c) == \E t \in Threads : script[t] # << >> /\ Releases(Head(script[t]), d, c)

Held ==
  spoilt = 0 =>
    \A d \in Curtains \cap Devices : \A c \in Channels : relay[d][c] = 1 => Released(d, c)

\* What a pulse switches on with its first frame the second releases; the second
\* switches nothing on.
LEMMA PulseReleases ==
  ASSUME NEW s \in PulseScripts
  PROVE  /\ Len(s) = 2 /\ Head(s) = s[1] /\ Tail(s) = <<s[2]>>
         /\ \A c \in Channels : c \in DOMAIN s[1].msg /\ s[1].msg[c] = 1 => Releases(s[2], s[1].to, c)
         /\ \A c \in Channels : ~(c \in DOMAIN s[2].msg /\ s[2].msg[c] = 1)
<1>1. PICK f, g : s = <<f, g>>
  BY DEF PulseScripts, Bedroom, Sheer, Cloth
<1>2. s[1] = f /\ s[2] = g /\ Len(s) = 2 /\ Head(s) = s[1] /\ Tail(s) = <<s[2]>>
  BY <1>1
<1>3. /\ f.to = g.to
      /\ \/ /\ f.msg = <<0, 0, 1>> \/ f.msg = <<1, 0, 0>>
            /\ g.msg = <<0, 0, 0>>
         \/ /\ f.msg = <<1, 0, 2, 2>> \/ f.msg = <<0, 1, 2, 2>>
            /\ g.msg = <<0, 0, 2, 2>>
         \/ /\ f.msg = <<2, 2, 1, 0>> \/ f.msg = <<2, 2, 0, 1>>
            /\ g.msg = <<2, 2, 0, 0>>
  BY <1>1 DEF PulseScripts, Bedroom, Sheer, Cloth, Ctrl
<1>4. \A c \in Channels : c \in DOMAIN f.msg /\ f.msg[c] = 1 => Releases(g, f.to, c)
  BY <1>3 DEF Channels, Releases
<1>5. \A c \in Channels : ~(c \in DOMAIN g.msg /\ g.msg[c] = 1)
  BY <1>3 DEF Channels
<1> QED
  BY <1>2, <1>4, <1>5

\* A relay that is on after a frame was on and not released by it, or the frame
\* has switched it on.
LEMMA AppliedOn ==
  ASSUME NEW f \in CurtainFrames, NEW r \in [Channels -> {0, 1}], NEW c \in Channels,
         Applied(f, r)[c] = 1
  PROVE  \/ r[c] = 1 /\ ~Releases(f, f.to, c)
         \/ c \in DOMAIN f.msg /\ f.msg[c] = 1
<1>1. f.msg \in BedroomStates \cup LivingStates
  BY DEF CurtainFrames
<1>2. CASE c \notin DOMAIN f.msg
  BY <1>2 DEF Applied, Releases
<1>3. CASE c \in DOMAIN f.msg
  <2>1. f.msg[c] \in {0, 1, 2}
    BY <1>1, <1>3 DEF BedroomStates, LivingStates
  <2> QED
    BY <1>3, <2>1 DEF Applied, Releases
<1> QED
  BY <1>2, <1>3

\* The script of a thread that sends to a curtain.
LEMMA CurtainScript ==
  ASSUME NEW s \in Whole \cup LastFrames, s # << >>, Head(s).to \in Curtains
  PROVE  s \in PulseScripts \cup LastFrames
<1>1. s \notin Plain
  <2> SUFFICES ASSUME s \in Plain PROVE FALSE
    OBVIOUS
  <2>1. Head(s) \in RoomFrames \cup Json
    BY DEF Plain
  <2> QED
    BY <2>1, ControlAssumption DEF RoomFrames, Lights, Curtains
<1> QED
  BY <1>1 DEF Whole

\* What is left of a script when its first frame has gone.
LEMMA TailShape ==
  ASSUME NEW s \in Whole \cup LastFrames, s # << >> PROVE Tail(s) \in Whole \cup LastFrames
<1>1. << >> \in Whole
  BY DEF Whole, Plain
<1>2. CASE s \in Plain
  BY <1>2 DEF Whole, Plain
<1>3. CASE s \in PulseScripts
  BY <1>3, PulseReleases DEF LastFrames
<1>4. CASE s \in LastFrames
  <2>1. PICK g : s = <<g>>
    BY <1>4 DEF LastFrames
  <2> QED
    BY <1>1, <2>1
<1> QED
  BY <1>2, <1>3, <1>4 DEF Whole

LEMMA ShapesStep == IInv /\ Shapes /\ [Next]_vars => Shapes'
<1> SUFFICES ASSUME IInv, Shapes, [Next]_vars PROVE Shapes'
  OBVIOUS
<1>0. script \in [Threads -> Seq(Frames)] /\ cmd = [t \in Threads |-> cmd[t]] /\ gw \in {1, 2}
  BY DEF IInv, Scripts, Shapes
<1>1. CASE Click \/ Text \/ Post \/ KitchenOff
  <2>1. PICK t \in Threads : \E name : \E s \in Whole : name # "none" /\ Start(t, name, s)
    BY <1>0, <1>1, Beginning
  <2> QED
    BY <1>0, <2>1 DEF Shapes, Start
<1>2. CASE Die
  <2>1. << >> \in Whole
    BY DEF Whole, Plain
  <2> QED
    BY <1>2, <2>1 DEF Die, Shapes
<1>3. ASSUME NEW t \in Threads, Send(t) \/ Lose(t) PROVE Shapes'
  <2>1. script[t] # << >> /\ script' = [script EXCEPT ![t] = Tail(@)] /\ UNCHANGED cmd
    BY <1>3 DEF Send, Lose
  <2>2. Tail(script[t]) \in Whole \cup LastFrames /\ cmd[t] # "none"
    BY <2>1, TailShape DEF Shapes
  <2> QED
    BY <1>0, <2>1, <2>2 DEF Shapes
<1>4. ASSUME NEW t \in Threads, Return(t) PROVE Shapes'
  BY <1>0, <1>4 DEF Return, Shapes
<1>5. CASE UNCHANGED vars
  BY <1>5 DEF vars, Shapes
<1> QED
  BY <1>1, <1>2, <1>3, <1>4, <1>5 DEF Next, Run

\* A frame of thread t: it has switched a relay on and is followed by its
\* release, or it has left on what another thread will release.
LEMMA SendHeld == ASSUME IInv, Shapes, Held, NEW t \in Threads, Send(t) PROVE Held'
<1> DEFINE f == Head(script[t])
<1>1. /\ script[t] \in Seq(Frames) /\ script[t] # << >> /\ script[t] \in Whole \cup LastFrames
      /\ script' = [script EXCEPT ![t] = Tail(@)] /\ script \in [Threads -> Seq(Frames)]
  BY DEF IInv, Scripts, Send, Shapes
<1>2. f \in Frames
  BY <1>1
<1>3. relay' = [d \in Devices |-> IF d = f.to THEN Applied(f, relay[d]) ELSE relay[d]]
  BY DEF IInv, Relays, Send
<1>4. ASSUME spoilt = 0, NEW d \in Curtains \cap Devices, NEW c \in Channels, relay'[d][c] = 1
      PROVE  Released(d, c)'
  <2>1. relay[d] \in [Channels -> {0, 1}]
    BY DEF IInv, Relays
  <2>2. ASSUME relay[d][c] = 1, ~Releases(f, d, c) PROVE Released(d, c)'
    <3>1. PICK u \in Threads : script[u] # << >> /\ Releases(Head(script[u]), d, c)
      BY <1>4, <2>2 DEF Held, Released
    <3>2. script'[u] = script[u]
      BY <1>1, <2>2, <3>1
    <3> QED
      BY <3>1, <3>2 DEF Released
  <2>3. CASE d # f.to
    <3>1. relay[d][c] = 1
      BY <1>3, <1>4, <2>3
    <3>2. ~Releases(f, d, c)
      BY <2>3 DEF Releases
    <3> QED
      BY <2>2, <3>1, <3>2
  <2>4. CASE d = f.to
    <3>1. f \in CurtainFrames
      BY <1>2, <2>4, FrameTo
    <3>2. Applied(f, relay[d])[c] = 1
      BY <1>3, <1>4, <2>4
    <3>3. \/ relay[d][c] = 1 /\ ~Releases(f, f.to, c)
          \/ c \in DOMAIN f.msg /\ f.msg[c] = 1
      BY <2>1, <3>1, <3>2, AppliedOn
    <3>4. CASE c \in DOMAIN f.msg /\ f.msg[c] = 1
      <4>1. script[t] \in PulseScripts \cup LastFrames
        BY <1>1, <2>4, CurtainScript
      <4>2. script[t] \notin LastFrames
        <5> SUFFICES ASSUME NEW s \in PulseScripts, script[t] = <<s[2]>> PROVE FALSE
          BY DEF LastFrames
        <5>1. f = s[2]
          OBVIOUS
        <5> QED
          BY <3>4, <5>1, PulseReleases
      <4>3. PICK s \in PulseScripts : s = script[t]
        BY <4>1, <4>2
      <4>4. f = s[1] /\ Releases(s[2], f.to, c)
        BY <3>4, <4>3, PulseReleases
      <4>5. script'[t] = <<s[2]>>
        BY <1>1, <4>3, PulseReleases
      <4>6. script'[t] # << >> /\ Head(script'[t]) = s[2]
        BY <4>5
      <4> QED
        BY <2>4, <4>4, <4>6 DEF Released
    <3> QED
      BY <2>2, <2>4, <3>3, <3>4
  <2> QED
    BY <2>3, <2>4
<1> QED
  BY <1>4 DEF Held, Send

LEMMA HeldStep == IInv /\ Shapes /\ Held /\ [Next]_vars => Held'
<1> SUFFICES ASSUME IInv, Shapes, Held, [Next]_vars PROVE Held'
  OBVIOUS
<1>1. CASE Click \/ Text \/ Post \/ KitchenOff
  <2>1. gw \in {1, 2}
    BY DEF IInv
  <2>2. PICK t \in Threads : \E name : \E s \in Whole : name # "none" /\ Start(t, name, s)
    BY <1>1, <2>1, Beginning
  <2>3. cmd[t] = "none" /\ UNCHANGED <<relay, spoilt>>
    BY <2>2 DEF Start
  <2>4. \A u \in Threads : script[u] # << >> => script'[u] = script[u]
    BY <2>2 DEF Start, IInv, Scripts, Shapes
  <2> QED
    BY <2>3, <2>4 DEF Held, Released
<1>2. ASSUME NEW t \in Threads, Send(t) PROVE Held'
  BY <1>2, SendHeld
<1>3. CASE Die \/ \E t \in Threads : Lose(t)
  BY <1>3 DEF Die, Lose, Held
<1>4. ASSUME NEW t \in Threads, Return(t) PROVE Held'
  BY <1>4 DEF Return, Held, Released
<1>5. CASE UNCHANGED vars
  BY <1>5 DEF vars, Held, Released
<1> QED
  BY <1>1, <1>2, <1>3, <1>4, <1>5 DEF Next, Run

\* Every relay of a curtain that is on has its release as the next frame of some
\* thread, for every set of events, commands and devices; that thread goes on, so
\* the relay goes off: the safety part of MotorStops.
THEOREM SpecReleaseUnderWay == Spec => []ReleaseUnderWay
<1>1. Init => Shapes /\ Held
  <2> SUFFICES ASSUME Init PROVE Shapes /\ Held
    OBVIOUS
  <2>1. << >> \in Whole
    BY DEF Whole, Plain
  <2> QED
    BY <2>1 DEF Init, Shapes, Held
<1>2. Held => ReleaseUnderWay
  <2> SUFFICES ASSUME Held, spoilt = 0, NEW p \in Pairs, NEW c \in {p[2], p[3]}, relay[p[1]][c] = 1
               PROVE  Released(p[1], c)
    BY DEF ReleaseUnderWay, Released
  <2>1. p[1] \in Curtains \cap Devices /\ c \in Channels
    BY DEF Pairs, Curtains, Channels
  <2> QED
    BY <2>1 DEF Held
<1> QED
  BY <1>1, <1>2, InitIInv, NextIInv, ShapesStep, HeldStep, PTL DEF Spec

-----------------------------------------------------------------------------
(* The motors.  A frame to a curtain drives one motor, or frees it, and     *)
(* spares the others; a thread owes a release when its next frame frees.    *)

AllPairs == {<<"CL_ZHUWO", 1, 3>>, <<"CL_KETING1", 1, 2>>, <<"CL_KETING1", 3, 4>>}

Frees(f, p) == \A c \in {p[2], p[3]} : Releases(f, p[1], c)

Drives(f, p) ==
  /\ f.to = p[1] /\ p[2] \in DOMAIN f.msg /\ p[3] \in DOMAIN f.msg
  /\ \/ f.msg[p[2]] = 1 /\ f.msg[p[3]] = 0
     \/ f.msg[p[2]] = 0 /\ f.msg[p[3]] = 1

Spares(f, p) ==
  f.to = p[1] => /\ p[2] \in DOMAIN f.msg /\ p[3] \in DOMAIN f.msg
                 /\ f.msg[p[2]] = 2 /\ f.msg[p[3]] = 2

Owes(s, p) == s # << >> /\ Frees(Head(s), p)

LEMMA OwingIs == \A p : Owing(p) = {t \in Threads : Owes(script[t], p)}
BY DEF Owing, Owes, Frees

LEMMA PairsAre == Pairs = {p \in AllPairs : p[1] \in Devices}
BY DEF Pairs, AllPairs

LEMMA OneKind ==
  \A f, p : /\ Drives(f, p) => ~Frees(f, p)
            /\ Spares(f, p) => ~Frees(f, p)
<1> SUFFICES ASSUME NEW f, NEW p, Frees(f, p) PROVE ~Drives(f, p) /\ ~Spares(f, p)
  OBVIOUS
<1>1. f.to = p[1] /\ f.msg[p[2]] = 0 /\ f.msg[p[3]] = 0
  BY DEF Frees, Releases
<1> QED
  BY <1>1 DEF Drives, Spares

\* The two frames of a pulse.
LEMMA PulseKinds ==
  ASSUME NEW s \in PulseScripts
  PROVE  \E p \in AllPairs :
           /\ Drives(s[1], p) /\ Frees(s[2], p)
           /\ \A q \in AllPairs \ {p} : Spares(s[1], q) /\ Spares(s[2], q)
<1>1. CASE s \in {Bedroom(<<0, 0, 1>>), Bedroom(<<1, 0, 0>>)}
  <2> DEFINE p == <<"CL_ZHUWO", 1, 3>>
  <2>1. PICK m \in {<<0, 0, 1>>, <<1, 0, 0>>} : s = <<Ctrl("CL_ZHUWO", m), Ctrl("CL_ZHUWO", <<0, 0, 0>>)>>
    BY <1>1 DEF Bedroom
  <2>2. s[1].to = "CL_ZHUWO" /\ s[1].msg = m /\ s[2].to = "CL_ZHUWO" /\ s[2].msg = <<0, 0, 0>>
    BY <2>1 DEF Ctrl
  <2>3. Drives(s[1], p)
    BY <2>2 DEF Drives
  <2>4. Frees(s[2], p)
    BY <2>2 DEF Frees, Releases
  <2>5. \A q \in AllPairs \ {p} : Spares(s[1], q) /\ Spares(s[2], q)
    BY <2>2 DEF AllPairs, Spares
  <2> QED
    BY <2>3, <2>4, <2>5 DEF AllPairs
<1>2. CASE s \in {Sheer(1, 0), Sheer(0, 1)}
  <2> DEFINE p == <<"CL_KETING1", 1, 2>>
  <2>1. PICK m \in {<<1, 0, 2, 2>>, <<0, 1, 2, 2>>} :
          s = <<Ctrl("CL_KETING1", m), Ctrl("CL_KETING1", <<0, 0, 2, 2>>)>>
    BY <1>2 DEF Sheer
  <2>2. s[1].to = "CL_KETING1" /\ s[1].msg = m /\ s[2].to = "CL_KETING1" /\ s[2].msg = <<0, 0, 2, 2>>
    BY <2>1 DEF Ctrl
  <2>3. Drives(s[1], p)
    BY <2>2 DEF Drives
  <2>4. Frees(s[2], p)
    BY <2>2 DEF Frees, Releases
  <2>5. \A q \in AllPairs \ {p} : Spares(s[1], q) /\ Spares(s[2], q)
    BY <2>2 DEF AllPairs, Spares
  <2> QED
    BY <2>3, <2>4, <2>5 DEF AllPairs
<1>3. CASE s \in {Cloth(1, 0), Cloth(0, 1)}
  <2> DEFINE p == <<"CL_KETING1", 3, 4>>
  <2>1. PICK m \in {<<2, 2, 1, 0>>, <<2, 2, 0, 1>>} :
          s = <<Ctrl("CL_KETING1", m), Ctrl("CL_KETING1", <<2, 2, 0, 0>>)>>
    BY <1>3 DEF Cloth
  <2>2. s[1].to = "CL_KETING1" /\ s[1].msg = m /\ s[2].to = "CL_KETING1" /\ s[2].msg = <<2, 2, 0, 0>>
    BY <2>1 DEF Ctrl
  <2>3. Drives(s[1], p)
    BY <2>2 DEF Drives
  <2>4. Frees(s[2], p)
    BY <2>2 DEF Frees, Releases
  <2>5. \A q \in AllPairs \ {p} : Spares(s[1], q) /\ Spares(s[2], q)
    BY <2>2 DEF AllPairs, Spares
  <2> QED
    BY <2>3, <2>4, <2>5 DEF AllPairs
<1> QED
  BY <1>1, <1>2, <1>3 DEF PulseScripts

\* Frames to rooms free no curtain.
LEMMA PlainOwes ==
  ASSUME NEW s \in Plain, NEW p \in AllPairs
  PROVE  ~Owes(s, p) /\ (s # << >> => Head(s).to # p[1])
<1> SUFFICES ASSUME s # << >> PROVE Head(s).to # p[1]
  BY DEF Owes, Frees, Releases
<1>1. Head(s) \in RoomFrames \cup Json
  BY DEF Plain
<1>2. Head(s).to \notin Curtains
  BY <1>1, ControlAssumption DEF RoomFrames, Lights, Curtains
<1> QED
  BY <1>2 DEF AllPairs, Curtains

\* What the next frame of a script does and what is owed afterwards: nothing to
\* any motor; it drives p and owes it the release; it frees p and owes nothing.
Idles(s)    == \A q \in AllPairs : Head(s).to # q[1] /\ ~Owes(s, q) /\ ~Owes(Tail(s), q)
Others(s, p) == \A q \in AllPairs \ {p} : Spares(Head(s), q) /\ ~Owes(s, q) /\ ~Owes(Tail(s), q)
Begins(s, p) == Drives(Head(s), p) /\ ~Owes(s, p) /\ Owes(Tail(s), p) /\ Others(s, p)
Ends(s, p)   == Frees(Head(s), p) /\ Owes(s, p) /\ ~Owes(Tail(s), p) /\ Others(s, p)

LEMMA ScriptKinds ==
  ASSUME NEW s \in Whole \cup LastFrames, s # << >>
  PROVE  Idles(s) \/ \E p \in AllPairs : Begins(s, p) \/ Ends(s, p)
<1>1. CASE s \in Plain
  <2>1. Tail(s) \in Plain
    BY <1>1 DEF Plain
  <2> QED
    BY <1>1, <2>1, PlainOwes DEF Idles
<1>2. CASE s \in PulseScripts
  <2>1. Head(s) = s[1] /\ Tail(s) = <<s[2]>>
    BY <1>2, PulseReleases
  <2>2. Tail(s) # << >> /\ Head(Tail(s)) = s[2]
    BY <2>1
  <2>3. PICK p \in AllPairs :
          /\ Drives(s[1], p) /\ Frees(s[2], p)
          /\ \A q \in AllPairs \ {p} : Spares(s[1], q) /\ Spares(s[2], q)
    BY <1>2, PulseKinds
  <2>4. Others(s, p)
    BY <2>1, <2>2, <2>3, OneKind DEF Others, Owes
  <2>5. Drives(Head(s), p) /\ ~Owes(s, p) /\ Owes(Tail(s), p)
    BY <2>1, <2>2, <2>3, OneKind DEF Owes
  <2> QED
    BY <2>4, <2>5 DEF Begins
<1>3. CASE s \in LastFrames
  <2>1. PICK z \in PulseScripts : s = <<z[2]>>
    BY <1>3 DEF LastFrames
  <2>2. Head(s) = z[2] /\ Tail(s) = << >>
    BY <2>1
  <2>3. PICK p \in AllPairs : Frees(z[2], p) /\ \A q \in AllPairs \ {p} : Spares(z[2], q)
    BY PulseKinds
  <2>4. Others(s, p)
    BY <2>2, <2>3, OneKind DEF Others, Owes
  <2>5. Frees(Head(s), p) /\ Owes(s, p) /\ ~Owes(Tail(s), p)
    BY <2>2, <2>3 DEF Owes
  <2> QED
    BY <2>4, <2>5 DEF Ends
<1> QED
  BY <1>1, <1>2, <1>3 DEF Whole

\* A new command owes nothing yet.
LEMMA WholeOwes == ASSUME NEW s \in Whole, NEW p \in AllPairs PROVE ~Owes(s, p)
<1>1. CASE s \in Plain
  BY <1>1, PlainOwes
<1>2. CASE s \in PulseScripts
  <2>1. Head(s) = s[1]
    BY <1>2, PulseReleases
  <2>2. Drives(s[1], p) \/ Spares(s[1], p)
    BY <1>2, PulseKinds
  <2> QED
    BY <2>1, <2>2, OneKind DEF Owes
<1> QED
  BY <1>1, <1>2 DEF Whole

\* What a frame does to a motor.
LEMMA DriveStep ==
  ASSUME IInv, NEW f \in Frames, NEW p \in Pairs,
         relay' = [d \in Devices |-> IF d = f.to THEN Applied(f, relay[d]) ELSE relay[d]]
  PROVE  /\ Spares(f, p) => Drive(p)' = Drive(p)
         /\ Drives(f, p) => Drive(p)' \in {"one", "other"}
         /\ Frees(f, p) => Drive(p)' = "stop"
<1>1. p[1] \in Devices /\ p[2] \in Channels /\ p[3] \in Channels
  BY DEF Pairs, Channels
<1>2. CASE f.to # p[1]
  <2>1. relay'[p[1]] = relay[p[1]]
    BY <1>1, <1>2
  <2> QED
    BY <1>2, <2>1 DEF Drive, Drives, Frees, Releases
<1>3. CASE f.to = p[1]
  <2>1. relay'[p[1]] = Applied(f, relay[p[1]])
    BY <1>1, <1>3
  <2>2. \A c \in {p[2], p[3]} : c \in DOMAIN f.msg =>
          /\ f.msg[c] = 0 => relay'[p[1]][c] = 0
          /\ f.msg[c] = 1 => relay'[p[1]][c] = 1
          /\ f.msg[c] = 2 => relay'[p[1]][c] = relay[p[1]][c]
    <3> SUFFICES ASSUME NEW c \in {p[2], p[3]}, c \in DOMAIN f.msg
                 PROVE  /\ f.msg[c] = 0 => relay'[p[1]][c] = 0
                        /\ f.msg[c] = 1 => relay'[p[1]][c] = 1
                        /\ f.msg[c] = 2 => relay'[p[1]][c] = relay[p[1]][c]
      OBVIOUS
    <3>1. c \in Channels
      BY <1>1
    <3>2. relay'[p[1]][c] = CASE f.msg[c] \in {0, 1} -> f.msg[c]
                             [] f.msg[c] = 2        -> relay[p[1]][c]
                             [] f.msg[c] = 3        -> 1 - relay[p[1]][c]
      BY <2>1, <3>1 DEF Applied
    <3> QED
      BY <3>2
  <2>3. Spares(f, p) => Drive(p)' = Drive(p)
    BY <1>3, <2>2 DEF Spares, Drive
  <2>4. Drives(f, p) => Drive(p)' \in {"one", "other"}
    BY <2>2 DEF Drives, Drive
  <2>5. Frees(f, p) => Drive(p)' = "stop"
    BY <2>2 DEF Frees, Releases, Drive
  <2> QED
    BY <2>3, <2>4, <2>5
<1> QED
  BY <1>2, <1>3

\* Who owes a release after thread t has gone on with its script.
LEMMA OwingStep ==
  ASSUME IInv, NEW t \in Threads, script' = [script EXCEPT ![t] = Tail(@)], NEW p
  PROVE  /\ Owes(script[t], p) <=> t \in Owing(p)
         /\ Owing(p)' = IF Owes(Tail(script[t]), p) THEN Owing(p) \cup {t} ELSE Owing(p) \ {t}
<1>1. \A u \in Threads : script'[u] = IF u = t THEN Tail(script[t]) ELSE script[u]
  BY DEF IInv, Scripts
<1>2. Owing(p)' = {u \in Threads : Owes(script'[u], p)}
  BY DEF Owing, Owes, Frees, Releases
<1>3. Owing(p) = {u \in Threads : Owes(script[u], p)}
  BY OwingIs
<1> QED
  BY <1>1, <1>2, <1>3

Drv == [p \in Pairs |-> Drive(p)]
Owd == [p \in Pairs |-> Owing(p)]

\* Nothing happens to any motor.
LEMMA SameMotors ==
  ASSUME \A p \in Pairs : Drive(p)' = Drive(p) /\ Owing(p)' = Owing(p), spoilt' = spoilt
  PROVE  UNCHANGED <<Drv, Owd, spoilt>>
<1>1. Drv' = [p \in Pairs |-> Drive(p)'] /\ Owd' = [p \in Pairs |-> Owing(p)']
  BY DEF Drv, Owd, Pairs
<1> QED
  BY <1>1 DEF Drv, Owd

LEMMA SendMotor ==
  ASSUME IInv, Shapes, NEW t \in Threads, Send(t) PROVE [Motor!Next]_<<Drv, Owd, spoilt>>
<1> DEFINE s == script[t]  f == Head(s)
<1>1. /\ s \in Seq(Frames) /\ s # << >> /\ s \in Whole \cup LastFrames
      /\ script' = [script EXCEPT ![t] = Tail(@)] /\ spoilt' = spoilt
  BY DEF IInv, Scripts, Send, Shapes
<1>2. f \in Frames
  BY <1>1
<1>3. relay' = [d \in Devices |-> IF d = f.to THEN Applied(f, relay[d]) ELSE relay[d]]
  BY DEF IInv, Relays, Send
<1>4. \A p \in Pairs : /\ Spares(f, p) => Drive(p)' = Drive(p)
                       /\ Drives(f, p) => Drive(p)' \in {"one", "other"}
                       /\ Frees(f, p) => Drive(p)' = "stop"
  BY <1>2, <1>3, DriveStep
<1>5. \A p \in Pairs : /\ Owes(s, p) <=> t \in Owing(p)
                       /\ Owing(p)' = IF Owes(Tail(s), p) THEN Owing(p) \cup {t} ELSE Owing(p) \ {t}
  BY <1>1, OwingStep
<1>6. Drv' = [p \in Pairs |-> Drive(p)'] /\ Owd' = [p \in Pairs |-> Owing(p)']
  BY DEF Drv, Owd, Pairs
<1> HIDE DEF s, f
<1>7. CASE Idles(s)
  <2>1. \A p \in Pairs : Spares(f, p) /\ ~Owes(s, p) /\ ~Owes(Tail(s), p)
    BY <1>7, PairsAre DEF Idles, Spares, f
  <2>2. \A p \in Pairs : Drive(p)' = Drive(p) /\ Owing(p)' = Owing(p)
    BY <1>4, <1>5, <2>1
  <2> QED
    BY <1>1, <2>2, SameMotors
<1>8. ASSUME NEW p \in AllPairs, Begins(s, p) \/ Ends(s, p), p \notin Pairs
      PROVE  UNCHANGED <<Drv, Owd, spoilt>>
  <2>1. \A q \in Pairs : Spares(f, q) /\ ~Owes(s, q) /\ ~Owes(Tail(s), q)
    BY <1>8, PairsAre DEF Begins, Ends, Others, f
  <2>2. \A q \in Pairs : Drive(q)' = Drive(q) /\ Owing(q)' = Owing(q)
    BY <1>4, <1>5, <2>1
  <2> QED
    BY <1>1, <2>2, SameMotors
<1>9. ASSUME NEW p \in Pairs, Begins(s, p) \/ Ends(s, p)
      PROVE  \A q \in Pairs \ {p} : Drive(q)' = Drive(q) /\ Owing(q)' = Owing(q) /\ t \notin Owing(q)
  <2>1. \A q \in Pairs \ {p} : Spares(f, q) /\ ~Owes(s, q) /\ ~Owes(Tail(s), q)
    BY <1>9, PairsAre DEF Begins, Ends, Others, f
  <2> QED
    BY <1>4, <1>5, <2>1
<1>10. ASSUME NEW p \in Pairs, Begins(s, p) PROVE Motor!Pulse(t, p)
  <2>1. Drives(f, p) /\ ~Owes(s, p) /\ Owes(Tail(s), p)
    BY <1>10 DEF Begins, f
  <2>2. Drive(p)' \in {"one", "other"} /\ Owing(p)' = Owing(p) \cup {t} /\ t \notin Owing(p)
    BY <1>4, <1>5, <2>1
  <2>3. Drv' = [Drv EXCEPT ![p] = Drive(p)']
    BY <1>6, <1>9, <1>10 DEF Drv
  <2>4. Owd' = [Owd EXCEPT ![p] = Owing(p) \cup {t}] /\ Owd[p] = Owing(p)
    BY <1>6, <1>9, <1>10, <2>2 DEF Owd
  <2>5. \A q \in Pairs : t \notin Owd[q]
    BY <1>9, <1>10, <2>2 DEF Owd
  <2>6. Motor!Free(t)
    BY <2>5 DEF Motor!Free, Owd
  <2> QED
    BY <1>1, <2>2, <2>3, <2>4, <2>6 DEF Motor!Pulse, Drv, Owd
<1>11. ASSUME NEW p \in Pairs, Ends(s, p) PROVE Motor!Release(t, p)
  <2>1. Frees(f, p) /\ Owes(s, p) /\ ~Owes(Tail(s), p)
    BY <1>11 DEF Ends, f
  <2>2. Drive(p)' = "stop" /\ Owing(p)' = Owing(p) \ {t} /\ t \in Owing(p)
    BY <1>4, <1>5, <2>1
  <2>3. Drv' = [Drv EXCEPT ![p] = "stop"]
    BY <1>6, <1>9, <1>11, <2>2 DEF Drv
  <2>4. Owd' = [Owd EXCEPT ![p] = Owing(p) \ {t}] /\ Owd[p] = Owing(p)
    BY <1>6, <1>9, <1>11, <2>2 DEF Owd
  <2> QED
    BY <1>1, <2>2, <2>3, <2>4 DEF Motor!Release, Drv, Owd
<1>12. Idles(s) \/ \E p \in AllPairs : Begins(s, p) \/ Ends(s, p)
  BY <1>1, ScriptKinds
<1> QED
  BY <1>7, <1>8, <1>10, <1>11, <1>12 DEF Motor!Next

\* A frame that is lost changes what is owed as if it had been sent.
LEMMA LoseMotor ==
  ASSUME IInv, Shapes, NEW t \in Threads, Lose(t) PROVE [Motor!Next]_<<Drv, Owd, spoilt>>
<1> DEFINE s == script[t]
<1>1. /\ s # << >> /\ s \in Whole \cup LastFrames
      /\ script' = [script EXCEPT ![t] = Tail(@)] /\ spoilt' = 1 /\ relay' = relay
  BY DEF Lose, Shapes
<1>2. \A p \in Pairs : /\ Owes(s, p) <=> t \in Owing(p)
                       /\ Owing(p)' = IF Owes(Tail(s), p) THEN Owing(p) \cup {t} ELSE Owing(p) \ {t}
  BY <1>1, OwingStep
<1>3. Drv' = Drv
  BY <1>1 DEF Drv, Drive, Pairs
<1>4. Owd' = [p \in Pairs |-> Owing(p)']
  BY DEF Owd, Pairs
<1> HIDE DEF s
<1>5. ASSUME \A q \in Pairs : ~Owes(s, q) /\ ~Owes(Tail(s), q) PROVE Motor!Fault(t)
  <2>1. \A q \in Pairs : Owing(q)' = Owing(q)
    BY <1>2, <1>5
  <2>2. Owd' = Owd
    BY <1>4, <2>1 DEF Owd
  <2> QED
    BY <1>1, <1>3, <2>2 DEF Motor!Fault, Drv, Owd
<1>6. CASE Idles(s)
  <2>1. \A q \in Pairs : ~Owes(s, q) /\ ~Owes(Tail(s), q)
    BY <1>6, PairsAre DEF Idles
  <2> QED
    BY <1>5, <2>1 DEF Motor!Next
<1>7. ASSUME NEW p \in AllPairs, Begins(s, p) \/ Ends(s, p), p \notin Pairs PROVE Motor!Next
  <2>1. \A q \in Pairs : ~Owes(s, q) /\ ~Owes(Tail(s), q)
    BY <1>7, PairsAre DEF Begins, Ends, Others
  <2> QED
    BY <1>5, <2>1 DEF Motor!Next
<1>8. ASSUME NEW p \in Pairs, Begins(s, p) \/ Ends(s, p)
      PROVE  \A q \in Pairs \ {p} : Owing(q)' = Owing(q) /\ t \notin Owing(q)
  <2>1. \A q \in Pairs \ {p} : ~Owes(s, q) /\ ~Owes(Tail(s), q)
    BY <1>8, PairsAre DEF Begins, Ends, Others
  <2> QED
    BY <1>2, <2>1
<1>9. ASSUME NEW p \in Pairs, Begins(s, p) PROVE Motor!Fault(t)
  <2>1. Owing(p)' = Owing(p) \cup {t} /\ t \notin Owing(p)
    BY <1>2, <1>9 DEF Begins
  <2>2. Owd' = [Owd EXCEPT ![p] = Owing(p) \cup {t}] /\ Owd[p] = Owing(p)
    BY <1>4, <1>8, <1>9, <2>1 DEF Owd
  <2>3. \A q \in Pairs : t \notin Owd[q]
    BY <1>8, <1>9, <2>1 DEF Owd
  <2>4. Motor!Free(t)
    BY <2>3 DEF Motor!Free, Owd
  <2> QED
    BY <1>1, <1>3, <2>2, <2>4 DEF Motor!Fault, Drv, Owd
<1>10. ASSUME NEW p \in Pairs, Ends(s, p) PROVE Motor!Fault(t)
  <2>1. Owing(p)' = Owing(p) \ {t} /\ t \in Owing(p)
    BY <1>2, <1>10 DEF Ends
  <2>2. Owd' = [Owd EXCEPT ![p] = Owing(p) \ {t}] /\ Owd[p] = Owing(p)
    BY <1>4, <1>8, <1>10, <2>1 DEF Owd
  <2> QED
    BY <1>1, <1>3, <2>1, <2>2 DEF Motor!Fault, Drv, Owd
<1>11. Idles(s) \/ \E p \in AllPairs : Begins(s, p) \/ Ends(s, p)
  BY <1>1, ScriptKinds
<1> QED
  BY <1>6, <1>7, <1>9, <1>10, <1>11 DEF Motor!Next

LEMMA MotorStep ==
  IInv /\ Shapes /\ [Next]_vars => [Motor!Next]_<<Drv, Owd, spoilt>>
<1> SUFFICES ASSUME IInv, Shapes, [Next]_vars PROVE [Motor!Next]_<<Drv, Owd, spoilt>>
  OBVIOUS
<1>1. CASE Click \/ Text \/ Post \/ KitchenOff
  <2>1. gw \in {1, 2} /\ script \in [Threads -> Seq(Frames)]
    BY DEF IInv, Scripts
  <2>2. PICK t \in Threads : \E name : \E s \in Whole : name # "none" /\ Start(t, name, s)
    BY <1>1, <2>1, Beginning
  <2>3. PICK s \in Whole : /\ script' = [script EXCEPT ![t] = s] /\ script[t] = << >>
                           /\ UNCHANGED <<relay, spoilt>>
    BY <2>2 DEF Start, Shapes
  <2>4. ASSUME NEW p \in Pairs PROVE Drive(p)' = Drive(p) /\ Owing(p)' = Owing(p)
    <3>1. ~Owes(s, p) /\ ~Owes(script[t], p)
      BY <2>3, WholeOwes, PairsAre DEF Owes
    <3>2. \A u \in Threads : Owes(script'[u], p) <=> Owes(script[u], p)
      BY <2>1, <2>3, <3>1
    <3>3. Owing(p)' = {u \in Threads : Owes(script'[u], p)}
      BY DEF Owing, Owes, Frees, Releases
    <3>4. Owing(p)' = Owing(p)
      BY <3>2, <3>3, OwingIs
    <3> QED
      BY <2>3, <3>4 DEF Drive
  <2> QED
    BY <2>3, <2>4, SameMotors
<1>2. CASE Die
  <2>1. \A p : Owing(p)' = {}
    BY <1>2 DEF Die, Owing
  <2>2. Owd' = [p \in Pairs |-> {}] /\ Drv' = Drv
    BY <1>2, <2>1 DEF Die, Owd, Drv, Drive, Pairs
  <2> QED
    BY <1>2, <2>2 DEF Die, Motor!Next, Motor!Forget, Owd, Drv
<1>3. ASSUME NEW t \in Threads, Send(t) PROVE [Motor!Next]_<<Drv, Owd, spoilt>>
  BY <1>3, SendMotor
<1>4. ASSUME NEW t \in Threads, Lose(t) PROVE [Motor!Next]_<<Drv, Owd, spoilt>>
  BY <1>4, LoseMotor
<1>5. ASSUME UNCHANGED <<relay, script, spoilt>> PROVE UNCHANGED <<Drv, Owd, spoilt>>
  BY <1>5, SameMotors DEF Drive, Owing, Releases
<1>6. ASSUME NEW t \in Threads, Return(t) PROVE [Motor!Next]_<<Drv, Owd, spoilt>>
  BY <1>5, <1>6 DEF Return
<1>7. CASE UNCHANGED vars
  BY <1>5, <1>7 DEF vars
<1> QED
  BY <1>1, <1>2, <1>3, <1>4, <1>6, <1>7 DEF Next, Run

\* The frames of the three threads of either program implement motors with three
\* positions and releases that are owed: no interleaving makes a frame do
\* anything else to a curtain, for every set of events, commands and devices.
THEOREM CurtainRefinement == Spec => CurtainSpec
<1>1. Init => IInv /\ Shapes /\ Motor!Init
  <2> SUFFICES ASSUME Init PROVE Shapes /\ Motor!Init
    BY InitIInv
  <2>1. << >> \in Whole
    BY DEF Whole, Plain
  <2>2. Shapes
    BY <2>1 DEF Init, Shapes
  <2>3. \A p \in Pairs : Drive(p) = "stop" /\ Owing(p) = {}
    BY DEF Init, Drive, Owing, Pairs, Channels
  <2>4. Motor!Init
    BY <2>3 DEF Init, Motor!Init
  <2> QED
    BY <2>2, <2>4
<1>2. IInv /\ Shapes /\ [Next]_vars
        => [Motor!Next]_<<[p \in Pairs |-> Drive(p)], [p \in Pairs |-> Owing(p)], spoilt>>
  BY MotorStep DEF Drv, Owd
<1> QED
  BY <1>1, <1>2, NextIInv, ShapesStep, PTL DEF Spec, CurtainSpec, Motor!Spec

-----------------------------------------------------------------------------
(* The scene that darkens the house.                                       *)

OffFrame(d) == Ctrl(d, <<0, 0, 0>>)

OffFrames == {OffFrame(d) : d \in Lights}

\* s switches lights off and nothing else, the lights D among them.
Covers(s, D) ==
  /\ s \in Seq(OffFrames)
  /\ \A d \in D : \E n \in 1 .. Len(s) : s[n] = OffFrame(d)

Dark(r) == \A c \in 1 .. 3 : r[c] = 0

\* The clicks that leave the house.
LeavingClicks == {"XMKG_CI twice"} \cup (IF gw = 2 THEN {"XMKG_ZHU twice"} ELSE {})

\* While the scene runs undisturbed every light is out, or the frame that puts
\* it out is still to be sent; and nothing switches a light on again.
Leave ==
  cmd["serial"] \in LeavingClicks /\ alone["serial"] = 1 /\ spoilt = 0 =>
    /\ script["serial"] \in Seq(OffFrames)
    /\ \A d \in Lights \cap Devices :
         \/ Dark(relay[d])
         \/ \E n \in 1 .. Len(script["serial"]) : script["serial"][n] = OffFrame(d)

\* Each thread has its own command.
Commands ==
  /\ cmd = [t \in Threads |-> cmd[t]] /\ alone = [t \in Threads |-> alone[t]]

HInv == IInv /\ Commands /\ Leave

LEMMA OffCovers == \A d \in Lights : Covers(Off(d), {d})
<1> SUFFICES ASSUME NEW d \in Lights PROVE Covers(<<OffFrame(d)>>, {d})
  BY DEF Off, OffFrame
<1>1. OffFrame(d) \in OffFrames
  BY DEF OffFrames
<1> HIDE DEF OffFrame, OffFrames
<1> DEFINE s == <<OffFrame(d)>>
<1>2. s \in Seq(OffFrames) /\ Len(s) = 1 /\ s[1] = OffFrame(d)
  BY <1>1
<1> HIDE DEF s
<1>3. 1 \in 1 .. Len(s)
  BY <1>2
<1>4. Covers(s, {d})
  BY <1>2, <1>3 DEF Covers
<1> QED
  BY <1>4 DEF s

LEMMA JoinCovers ==
  ASSUME NEW a, NEW b, NEW A, NEW B, Covers(a, A), Covers(b, B)
  PROVE  Covers(a \o b, A \cup B)
<1>1. a \in Seq(OffFrames) /\ b \in Seq(OffFrames)
  BY DEF Covers
<1> HIDE DEF OffFrames
<1>2. /\ a \o b \in Seq(OffFrames) /\ Len(a \o b) = Len(a) + Len(b)
      /\ \A n \in 1 .. Len(a) : (a \o b)[n] = a[n]
      /\ \A n \in 1 .. Len(b) : (a \o b)[Len(a) + n] = b[n]
      /\ Len(a) \in Nat /\ Len(b) \in Nat
  BY <1>1
<1>3. ASSUME NEW d \in A PROVE \E n \in 1 .. Len(a \o b) : (a \o b)[n] = OffFrame(d)
  <2>1. PICK n \in 1 .. Len(a) : a[n] = OffFrame(d)
    BY DEF Covers
  <2>2. n \in 1 .. Len(a \o b)
    BY <1>2, <2>1
  <2> QED
    BY <1>2, <2>1, <2>2
<1>4. ASSUME NEW d \in B PROVE \E n \in 1 .. Len(a \o b) : (a \o b)[n] = OffFrame(d)
  <2>1. PICK n \in 1 .. Len(b) : b[n] = OffFrame(d)
    BY DEF Covers
  <2>2. Len(a) + n \in 1 .. Len(a \o b)
    BY <1>2, <2>1
  <2> QED
    BY <1>2, <2>1, <2>2
<1> QED
  BY <1>2, <1>3, <1>4 DEF Covers

\* The scene reaches every light.
LEMMA LeavingCovers == Covers(ClickScript("XMKG_CI twice"), Lights)
<1>1. \A d \in Lights : Covers(Off(d), {d})
  BY OffCovers
<1> HIDE DEF Off, Covers
<1>2. Covers(Off("ZHUWO") \o Off("CIWO"), {"ZHUWO"} \cup {"CIWO"})
  BY <1>1, JoinCovers DEF Lights
<1>3. Covers(Off("ZHUWO") \o Off("CIWO") \o Off("CHUFANG"), {"ZHUWO"} \cup {"CIWO"} \cup {"CHUFANG"})
  BY <1>1, <1>2, JoinCovers DEF Lights
<1>4. Covers(Off("ZHUWO") \o Off("CIWO") \o Off("CHUFANG") \o Off("CANTING"),
             {"ZHUWO"} \cup {"CIWO"} \cup {"CHUFANG"} \cup {"CANTING"})
  BY <1>1, <1>3, JoinCovers DEF Lights
<1>5. Covers(Off("ZHUWO") \o Off("CIWO") \o Off("CHUFANG") \o Off("CANTING") \o Off("KETING"),
             {"ZHUWO"} \cup {"CIWO"} \cup {"CHUFANG"} \cup {"CANTING"} \cup {"KETING"})
  BY <1>1, <1>4, JoinCovers DEF Lights
<1>6. Covers(Off("ZHUWO") \o Off("CIWO") \o Off("CHUFANG") \o Off("CANTING") \o Off("KETING")
               \o Off("MENTING"),
             {"ZHUWO"} \cup {"CIWO"} \cup {"CHUFANG"} \cup {"CANTING"} \cup {"KETING"}
               \cup {"MENTING"})
  BY <1>1, <1>5, JoinCovers DEF Lights
<1>7. Covers(Off("ZHUWO") \o Off("CIWO") \o Off("CHUFANG") \o Off("CANTING") \o Off("KETING")
               \o Off("MENTING") \o Off("GUODAO"),
             {"ZHUWO"} \cup {"CIWO"} \cup {"CHUFANG"} \cup {"CANTING"} \cup {"KETING"}
               \cup {"MENTING"} \cup {"GUODAO"})
  BY <1>1, <1>6, JoinCovers DEF Lights
<1>8. {"ZHUWO"} \cup {"CIWO"} \cup {"CHUFANG"} \cup {"CANTING"} \cup {"KETING"}
        \cup {"MENTING"} \cup {"GUODAO"} = Lights
  BY DEF Lights
<1>9. ClickScript("XMKG_CI twice")
        = Off("ZHUWO") \o Off("CIWO") \o Off("CHUFANG") \o Off("CANTING") \o Off("KETING")
            \o Off("MENTING") \o Off("GUODAO")
  BY DEF ClickScript
<1> QED
  BY <1>7, <1>8, <1>9

\* Either program starts that scene when it is left.
LEMMA LeavingScript ==
  ASSUME gw \in {1, 2}, NEW e \in LeavingClicks
  PROVE  Covers(IF gw = 1 THEN ClickScript(e) ELSE ClickScript2(e), Lights)
<1>1. CASE e = "XMKG_CI twice"
  <2>1. ClickScript2("XMKG_CI twice") = ClickScript("XMKG_CI twice")
    BY DEF ClickScript2
  <2> QED
    BY <1>1, <2>1, LeavingCovers
<1>2. CASE gw = 2 /\ e = "XMKG_ZHU twice"
  <2>1. ClickScript2("XMKG_ZHU twice") = ClickScript("XMKG_CI twice")
    BY DEF ClickScript2
  <2>2. \A g : g = 2 => g # 1
    OBVIOUS
  <2> QED
    BY <1>2, <2>1, <2>2, LeavingCovers, Zenon
<1> QED
  BY <1>1, <1>2 DEF LeavingClicks

\* A light that obeys such a frame is out.
LEMMA OffDark == \A d, r : Dark(Applied(OffFrame(d), r))
  BY DEF Dark, Applied, OffFrame, Ctrl, Channels

LEMMA InitHInv == Init => HInv
<1> SUFFICES ASSUME Init PROVE HInv
  OBVIOUS
<1>1. Commands
  BY DEF Init, Commands
<1>2. Leave
  <2>1. cmd["serial"] = "none"
    BY DEF Init, Threads
  <2>2. "none" \notin {"XMKG_CI twice", "XMKG_ZHU twice"}
    OBVIOUS
  <2> QED
    BY <2>1, <2>2 DEF Leave, LeavingClicks
<1> QED
  BY <1>1, <1>2, InitIInv DEF HInv

\* A click begins a script; if it leaves the house it is the scene.
LEMMA ClickLeave == ASSUME HInv, Click PROVE Leave'
<1>1. PICK e \in Clicks[gw] :
        Start("serial", e, IF gw = 1 THEN ClickScript(e) ELSE ClickScript2(e))
  BY DEF Click
<1> DEFINE s == IF gw = 1 THEN ClickScript(e) ELSE ClickScript2(e)
<1>2. /\ cmd' = [cmd EXCEPT !["serial"] = e] /\ script' = [script EXCEPT !["serial"] = s]
      /\ gw' = gw
  BY <1>1 DEF Start
<1> HIDE DEF s
<1>3. cmd'["serial"] = e /\ script'["serial"] = s
  <2>1. "serial" \in DOMAIN cmd /\ "serial" \in DOMAIN script
    <3>1. "serial" \in Threads
      BY DEF Threads
    <3> QED
      BY <3>1 DEF HInv, IInv, Scripts, Commands
  <2> QED
    BY <1>2, <2>1
<1>4. LeavingClicks' = LeavingClicks
  BY <1>2 DEF LeavingClicks
<1>5. e \in LeavingClicks => Covers(s, Lights)
  BY LeavingScript DEF HInv, IInv, s
<1> QED
  BY <1>3, <1>4, <1>5 DEF Leave, Covers

\* What the other threads begin is none of the serial thread's business.
LEMMA OtherLeave ==
  ASSUME HInv, NEW t \in {"http", "main"}, NEW name, NEW s, Start(t, name, s)
  PROVE  Leave'
<1>1. /\ cmd' = [cmd EXCEPT ![t] = name] /\ script' = [script EXCEPT ![t] = s]
      /\ alone' = [alone EXCEPT ![t] = 1] /\ UNCHANGED <<gw, relay, spoilt>>
  BY DEF Start
<1>2. "serial" # t /\ "serial" \in Threads
  BY DEF Threads
<1>3. cmd'["serial"] = cmd["serial"] /\ script'["serial"] = script["serial"]
      /\ alone'["serial"] = alone["serial"]
  BY <1>1, <1>2 DEF HInv, IInv, Scripts, Commands
<1>4. LeavingClicks' = LeavingClicks
  BY <1>1 DEF LeavingClicks
<1> QED
  BY <1>1, <1>3, <1>4 DEF HInv, Leave, Dark, OffFrame, Ctrl

\* A frame of the scene puts one more light out; one of another thread ends the
\* claim.
LEMMA SendLeave == ASSUME HInv, NEW t \in Threads, Send(t) PROVE Leave'
<1>0. IInv /\ Commands /\ Leave /\ Scripts /\ Relays
  BY DEF HInv, IInv
<1>1. CASE t # "serial"
  <2>1. "serial" \in Threads
    BY DEF Threads
  <2>2. alone'["serial"] = 0
    BY <1>1, <2>1 DEF Send
  <2> QED
    BY <2>2 DEF Leave
<1>2. CASE t = "serial"
  <2> DEFINE q == script["serial"]
  <2> SUFFICES ASSUME cmd'["serial"] \in LeavingClicks', alone'["serial"] = 1, spoilt' = 0
               PROVE  /\ script'["serial"] \in Seq(OffFrames)
                      /\ \A d \in Lights \cap Devices :
                           \/ Dark(relay'[d])
                           \/ \E n \in 1 .. Len(script'["serial"]) :
                                script'["serial"][n] = OffFrame(d)
    BY DEF Leave, Dark, OffFrame, Ctrl, OffFrames
  <2>0. "serial" \in Threads
    BY DEF Threads
  <2>1. /\ q # << >> /\ script' = [script EXCEPT !["serial"] = Tail(@)]
        /\ relay' = [relay EXCEPT ![Head(q).to] = Applied(Head(q), @)]
        /\ gw' = gw /\ cmd' = cmd /\ spoilt' = spoilt
    BY <1>2 DEF Send
  <2>2. alone'["serial"] = alone["serial"]
    BY <1>2, <2>0 DEF Send
  <2>3. LeavingClicks' = LeavingClicks
    BY <2>1 DEF LeavingClicks
  <2>4. /\ q \in Seq(OffFrames)
        /\ \A d \in Lights \cap Devices :
             Dark(relay[d]) \/ \E n \in 1 .. Len(q) : q[n] = OffFrame(d)
    BY <1>0, <2>1, <2>2, <2>3 DEF Leave
  <2>5. script'["serial"] = Tail(q)
    BY <1>0, <2>0, <2>1 DEF Scripts
  <2> HIDE DEF q, OffFrames
  <2>6. /\ Head(q) \in OffFrames /\ Tail(q) \in Seq(OffFrames) /\ Head(q) = q[1]
        /\ Len(q) \in Nat /\ Len(Tail(q)) = Len(q) - 1
        /\ \A n \in 1 .. Len(q) - 1 : Tail(q)[n] = q[n + 1]
    BY <2>1, <2>4
  <2>7. PICK b \in Lights : Head(q) = OffFrame(b)
    BY <2>6 DEF OffFrames
  <2>8. Head(q).to = b
    BY <2>7 DEF OffFrame, Ctrl
  <2>9. relay' = [d \in Devices |-> IF d = b THEN Applied(OffFrame(b), relay[d]) ELSE relay[d]]
    BY <1>0, <2>1, <2>7, <2>8 DEF Relays
  <2>10. ASSUME NEW d \in Lights \cap Devices
         PROVE  Dark(relay'[d]) \/ \E n \in 1 .. Len(Tail(q)) : Tail(q)[n] = OffFrame(d)
    <3>1. CASE d = b
      BY <2>9, <3>1, OffDark
    <3>2. CASE d # b /\ Dark(relay[d])
      BY <2>9, <3>2
    <3>3. CASE d # b /\ \E n \in 1 .. Len(q) : q[n] = OffFrame(d)
      <4>1. PICK n \in 1 .. Len(q) : q[n] = OffFrame(d)
        BY <3>3
      <4>2. n # 1
        BY <2>6, <2>7, <3>3, <4>1 DEF OffFrame, Ctrl
      <4>3. n - 1 \in 1 .. Len(q) - 1 /\ (n - 1) + 1 = n
        BY <2>6, <4>1, <4>2
      <4>4. Tail(q)[n - 1] = OffFrame(d)
        BY <2>6, <4>1, <4>3
      <4> QED
        BY <2>6, <4>3, <4>4
    <3> QED
      BY <2>4, <3>1, <3>2, <3>3
  <2> QED
    BY <2>5, <2>6, <2>10
<1> QED
  BY <1>1, <1>2

LEMMA CommandsStep == HInv /\ [Next]_vars => Commands'
<1> SUFFICES ASSUME HInv, [Next]_vars PROVE Commands'
  OBVIOUS
<1>0. cmd = [t \in Threads |-> cmd[t]] /\ alone = [t \in Threads |-> alone[t]]
  BY DEF HInv, Commands
<1>1. ASSUME NEW t \in Threads, NEW name, NEW s, Start(t, name, s) PROVE Commands'
  BY <1>0, <1>1 DEF Start, Commands
<1>2. CASE Click \/ Text \/ Post \/ KitchenOff
  <2>1. "serial" \in Threads /\ "http" \in Threads /\ "main" \in Threads
    BY DEF Threads
  <2> QED
    BY <1>1, <1>2, <2>1 DEF Click, Text, Post, KitchenOff
<1>3. CASE Die
  BY <1>3 DEF Die, Commands
<1>4. ASSUME NEW t \in Threads, Send(t) \/ Return(t) \/ Lose(t) PROVE Commands'
  BY <1>0, <1>4 DEF Send, Return, Lose, Commands
<1>5. CASE UNCHANGED vars
  BY <1>0, <1>5 DEF vars, Commands
<1> QED
  BY <1>2, <1>3, <1>4, <1>5 DEF Next, Run

LEMMA ReturnLeave == ASSUME HInv, NEW t \in Threads, Return(t) PROVE Leave'
<1>1. /\ cmd' = [cmd EXCEPT ![t] = "none"] /\ alone' = [alone EXCEPT ![t] = 1]
      /\ UNCHANGED <<gw, relay, script, spoilt>>
  BY DEF Return
<1>2. LeavingClicks' = LeavingClicks
  BY <1>1 DEF LeavingClicks
<1>3. "serial" \in Threads
  BY DEF Threads
<1>4. CASE t = "serial"
  <2>1. cmd'["serial"] = "none"
    BY <1>1, <1>3, <1>4 DEF HInv, Commands
  <2>2. "none" \notin {"XMKG_CI twice", "XMKG_ZHU twice"}
    OBVIOUS
  <2> QED
    BY <1>2, <2>1, <2>2 DEF Leave, LeavingClicks
<1>5. CASE t # "serial"
  <2>1. cmd'["serial"] = cmd["serial"] /\ alone'["serial"] = alone["serial"]
    BY <1>1, <1>3, <1>5 DEF HInv, Commands
  <2> QED
    BY <1>1, <1>2, <2>1 DEF HInv, Leave, Dark, OffFrame, Ctrl
<1> QED
  BY <1>4, <1>5

LEMMA NextLeave == HInv /\ [Next]_vars => Leave'
<1> SUFFICES ASSUME HInv, [Next]_vars PROVE Leave'
  OBVIOUS
<1>1. CASE Click
  BY <1>1, ClickLeave
<1>2. CASE Text \/ Post \/ KitchenOff
  BY <1>2, OtherLeave DEF Text, Post, KitchenOff
<1>3. ASSUME Die \/ \E t \in Threads : Lose(t) PROVE Leave'
  <2>1. spoilt' = 1
    BY <1>3 DEF Die, Lose
  <2> QED
    BY <2>1 DEF Leave
<1>4. ASSUME NEW t \in Threads, Send(t) PROVE Leave'
  BY <1>4, SendLeave
<1>5. ASSUME NEW t \in Threads, Return(t) PROVE Leave'
  BY <1>5, ReturnLeave
<1>6. CASE UNCHANGED vars
  <2>1. LeavingClicks' = LeavingClicks
    BY <1>6 DEF vars, LeavingClicks
  <2> QED
    BY <1>6, <2>1 DEF HInv, vars, Leave, Dark, OffFrame, Ctrl
<1> QED
  BY <1>1, <1>2, <1>3, <1>4, <1>5, <1>6 DEF Next, Run

\* The double click that leaves the house darkens it: in either program, for
\* every set of devices, events and commands, whatever the relays were before,
\* unless another thread sent a frame or one was lost meanwhile.
THEOREM SpecHouseDark == Spec => []HouseDark
<1>1. HInv /\ [Next]_vars => HInv'
  BY NextIInv, CommandsStep, NextLeave DEF HInv
<1>2. HInv => HouseDark
  <2> SUFFICES ASSUME HInv, cmd["serial"] \in LeavingClicks, script["serial"] = << >>,
                      alone["serial"] = 1, spoilt = 0,
                      NEW d \in Lights \cap Devices, NEW c \in 1 .. 3
               PROVE  relay[d][c] = 0
    BY DEF HouseDark, LeavingClicks
  <2>1. Dark(relay[d]) \/ \E n \in 1 .. Len(script["serial"]) : script["serial"][n] = OffFrame(d)
    BY DEF HInv, Leave
  <2>2. Len(script["serial"]) = 0 /\ 1 .. 0 = {}
    OBVIOUS
  <2> QED
    BY <2>1, <2>2 DEF Dark
<1> QED
  BY <1>1, <1>2, InitHInv, PTL DEF Spec
=============================================================================
