------------------------------ MODULE Control ------------------------------
(***************************************************************************)
(* The control frames zbclient.c, and zbclient2.c of the second house,     *)
(* send to lights, plug and curtains.                                      *)
(*                                                                         *)
(* recieve_usart() (serial thread) turns the clicks of the wireless        *)
(* switches and the alarms of the leak sensors into control frames,        *)
(* answer_to_connection() (HTTP thread) the commands of users, main() the  *)
(* end of the kitchen timer.  A command is a script of frames: a scene is  *)
(* a frame per room, a curtain moves after a pulse of 100 ms, one frame    *)
(* that switches its relay on and one that releases it.  The threads send  *)
(* their scripts at the same time; each frame travels to its device alone. *)
(*                                                                         *)
(* A frame gives every channel 0 (off), 1 (on), 2 (keep) or 3 (switch      *)
(* over); it may have fewer channels than the device.                      *)
(***************************************************************************)
EXTENDS Integers, Sequences

CONSTANTS Clicks,   \* the events of the serial thread that occur, per gateway
          Texts,    \* the Contents of XML messages that occur, per gateway
          Json,     \* the frames asked for by control_down messages in JSON
          Devices   \* the devices followed

Lights   == {"KETING", "CANTING", "CHUFANG", "MENTING", "GUODAO", "ZHUWO", "CIWO"}
Curtains == {"CL_ZHUWO", "CL_KETING1"}

\* The events and Contents the programs act on; any other is answered by no
\* frame.
ClickEvents ==
  {"XMKG_ZHU twice", "XMKG_CI twice", "XMKG_CL_ZHUWO twice", "XMKG_CL_KETING1 twice",
   "XMKG_CL_KETING2 twice", "XMKG_ZHU", "XMKG_CI", "XMKG_CL_ZHUWO", "XMKG_CL_KETING1",
   "XMKG_CL_KETING2", "leak CIWO", "leak CHUFANG", "motion", "MXJ_GET_STATE",
   "door open", "door closed"}

TextCommands ==
  {"open KETING", "close KETING", "open CANTING", "close CANTING", "open CHUFANG",
   "close CHUFANG", "open MENTING", "close MENTING", "open ZHUWO", "close ZHUWO",
   "open CIWO", "close CIWO", "open GUODAO", "close GUODAO", "open toilet",
   "close toilet", "open POWER_CIWO", "close POWER_CIWO", "close bedroom",
   "open bedroom", "close sheer", "open sheer", "close cloth", "open cloth"}

\* The clients' messages in JSON name rooms: with an id of its own choice a
\* client can switch the relays of a curtain in any way.
ASSUME ControlAssumption ==
  /\ \A g \in {1, 2} : Clicks[g] \subseteq ClickEvents /\ Texts[g] \subseteq TextCommands
  /\ \A f \in Json : f.to \notin Curtains

VARIABLES gw,       \* the program: 1 for zbclient.c, 2 for zbclient2.c
          relay,    \* the relays of every device (external)
          cmd,      \* the command a thread carries out, "none" between two
          script,   \* the frames it still has to send
          alone,    \* history: 1 while no other thread sent a frame meanwhile
          spoilt    \* history: 1 when a frame was lost or the process died

vars == <<gw, relay, cmd, script, alone, spoilt>>

Threads  == {"serial", "http", "main"}
Channels == 1 .. 4

\* MXJ_SendCtrlMessage(id, len, ...): the message is the first len states.
Ctrl(d, m) == [to |-> d, msg |-> m]

\* Mutant: the length of the message is 1.
OffShort(d) == <<Ctrl(d, <<0>>)>>

On(d)  == <<Ctrl(d, <<1, 0, 0>>)>>

Off(d) == <<Ctrl(d, <<0, 0, 0>>)>>

\* Mutants: a pulse keeps the other direction as it is; it is never released.
SheerKeeps(a, b) ==
  <<Ctrl("CL_KETING1", <<2 - a, 2 - b, 2, 2>>), Ctrl("CL_KETING1", <<0, 0, 2, 2>>)>>

SheerHeld(a, b) == <<Ctrl("CL_KETING1", <<a, b, 2, 2>>)>>

\* Mutant: the pulse of one curtain is released at the other.
SheerCrossed(a, b) == <<Ctrl("CL_KETING1", <<a, b, 2, 2>>), Ctrl("CL_KETING1", <<2, 2, 0, 0>>)>>

\* Mutant: the frame that releases is one state short.
BedroomShort(m) == <<Ctrl("CL_ZHUWO", m), Ctrl("CL_ZHUWO", <<0, 0>>)>>

\* A pulse: usleep(100000) lies between the two frames.
Bedroom(m) == <<Ctrl("CL_ZHUWO", m), Ctrl("CL_ZHUWO", <<0, 0, 0>>)>>

Sheer(a, b) == <<Ctrl("CL_KETING1", <<a, b, 2, 2>>), Ctrl("CL_KETING1", <<0, 0, 2, 2>>)>>

Cloth(a, b) == <<Ctrl("CL_KETING1", <<2, 2, a, b>>), Ctrl("CL_KETING1", <<2, 2, 0, 0>>)>>

\* Double clicks (rx[11] == 0x20), single clicks and leaks of recieve_usart().
ClickScript(e) ==
  CASE e = "XMKG_ZHU twice"        -> <<Ctrl("ZHUWO", <<3, 3, 3>>)>>
    [] e = "XMKG_CI twice"         -> Off("ZHUWO") \o Off("CIWO") \o Off("CHUFANG")
                                      \o Off("CANTING") \o Off("KETING")
                                      \o Off("MENTING") \o Off("GUODAO")
    [] e = "XMKG_CL_ZHUWO twice"   -> Bedroom(<<0, 0, 1>>)
    [] e = "XMKG_CL_KETING1 twice" -> Sheer(1, 0)
    [] e = "XMKG_CL_KETING2 twice" -> Cloth(1, 0)
    [] e = "XMKG_ZHU"              -> <<Ctrl("GUODAO", <<3, 3, 3>>)>>
    [] e = "XMKG_CI"               -> <<Ctrl("CIWO", <<3, 3, 3>>)>>
    [] e = "XMKG_CL_ZHUWO"         -> Bedroom(<<1, 0, 0>>)
    [] e = "XMKG_CL_KETING1"       -> Sheer(0, 1)
    [] e = "XMKG_CL_KETING2"       -> Cloth(0, 1)
    [] e = "leak CIWO"             -> On("ZHUWO") \o On("CIWO")
    [] e = "leak CHUFANG"          -> On("ZHUWO") \o On("CHUFANG")
    [] e = "motion"                -> <<Ctrl("CHUFANG", <<1, 1, 1>>)>>
    [] e = "MXJ_GET_STATE"         -> <<Ctrl("KETING", <<2>>)>>
    [] e \in {"door open", "door closed"} -> << >>

\* The same in zbclient2.c: both bedroom switches darken the house, a single
\* click switches the bedroom itself, the hall light follows the door, and a
\* device that asks for its state gets no answer.
ClickScript2(e) ==
  CASE e = "XMKG_ZHU twice" -> ClickScript("XMKG_CI twice")
    [] e = "XMKG_ZHU"       -> <<Ctrl("ZHUWO", <<3, 3, 3>>)>>
    [] e = "door open"      -> <<Ctrl("MENTING", <<1, 1, 1>>)>>
    [] e = "door closed"    -> <<Ctrl("MENTING", <<0, 0, 0>>)>>
    [] e = "MXJ_GET_STATE"  -> << >>
    [] OTHER                -> ClickScript(e)

\* The Content commands of an XML message: "open ..." and "close ...".
TextScript(x) ==
  CASE x = "open KETING"       -> <<Ctrl("KETING", <<1, 1, 1>>)>>
    [] x = "close KETING"      -> Off("KETING")
    [] x = "open CANTING"      -> On("CANTING")   [] x = "close CANTING" -> Off("CANTING")
    [] x = "open CHUFANG"      -> On("CHUFANG")   [] x = "close CHUFANG" -> Off("CHUFANG")
    [] x = "open MENTING"      -> On("MENTING")   [] x = "close MENTING" -> Off("MENTING")
    [] x = "open ZHUWO"        -> On("ZHUWO")     [] x = "close ZHUWO"   -> Off("ZHUWO")
    [] x = "open CIWO"         -> On("CIWO")      [] x = "close CIWO"    -> Off("CIWO")
    [] x = "open GUODAO"       -> <<Ctrl("GUODAO", <<2, 2, 1>>)>>
    [] x = "close GUODAO"      -> <<Ctrl("GUODAO", <<2, 2, 0>>)>>
    [] x = "open toilet"       -> <<Ctrl("GUODAO", <<1, 2, 2>>)>>
    [] x = "close toilet"      -> <<Ctrl("GUODAO", <<0, 2, 2>>)>>
    [] x = "open POWER_CIWO"   -> <<Ctrl("POWER_CIWO", <<1>>)>>
    [] x = "close POWER_CIWO"  -> <<Ctrl("POWER_CIWO", <<0>>)>>
    [] x = "close bedroom"     -> Bedroom(<<0, 0, 1>>)
    [] x = "open bedroom"      -> Bedroom(<<1, 0, 0>>)
    [] x = "close sheer"       -> Sheer(0, 1)     [] x = "open sheer" -> Sheer(1, 0)
    [] x = "close cloth"       -> Cloth(0, 1)     [] x = "open cloth" -> Cloth(1, 0)

\* The same in zbclient2.c: the corridor is the second channel of its switch.
\* The commands in this file are not UTF-8, as what libxml2 hands out is: built
\* as it stands no command is recognised and none of them sends a frame.
TextScripts2(x) ==
  {<< >>,
   CASE x = "open GUODAO"  -> <<Ctrl("GUODAO", <<2, 1, 2>>)>>
     [] x = "close GUODAO" -> <<Ctrl("GUODAO", <<2, 0, 2>>)>>
     [] OTHER              -> TextScript(x)}

Init ==
  /\ gw \in {1, 2}
  /\ relay = [d \in Devices |-> [c \in Channels |-> 0]]
  /\ cmd = [t \in Threads |-> "none"] /\ script = [t \in Threads |-> << >>]
  /\ alone = [t \in Threads |-> 1] /\ spoilt = 0

-----------------------------------------------------------------------------
Start(t, name, frames) ==
  /\ cmd[t] = "none"
  /\ cmd' = [cmd EXCEPT ![t] = name] /\ script' = [script EXCEPT ![t] = frames]
  /\ alone' = [alone EXCEPT ![t] = 1]
  /\ UNCHANGED <<gw, relay, spoilt>>

Click ==
  \E e \in Clicks[gw] :
    Start("serial", e, IF gw = 1 THEN ClickScript(e) ELSE ClickScript2(e))

Text ==
  \E x \in Texts[gw] :
    \E frames \in IF gw = 1 THEN {TextScript(x)} ELSE TextScripts2(x) :
      Start("http", x, frames)

Post == \E f \in Json : Start("http", "control_down", <<f>>)

\* humand == 1 in main()
KitchenOff == Start("main", "kitchen off", Off("CHUFANG"))

\* What a device (external) makes of a frame: "1=on, 0=off 2=keep".
Applied(f, r) ==
  [c \in Channels |->
     IF c \notin DOMAIN f.msg THEN r[c]
     ELSE CASE f.msg[c] \in {0, 1} -> f.msg[c]
            [] f.msg[c] = 2        -> r[c]
            [] f.msg[c] = 3        -> 1 - r[c]]

\* send_usart() of the next frame of thread t, which reaches its device.
Send(t) ==
  /\ script[t] # << >>
  /\ relay' = [relay EXCEPT ![Head(script[t]).to] = Applied(Head(script[t]), @)]
  /\ script' = [script EXCEPT ![t] = Tail(@)]
  /\ alone' = [u \in Threads |-> IF u # t THEN 0 ELSE alone[u]]
  /\ UNCHANGED <<gw, cmd, spoilt>>

\* The radio (external) loses it.
Lose(t) ==
  /\ script[t] # << >>
  /\ script' = [script EXCEPT ![t] = Tail(@)] /\ spoilt' = 1
  /\ UNCHANGED <<gw, relay, cmd, alone>>

\* The thread goes back to waiting for frames, for requests, for the timer.
Return(t) ==
  /\ cmd[t] # "none" /\ script[t] = << >>
  /\ cmd' = [cmd EXCEPT ![t] = "none"] /\ alone' = [alone EXCEPT ![t] = 1]
  /\ UNCHANGED <<gw, relay, script, spoilt>>

\* The process dies and is started again: what was under way is forgotten,
\* the relays stay as they are.
Die ==
  /\ cmd' = [t \in Threads |-> "none"] /\ script' = [t \in Threads |-> << >>]
  /\ alone' = [t \in Threads |-> 1] /\ spoilt' = 1
  /\ UNCHANGED <<gw, relay>>

Run(t) == Send(t) \/ Return(t)

Next == Click \/ Text \/ Post \/ KitchenOff \/ Die \/ \E t \in Threads : Run(t) \/ Lose(t)

\* A thread that has a command goes on with it: usleep() and serialPutchar()
\* return.
Spec == Init /\ [][Next]_vars /\ \A t \in Threads : WF_vars(Run(t))

-----------------------------------------------------------------------------
(* Properties.                                                             *)

\* The relays that drive each curtain, one per direction.
Pairs == {p \in {<<"CL_ZHUWO", 1, 3>>, <<"CL_KETING1", 1, 2>>, <<"CL_KETING1", 3, 4>>} :
            p[1] \in Devices}

\* A curtain motor is never driven both ways, whichever threads pulse it and
\* whatever is lost, as long as no message in JSON names the curtain's own id:
\* those states are sent as they are.
Interlock ==
  \A p \in Pairs : relay[p[1]][p[2]] = 0 \/ relay[p[1]][p[3]] = 0

\* A double click that leaves the house, of the second bedroom's switch and in
\* zbclient2.c of either, puts out every light, unless another thread switched
\* something meanwhile.
HouseDark ==
  cmd["serial"] \in {"XMKG_CI twice"} \cup (IF gw = 2 THEN {"XMKG_ZHU twice"} ELSE {})
  /\ script["serial"] = << >> /\ alone["serial"] = 1 /\ spoilt = 0 =>
    \A d \in Lights \cap Devices : \A c \in 1 .. 3 : relay[d][c] = 0

\* The frame switches relay c of device d off.
Releases(f, d, c) == f.to = d /\ c \in DOMAIN f.msg /\ f.msg[c] = 0

\* A relay of a curtain is on only as long as the frame that releases it is the
\* next one of some thread, whichever threads pulse the curtain at the same time:
\* the frames of one pulse never use up the release of another.
ReleaseUnderWay ==
  spoilt = 0 =>
    \A p \in Pairs : \A c \in {p[2], p[3]} :
      relay[p[1]][c] = 1 =>
        \E t \in Threads : script[t] # << >> /\ Releases(Head(script[t]), p[1], c)

\* What the relays of a curtain make its motor do, and the threads whose next
\* frame releases both of them.
Drive(p) ==
  CASE relay[p[1]][p[2]] = 0 /\ relay[p[1]][p[3]] = 0 -> "stop"
    [] relay[p[1]][p[2]] = 1 /\ relay[p[1]][p[3]] = 0 -> "one"
    [] relay[p[1]][p[2]] = 0 /\ relay[p[1]][p[3]] = 1 -> "other"
    [] OTHER                                           -> "both"

Owing(p) ==
  {t \in Threads : /\ script[t] # << >>
                   /\ \A c \in {p[2], p[3]} : Releases(Head(script[t]), p[1], c)}

Motor == INSTANCE Curtain WITH Motors <- Pairs, Users <- Threads, fault <- spoilt,
           drive <- [p \in Pairs |-> Drive(p)], owed <- [p \in Pairs |-> Owing(p)]

\* The frames of the threads, in whatever order they reach the relays, are pulses
\* and releases of three-position motors: one frame changes one motor, every
\* pulse is owed its release until it is sent, and a release stops.
CurtainSpec == Motor!Spec

\* A relay of a curtain that is on goes off again, although both threads may
\* pulse it again and again.
MotorStops ==
  \A p \in Pairs :
    /\ relay[p[1]][p[2]] = 1 ~> relay[p[1]][p[2]] = 0 \/ spoilt = 1
    /\ relay[p[1]][p[3]] = 1 ~> relay[p[1]][p[3]] = 0 \/ spoilt = 1
=============================================================================
