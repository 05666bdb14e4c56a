--------------------------- MODULE BrowserGateway ---------------------------
(***************************************************************************)
(* zbserver-brower.c: the gateway that a browser configures.               *)
(*                                                                         *)
(* A browser gets the list of devices, changes an entry of it and posts    *)
(* the whole list back.  iterate_post() (HTTP thread) stores the binding   *)
(* of every device in the list and, where the posted state of a light      *)
(* differs from the table, the state, with a command to the light.  The    *)
(* serial thread stores what the lights report, registers devices and, on  *)
(* a press of a remote, switches the lights it is bound to over, by what   *)
(* the table says of them.  The threads share the table without a lock;    *)
(* both, and main(), publish lists with build_json().                      *)
(*                                                                         *)
(* A step is one access to an entry, as far as the threads can disturb     *)
(* each other by it; the strcpy() that publishes a list is two steps.  An  *)
(* entry under registration lies behind devsize and no other thread reads  *)
(* it, so that it is added in one step.  A post that is no JSON (a long    *)
(* one is cut by the post processor) changes nothing and has no action, as *)
(* the frames to devices that are no commands.                             *)
(***************************************************************************)
EXTENDS Integers, Sequences

CONSTANTS Lights, Switches,      \* ids of lights; of remotes and motion sensors
          CHANNELS,              \* channels of a light (3)
          DEV_SIZE,              \* entries of the table (200)
          SHORTCUT, TARGET,      \* 0x6eab and 0x5ee0, which thread() couples
          Values,                \* what a remote or a sensor sends
          MaxEvents, MaxPosts, MaxLost,    \* bounds: frames from devices that
                                 \* are no answers, posts, lost commands
          MaxUp,                 \* bound: frames that wait when one is added
          MaxMain                \* bound: events before main() has its list out

ASSUME GatewayAssumption ==
  /\ Lights \cup Switches \subseteq Nat \ {0}
  /\ CHANNELS \in Nat \ {0} /\ DEV_SIZE \in Nat \ {0}
  /\ Values \subseteq {0, 1}

VARIABLES
  device,      \* mxj_device[0 .. devsize-1]
  json_str,    \* the published list: the texts its two halves come from
  build,       \* build_json() of each thread
  s,           \* the serial thread in recieve_usart()
  h,           \* the HTTP thread in iterate_post()
  page,        \* external: the list in the browser
  up, down,    \* external: frames of the devices, commands on their way
  light,       \* external: the relays of the lights
  bound,       \* history: the binding last posted for each device
  spoken,      \* history: lights with a report in the table
  events, posts, lost,   \* history: counters
  torn,        \* history: 1 when the last strcpy() began inside another one
  stray        \* 1 once an entry was stored behind the table

air  == <<up, down, light>>
past == <<bound, spoken, events, posts, lost, torn>>
vars == <<device, json_str, build, s, h, page, air, past, stray>>

Channel == 1 .. CHANNELS
Threads == {"serial", "http", "main"}
Devices == Lights \cup Switches
Idle    == [pc |-> "idle"]
\* What json_str has after calloc().  A text is JSON or not; late is history: 1
\* when a device was added behind the end of the list, before the loop ended.
NoText  == [list |-> << >>, ok |-> 0, late |-> 0]
NoBuild == [pc |-> "none"]
\* build_json() begins with an empty str2.
Begin   == [pc |-> "loop", k |-> 1, list |-> << >>, shut |-> 0, bad |-> 0, late |-> 0]

\* main() builds the first list while the other threads run already.
Init ==
  /\ device = << >> /\ json_str = <<NoText, NoText>> /\ page = << >>
  /\ build = [t \in Threads |-> IF t = "main" THEN Begin ELSE NoBuild]
  /\ s = Idle /\ h = Idle /\ up = << >> /\ down = << >>
  /\ light \in [Lights -> [Channel -> {0, 1}]]
  /\ bound = [d \in Devices |-> <<0, {}>>] /\ spoken = {} /\ events = 0 /\ posts = 0 /\ lost = 0 /\ torn = 0
  /\ stray = 0

\* The index find_dev() returns, counted from 1, or 0.
find_dev(d) ==
  IF \E i \in 1 .. Len(device) : device[i].id = d
  THEN CHOOSE i \in 1 .. Len(device) : device[i].id = d /\ \A j \in 1 .. i-1 : device[j].id # d
  ELSE 0

\* MXJ_SendCtrlMessage(): 0 off, 1 on, 2 keep.  Only lights obey it; a command
\* to another id, such as the 0 of a remote that is not bound, is not followed.
Ctrl(d, c) == down' = IF d \in Lights THEN Append(down, [id |-> d, ctrl |-> c]) ELSE down

-----------------------------------------------------------------------------
(* build_json().                                                           *)

\* Mutant: the list is closed one entry early.
ShutEarly(k) == IF k < Len(device) - 1 THEN 0 ELSE 1

\* A comma or the end of the list behind entry k.
Shut(k) == IF k < Len(device) THEN 0 ELSE 1

\* One turn of the loop.
BuildEntry(t) ==
  LET b == build[t] IN
  /\ b.pc = "loop" /\ b.k \in 1 .. Len(device)
  /\ build' = [build EXCEPT ![t] = [b EXCEPT !.k = @ + 1, !.list = Append(@, device[b.k]),
                                    !.shut = Shut(b.k), !.bad = IF b.shut = 1 THEN 1 ELSE @]]
  /\ UNCHANGED <<device, json_str, s, h, page, air, past, stray>>

\* The test that ends the loop.
BuildEnd(t) ==
  LET b == build[t] IN
  /\ b.pc = "loop" /\ b.k > Len(device)
  /\ build' = [build EXCEPT ![t] = [pc |-> "copy", text |->
                 [list |-> b.list, ok |-> IF b.shut = 1 /\ b.bad = 0 THEN 1 ELSE 0, late |-> b.late]]]
  /\ UNCHANGED <<device, json_str, s, h, page, air, past, stray>>

\* strcpy(json_str,str2), its first half; another thread may be inside its own.
BuildCopy(t) ==
  /\ build[t].pc = "copy"
  /\ json_str' = <<build[t].text, json_str[2]>>
  /\ build' = [build EXCEPT ![t] = [pc |-> "half", text |-> build[t].text]]
  /\ torn' = (IF \E u \in Threads : build[u].pc = "half" THEN 1 ELSE 0)
  /\ UNCHANGED <<device, s, h, page, air, bound, spoken, events, posts, lost, stray>>

\* Its second half, and the thread goes on: the serial thread returns, the HTTP
\* thread has the answer to its post.
BuildRest(t) ==
  /\ build[t].pc = "half"
  /\ json_str' = <<json_str[1], build[t].text>>
  /\ build' = [build EXCEPT ![t] = NoBuild]
  /\ s' = (IF t = "serial" THEN Idle ELSE s)
  /\ h' = (IF t = "http" THEN [pc |-> "answer"] ELSE h)
  /\ UNCHANGED <<device, page, air, past, stray>>

-----------------------------------------------------------------------------
(* The HTTP thread.                                                        *)

\* A store to entry i disturbs the press of that remote, and of one bound to it.
Disturb(i) ==
  s' = IF s.pc \in {"read", "send"} /\ i \in {s.i, s.j} THEN [s EXCEPT !.calm = 0] ELSE s

\* Entry n where a text of list a goes over into one of list b: the devid, or
\* the devid and the lights, can still be those of a.
Joint(a, b, n) ==
  {a[n], b[n], [b[n] EXCEPT !.devid = a[n].devid],
   [b[n] EXCEPT !.devid = a[n].devid, !.light = a[n].light]}

\* The lists that such a text can be read as, when it is JSON at all.
Spliced(a, b) ==
  UNION {{[i \in 1 .. Len(b) |-> IF i < n THEN a[i] ELSE IF i = n THEN e ELSE b[i]]
            : e \in Joint(a, b, n)} : n \in 1 .. Len(a) \cap 1 .. Len(b)}

\* The lists json_str can be read as; a browser drops what is no JSON.
Readings ==
  LET a == json_str[1]
      b == json_str[2]
  IN  IF a = b THEN (IF a.ok = 1 THEN {a.list} ELSE {page})
      ELSE {page} \cup Spliced(a.list, b.list)

\* GET, and the answer to a post, is json_str.
Get ==
  /\ h.pc \in {"idle", "answer"}
  /\ page' \in Readings
  /\ h' = Idle
  /\ UNCHANGED <<device, json_str, build, s, air, past, stray>>

\* The list in the browser with entry i changed to e.
Edited(i, e) == h' = [pc |-> "entry", msg |-> [page EXCEPT ![i] = e]]

\* The browser posts its list with one entry changed: a channel of a light
\* switched over, or a remote or motion sensor bound to channels of a light.
Post ==
  /\ h.pc = "idle" /\ posts < MaxPosts
  /\ \E i \in 1 .. Len(page) :
       \/ \E c \in Channel :
            /\ page[i].id \in Lights /\ page[i].state[c] \in {0, 1}
            /\ Edited(i, [page[i] EXCEPT !.state[c] = 1 - @])
       \/ \E l \in Lights, cs \in SUBSET Channel :
            /\ page[i].type \in {3, 7}
            /\ Edited(i, [page[i] EXCEPT !.devid = l, !.light = cs])
  /\ posts' = posts + 1
  /\ UNCHANGED <<device, json_str, build, s, page, air, bound, spoken, events, lost, torn, stray>>

\* The next entry of the list: a device that is not in the table is passed
\* over; the devid of another is stored.  Behind the last one a list is built.
Entry ==
  /\ h.pc = "entry"
  /\ IF h.msg = << >>
     THEN /\ h' = [pc |-> "build"] /\ build' = [build EXCEPT !["http"] = Begin]
          /\ UNCHANGED <<device, s, bound>>
     ELSE LET e == Head(h.msg)
              i == find_dev(e.id)
          IN  IF i = 0
              THEN h' = [h EXCEPT !.msg = Tail(@)] /\ UNCHANGED <<device, build, s, bound>>
              ELSE /\ device' = [device EXCEPT ![i].devid = e.devid] /\ Disturb(i)
                   /\ bound' = [bound EXCEPT ![e.id] = <<e.devid, e.light>>]
                   /\ h' = [pc |-> "clear", msg |-> h.msg, i |-> i]
                   /\ UNCHANGED build
  /\ UNCHANGED <<json_str, page, air, spoken, events, posts, lost, torn, stray>>

\* Mutant: the lights are only cleared.
ClearLightsOnly ==
  /\ h.pc = "clear"
  /\ device' = [device EXCEPT ![h.i].light = {}] /\ Disturb(h.i)
  /\ h' = [pc |-> "lights", msg |-> h.msg, i |-> h.i, todo |-> {}]
  /\ UNCHANGED <<json_str, build, page, air, past, stray>>

\* light[0..2] = 0.
ClearLights ==
  /\ h.pc = "clear"
  /\ device' = [device EXCEPT ![h.i].light = {}] /\ Disturb(h.i)
  /\ h' = [pc |-> "lights", msg |-> h.msg, i |-> h.i, todo |-> Head(h.msg).light]
  /\ UNCHANGED <<json_str, build, page, air, past, stray>>

\* light[tempint] = 1 for the next light of the entry.
SetLight ==
  /\ h.pc = "lights"
  /\ IF h.todo = {}
     THEN /\ h' = [pc |-> "compare", msg |-> h.msg, i |-> h.i, c |-> 1]
          /\ UNCHANGED <<device, s>>
     ELSE \E c \in h.todo :
            /\ device' = [device EXCEPT ![h.i].light = @ \cup {c}] /\ Disturb(h.i)
            /\ h' = [h EXCEPT !.todo = @ \ {c}]
  /\ UNCHANGED <<json_str, build, page, air, past, stray>>

\* Behind channel h.c: the next channel, or the next entry.
NextChannel ==
  h' = IF h.c < CHANNELS THEN [h EXCEPT !.c = @ + 1, !.pc = "compare"]
       ELSE [pc |-> "entry", msg |-> Tail(h.msg)]

\* if(mxj_device[findedid].state[tempidx2] != tempint)
Compare ==
  /\ h.pc = "compare"
  /\ IF device[h.i].state[h.c] # Head(h.msg).state[h.c]
     THEN h' = [h EXCEPT !.pc = "store"] ELSE NextChannel
  /\ UNCHANGED <<device, json_str, build, s, page, air, past, stray>>

Store ==
  /\ h.pc = "store"
  /\ device' = [device EXCEPT ![h.i].state[h.c] = Head(h.msg).state[h.c]] /\ Disturb(h.i)
  /\ h' = [h EXCEPT !.pc = "command"]
  /\ UNCHANGED <<json_str, build, page, air, past, stray>>

\* The control frame for one channel.
ChannelOnly(c, v) == [x \in Channel |-> IF x = c THEN v ELSE 2]

Command ==
  /\ h.pc = "command"
  /\ Ctrl(device[h.i].id, ChannelOnly(h.c, Head(h.msg).state[h.c]))
  /\ NextChannel
  /\ UNCHANGED <<device, json_str, build, s, page, up, light, past, stray>>

-----------------------------------------------------------------------------
(* The serial thread.                                                      *)

\* rxbuf[6] of a frame; a frame that is shorter leaves it to an older one.
Byte6(f) == IF f.kind = "state" THEN f.state[CHANNELS] ELSE f.value

\* thread(): a frame of SHORTCUT, of any kind, is also a command to TARGET.
Couple(f) ==
  IF f.id = SHORTCUT
  THEN Ctrl(TARGET, [c \in Channel |-> IF c = 1 THEN Byte6(f) ELSE 1])
  ELSE UNCHANGED down

\* The HTTP thread has stored half of the binding of entry i, or a state of
\* entry j without the command for it.
Halfway(i, j) == (h.pc \in {"clear", "lights"} /\ h.i = i) \/ (h.pc = "command" /\ h.i = j)

\* MXJ_CTRL_UP: the device, and the one it is bound to, are looked up.
CtrlUp ==
  LET i == find_dev(Head(up).id) IN
  /\ s.pc = "idle" /\ up # << >> /\ Head(up).kind = "ctrl_up"
  /\ Couple(Head(up)) /\ up' = Tail(up)
  /\ IF i # 0 /\ device[i].type \in {3, 7}
     THEN LET j == find_dev(device[i].devid) IN
          s' = [pc |-> "read", i |-> i, j |-> j, value |-> Head(up).value,
                calm |-> IF Halfway(i, j) THEN 0 ELSE 1]
     ELSE UNCHANGED s
  /\ UNCHANGED <<device, json_str, build, h, page, light, past, stray>>

\* Mutant: the states of the remote instead of the bound light.
OverOwn(c) == IF device[s.i].state[c] = 1 THEN {0} ELSE {1}

\* A channel of the bound light switched over, by the table; the entry before
\* the first is read when the light is not in the table.
Over(c) == IF s.j = 0 THEN {0, 1} ELSE IF device[s.j].state[c] = 1 THEN {0} ELSE {1}

\* tempctrl[]: a remote (7) switches its lights over, a motion sensor (3) gives
\* them the value of the frame.
ReadLights ==
  /\ s.pc = "read"
  /\ \E t \in [Channel -> 0 .. 2] :
       /\ \A c \in Channel :
            t[c] \in (IF c \notin device[s.i].light THEN {2}
                      ELSE IF device[s.i].type = 7 THEN Over(c) ELSE {s.value})
       /\ s' = [pc |-> "send", i |-> s.i, j |-> s.j, calm |-> s.calm, ctrl |-> t]
  /\ UNCHANGED <<device, json_str, build, h, page, air, past, stray>>

\* The command goes to the devid the entry has now.
SendLights ==
  /\ s.pc = "send"
  /\ Ctrl(device[s.i].devid, s.ctrl)
  /\ s' = Idle
  /\ UNCHANGED <<device, json_str, build, h, page, up, light, past, stray>>

\* A device added behind the end of a list whose loop goes on.
Late(b) == IF b.pc = "loop" /\ b.k > Len(device) /\ b.k > 1 THEN [b EXCEPT !.late = 1] ELSE b

\* MXJ_REGISTER_REQUEST, and MXJ_XIAOMI18 with a known model: a device that is
\* not in the table is added, behind it when it is full.
Register ==
  LET f == Head(up) IN
  /\ s.pc = "idle" /\ up # << >> /\ f.kind = "register"
  /\ Couple(f) /\ up' = Tail(up)
  /\ IF find_dev(f.id) # 0
     THEN UNCHANGED <<device, build, s, stray>>
     ELSE /\ IF Len(device) < DEV_SIZE
             THEN /\ device' = Append(device, [id |-> f.id, type |-> f.type, devid |-> 0,
                                               light |-> {}, state |-> [c \in Channel |-> 0]])
                  /\ UNCHANGED stray
             ELSE stray' = 1 /\ UNCHANGED device
          /\ s' = [pc |-> "build"]
          /\ build' = [t \in Threads |-> IF t = "serial" THEN Begin ELSE Late(build[t])]
  /\ UNCHANGED <<json_str, h, page, light, past>>

\* Mutant: a report can switch a state on, not off.
ReportedOn(d, v) ==
  [device EXCEPT ![d].state = [c \in Channel |-> IF v[c] = 1 THEN 1 ELSE @[c]]]

\* mxj_device[i].state[] = rx[4..6]
Reported(d, v) == [device EXCEPT ![d].state = v]

\* MXJ_SEND_STATE.
SendState ==
  LET f == Head(up)
      i == find_dev(f.id)
  IN
  /\ s.pc = "idle" /\ up # << >> /\ f.kind = "state"
  /\ Couple(f) /\ up' = Tail(up)
  /\ IF i = 0 THEN UNCHANGED <<device, build, s, spoken>>
     ELSE /\ device' = Reported(i, f.state) /\ spoken' = spoken \cup {f.id}
          /\ s' = [pc |-> "build"] /\ build' = [build EXCEPT !["serial"] = Begin]
  /\ UNCHANGED <<json_str, h, page, light, bound, events, posts, lost, torn, stray>>

-----------------------------------------------------------------------------
(* The devices, external.                                                  *)

Report(l, v) == [kind |-> "state", id |-> l, state |-> v]

Tell(f) ==
  /\ events < MaxEvents /\ Len(up) < MaxUp
  /\ build["main"] = NoBuild \/ events < MaxMain
  /\ events' = events + 1 /\ up' = Append(up, f)

\* A device joins, is pressed or sees motion, or a light is switched by hand.
Event ==
  /\ \/ \E d \in Devices, v \in Values : \E ty \in (IF d \in Lights THEN {5} ELSE {3, 7}) :
          Tell([kind |-> "register", id |-> d, type |-> ty, value |-> v]) /\ UNCHANGED light
     \/ \E d \in Switches \cup {SHORTCUT}, v \in Values :
          Tell([kind |-> "ctrl_up", id |-> d, value |-> v]) /\ UNCHANGED light
     \/ \E l \in Lights, c \in Channel :
          /\ light' = [light EXCEPT ![l][c] = 1 - @]
          /\ Tell(Report(l, light'[l]))
  /\ UNCHANGED <<device, json_str, build, s, h, page, down, bound, spoken, posts, lost, torn, stray>>

\* A light carries a command out and reports.
Deliver ==
  /\ down # << >> /\ down' = Tail(down)
  /\ LET l == Head(down).id IN
       /\ light' = [light EXCEPT ![l] = [c \in Channel |->
                      IF Head(down).ctrl[c] = 2 THEN @[c] ELSE Head(down).ctrl[c]]]
       /\ up' = Append(up, Report(l, light'[l]))
  /\ UNCHANGED <<device, json_str, build, s, h, page, past, stray>>

\* A command is lost on its way.
Lose ==
  /\ down # << >> /\ lost < MaxLost
  /\ down' = Tail(down) /\ lost' = lost + 1
  /\ UNCHANGED <<device, json_str, build, s, h, page, up, light, bound, spoken, events, posts, torn, stray>>

Build(t) == BuildEntry(t) \/ BuildEnd(t) \/ BuildCopy(t) \/ BuildRest(t)

Serial == CtrlUp \/ ReadLights \/ SendLights \/ Register \/ SendState \/ Build("serial")
Http   == Entry \/ ClearLights \/ SetLight \/ Compare \/ Store \/ Command \/ Build("http")
Main   == Build("main")

\* The gateway is followed up to the first store behind the table.
Next == stray = 0 /\ (Get \/ Post \/ Serial \/ Http \/ Main \/ Event \/ Deliver \/ Lose)

Spec == Init /\ [][Next]_vars

-----------------------------------------------------------------------------
(* Properties.                                                             *)

\* Frames and commands about device d that are on their way.
Pending(d) ==
  \/ \E n \in 1 .. Len(up) : up[n].id = d
  \/ \E n \in 1 .. Len(down) : down[n].id = d

\* The table has the states of light l.
Current(l) == find_dev(l) # 0 /\ device[find_dev(l)].state = light[l]

\* Once the threads rest and no frame about a light is on its way, the table has
\* the states of the light, however posts, presses and reports crossed; before
\* its first report, or with a command lost, it need not.
TableCurrent ==
  \A l \in spoken :
    s.pc = "idle" /\ h.pc = "idle" /\ lost = 0 /\ ~Pending(l) => Current(l)

\* The command for a press is for the binding last posted for the remote or
\* sensor, its light and its channels, unless a post rewrites it meanwhile.
OneBinding ==
  [][s.pc = "send" /\ s'.pc = "idle" /\ s.calm = 1
       => \A n \in Len(down) + 1 .. Len(down') :
            bound[device[s.i].id] = <<down'[n].id, {c \in Channel : down'[n].ctrl[c] # 2}>>]_vars

\* A press of a remote switches the lights it is bound to over, when the last
\* change of the light has been reported and no post stores to either of them
\* meanwhile.
PressFlips ==
  [][s.pc = "send" /\ s'.pc = "idle" /\ s.calm = 1 /\ device[s.i].type = 7 /\ s.j # 0 /\ lost = 0
       => LET l == device[s.j].id IN
          l \in spoken /\ ~Pending(l) =>
            \A c \in device[s.i].light : down'[Len(down')].ctrl[c] = 1 - light[l][c]]_vars

\* Between two copies json_str is one list and JSON, unless the table was empty,
\* the last strcpy() began inside that of another thread, or this list was over
\* already when a device was added and its loop went on.
ListParses ==
  (\A t \in Threads : build[t].pc # "half") /\ torn = 0
    /\ json_str[1].list # << >> /\ json_str[1].late = 0
    => json_str[2] = json_str[1] /\ json_str[1].ok = 1
=============================================================================
