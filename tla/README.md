# A TLA+ verification of the idol home gateway

The repository holds a home-automation gateway for a Raspberry Pi. `zbclient.c`
is the program in use: it talks to a Zigbee coordinator over a serial line,
serves HTTP to browsers, to a cloud server and to a chat bridge, posts notices
through curl, and runs the house: wall switches, wireless switches, leak, door
and motion sensors, curtains and a plug. `httpserver.c` is the server in the
cloud that gateways post their events to, `zbserver-brower.c` an older gateway
that a browser configures, `fileserver.c` a process that serves the gateway's log,
`zbclient2.c` the gateway of a second house and `zbserver*.c` first prototypes. This
directory models them in TLA+, checks the models with TLC on small instances and
proves their safety with TLAPS.

## The system

`zbclient.c` is one process with three threads and no lock anywhere.

| thread | code | does |
|---|---|---|
| serial | `thread()`, `recieve_usart()` | reads bytes, parses frames, acts on them |
| HTTP | libmicrohttpd's one thread, calling `answer_to_connection()`, `request_completed()` | serves the device list, carries out commands in JSON and XML |
| main | `main()` | fills the device table, then once per second checks the leak sensors and counts the kitchen timer down |

| component | state | operations | used by |
|---|---|---|---|
| serial receive | `state`, `LEN_Token`, `tempDataLen`, `rxbuf` | one case of the switch per byte | serial |
| serial transmit | the line, `sp` | `send_usart()` and the five `MXJ_...Message()` builders | all three |
| kitchen timer | `humand` | set on motion, cleared at the wall switch, counted down | serial, main |
| supervision, notices | `heart` of each device, `posturl` | count, check and reset; set text, post | serial, main |
| device table, list | `mxj_device[]`, `devsize`, `json_str` | fill, look up, store a report, register, `build_json()` | serial, main, (list: HTTP) |
| HTTP | `post_type`, `strxml`, `con_info`, responses | headers, body pieces, last call, completion | HTTP |
| scenes, curtains | the relays of the devices | scripts of control frames | all three |

The threads meet in globals only. What is hard about the code, and hard to test:
accesses to `humand`, `heart`, `devsize`, `posturl`, `sp`, `json_str` that
interleave; frames on a line that loses bytes or falls silent, parsed with
eight-bit arithmetic into a buffer shorter than the largest length byte; HTTP
requests whose handler calls interleave over shared globals; curtain pulses
made of two frames that may be overtaken, lost or cut off by the death of the
process; a start-up in which the table is filled after the threads that use it
have been started. `PROJECT.json` lists each hazard with its line and the
properties that cover it.

The other programs have their own state and operations:

| program | threads | state | operations |
|---|---|---|---|
| `httpserver.c` | libmicrohttpd's one thread | the slots `re_post[]` with `idx`, `old_idx`; the page `str22`; the table | headers, a field of a body, last call, completion |
| `zbserver-brower.c` | serial, HTTP, main | the table with bindings and states, `json_str` | register, report, press; post of a whole list; `build_json()` in all three |
| `fileserver.c` | one per connection | the open file, `buf.st_size` and position of each answer | first call, second call, `file_reader()`, `free_callback()` |
| `zbserver.c`, `-json`, `-weixin` | serial, HTTP | `rx_step`, `i`, `rebuf` | one case of the switch per byte, `send_usart()` |
| `zbclient2.c` | as `zbclient.c` | as `zbclient.c` | as `zbclient.c`, with other scenes, a light at the door, another corridor channel |

In the server, requests that arrive together share a slot, and an answer is in a
buffer that the next call clears. In the browser's gateway a post rewrites
bindings and states while presses read them, and the table, by which a press is
carried out, lags behind the lights.

`zbclient2.c` is `zbclient.c` line for line but for device ids, scenes and commands;
only those differ and only those are modelled. Its commands in Chinese are in
GBK while libxml2 hands out UTF-8: built as it stands it recognises none of
them, built with a conversion it does; the model has both.

## Modules

| module | models | kind |
|---|---|---|
| `UartFrame` | the frame format and its checksum | definitions |
| `UartFraming` | what the receive side promises | abstract specification |
| `UartRx` | `thread()` | component; implements `UartFraming` |
| `ProtoRx` | frame and parser of the prototypes | component |
| `UartLink` | the coordinator, the line, and `UartRx` or `ProtoRx` | composition |
| `UartTx` | `send_usart()` in three threads | component |
| `FileServer` | `fileserver.c` | component |
| `LogServer` | the log between `UartTx` and `FileServer` | composition |
| `KitchenTimer` | `humand` | component |
| `Heartbeat` | `heart`, `posturl` | component |
| `DeviceTable` | `mxj_device[]`, `devsize`, `json_str` | component |
| `BuildJson` | ownership of the JSON objects in `build_json()` | component |
| `HttpConn` | the HTTP handler, `strcpy` of `build_json()` | component |
| `Curtain` | what the gateways promise to the curtain motors | abstract specification |
| `Control` | scripts of control frames of both gateways, and the relays | component; implements `Curtain` |
| `HttpServer` | `httpserver.c` | component |
| `BrowserGateway` | `zbserver-brower.c` without its parser, which is that of `UartRx` | component |
| `UartLinkProofs` | theorems on `UartRx`, `ProtoRx` and `UartLink` | proofs |
| `LogServerProofs` | theorems on `UartTx` and `LogServer` | proofs |
| `MainLoopProofs` | theorems on `Heartbeat` and `KitchenTimer` | proofs |
| `ControlProofs`, `DeviceTableProofs`, `HttpConnProofs`, `HttpServerProofs`, `BrowserGatewayProofs` | theorems on the module of that name | proofs |
| `MC...` | bounds and small sets for TLC | model-checking |

Definitions keep the names of the code. History variables (marked `history` in
the declarations) record what a property has to talk about and influence no
action; no guard except a named bound reads one. Operators marked *Mutant* are
plausible bugs, used to show that each property notices one; no specification
uses them.

**UartRx.** One action per case of the switch on `state`; the byte is the
parameter. `frame` is the run of bytes since the 0x55 that was taken, `out` the
frames given to `recieve_usart()`. A store past `rxbuf` sets `stray` and
may hit any of the parser's own globals (`StrayStore`): that behaviour is
undefined and the compiler decides where the globals lie. For the largest
length byte the checksum loop never ends, so no action is enabled.

**UartLink.** `Transmit` (the coordinator, external), `Receive`, `Timeout`
(`serialGetchar()` gives -1, which a `uint8_t` makes 0xff), `LoseByte`,
`NoiseByte`.

The same line may lead to a prototype (`prog`), whose parser is `ProtoRx`: three
states, seven bytes kept, the tenth byte ends the frame whether it is accepted
or not, and after AA any number of other bytes may come before C0.

**UartTx.** `Fopen`, `Fclose` on the shared `sp`, `Put` per byte. Closing a file
twice kills the process or goes unnoticed. Files that are left open add up.

**FileServer, LogServer.** A request is `FirstCall`, `Stat`, `Fopen`, `Read` per block, `Finish`
or `Hangup`; `Refused` is a response the library does not take. The two processes
share nothing but the log; a line gets there with the `fclose()` of its file.

**KitchenTimer, Heartbeat.** One access to the shared variable per step; `x++`
and `x--` are a load and a store. A notice that is being posted holds its thread
until `curl_easy_perform()` returns. `lastCmd` is who commanded the kitchen switch last:
besides the motion handler and the timer these are the scene for leaving
(`LeaveScene`), the leak alarm (`LeakAlarm`) and messages (`KitchenMessage`, the HTTP
thread), none of which touches `humand`.

**DeviceTable.** `main()` adds entry after entry (id, fields, load and store of
`devsize`) while the serial thread stores reports (`Report`, `ControlUp`,
`Toggle`) and registers sensors. `build_json()` is three steps: the table is
read, and the text is copied in two halves, between which the other thread may copy
its own. A device without a name kills the process in
`build_json()`. `ListText` is the length json-c's printed form gives to a list, with
two digits for every type, since in a race an entry may have another device's;
the devices of the house that are not followed count with their longest text
(`REST`). `SENSOR` is the longest text of a device that can register itself.

**HttpConn.** A request is `FirstCall`, one `Body...` action per piece, `SendPage`,
`WriteSocket` (external) twice, `Completed`. The body of a request is what the
library has in its read buffer, so each piece is parsed alone. A text is
represented by its two halves, each named by its writer. `StrcpyStart` and
`StrcpyEnd` are the copy of `build_json()`, by the serial thread at any time and by
`main()` once, after the other threads have been started; `torn` records that the
last copy began within another.

**Control.** A command is a script of frames, in the order of the code; the three
threads send their scripts at the same time; a frame is applied by its device
(external), or lost; the process may die at any point. Channel values: 0 off,
1 on, 2 keep, 3 switch over. `gw` is the program; `ClickScript2` and `TextScripts2` are
those of `zbclient2.c`. A message in JSON may carry the id of any device with any
states; `ControlAssumption` restricts it to rooms, since a client that names a
curtain drives it as it likes. `Curtain` is the promise behind the pulses: a motor
has three positions, who pulses it owes it a release and pulses no other motor
before that, any release stops it, and only a fault takes a release away. Its
motors are the pairs of relays, its users the threads; a thread owes a release
when its next frame switches both relays off.

**HttpServer.** A request is `FirstCall`, one `Field` per field of its body, `Last`,
`WriteSocket` (external), `Completed`; `Get` for GET. `Field` clears the slot before
the one in use when it is the first after an advance of `idx`. A value cut by a
piece of the body is, to the slot, another value.

**BrowserGateway.** `iterate_post()` is `Entry`, `ClearLights`, `SetLight`, `Compare`, `Store`,
`Command` for each device of the posted list; a press is `CtrlUp`, `ReadLights`,
`SendLights`; `build_json()` is `BuildEntry` per device, `BuildEnd`, where the loop asks `devsize` for the
last time, and the two halves of the copy, `BuildCopy` and `BuildRest`, in each of three
threads. A page read while its two halves differ is any list the mixture can be
read as, or is dropped (`Readings`). `Couple` is the command that `thread()` itself sends
for any frame of `SHORTCUT`. When the light of a
remote is not in the table the code reads `mxj_device[-1]`: any value. The
lights (`light`, `Deliver`, `Event`) and the browser (`page`) are external. The frames that
are no commands change nothing here and are left out.

## Runs

| run | shows | distinct states |
|---|---|---|
| `uart_rx` | on a line that carries any bytes, what is handed over is a well-formed run of the line (`FramingSpec`, a refinement); the parser's position and buffer agree with the line (`InFrame`); the sum is only made over a complete frame (`DataComplete`) | 5.5 million |
| `uart_link` | an undamaged frame that meets the parser at rest arrives once and unchanged whatever came before (`CleanFrameArrives`); a frame cut short is given up (`SaneFrameEnds`); without a fault of the line the buffer is never left (`OverrunNeedsFault`); the prototype takes an undamaged frame even while it waits for the rest of an earlier start (`ProtoFrameArrives`) and is never lost in one (`ProtoFrameEnds`) | 343 000 |
| `uart_tx` | a frame no other thread cut is on the line as a whole (`FrameWhole`); the log file is balanced unless two threads logged at once (`LogBalanced`); who asks for the log gets a line for every frame sent by then, also while another request has the log open (`PageHasFrames`) | 1.5 million |
| `kitchen_timer` | the timer is exact unless a store was lost (`TimerExact`); its "off" is its end: a timer that runs on after it takes an "off" sent while a motion report was handled (`OffEndsTimer`); the light goes off (`AutoOff`) | 14 000 |
| `heartbeat` | the heart counts frames up to whole turns of the `uint8_t` (`HeartExact`); offline means silent, or wrapped (`OfflineIsSilent`); each thread posts its own text when it has `posturl` to itself (`OwnNotice`); the walk comes round (`CheckRepeats`) | 231 000 |
| `device_table` | after the start the table is the house (`HouseComplete`), with the states last reported (`StateAsReported`), and the published list is the table except for the plug unless two lists were made or copied at once (`ListCurrent`); every list fits its two buffers (`ListFits`) | 5.4 million |
| `http_conn` | a client gets its own answer unless another request came between (`OwnAnswer`); a command is carried out exactly once, a split one never (`ExecutedOnce`); a client gets one list, unless `json_str` was written to meanwhile or the last two copies had met in it (`WholeList`); a complete request is served (`Served`) | 692 000 |
| `control` | in both houses: no curtain motor is ever driven both ways (`Interlock`); the frames of the threads are pulses and releases of three-position motors (`CurtainSpec`, a refinement); a relay of a curtain that is on has its release as the next frame of some thread (`ReleaseUnderWay`) and goes off (`MotorStops`), unless a frame is lost or the process dies; leaving the house puts out every light unless another thread interferes (`HouseDark`) | 114 000 |
| `server` | a message is answered by its own fields unless another one's are in its slot (`OwnCommand`); slots come round empty, with the exception of the last (`SlotsComeRoundClean`); a device told `register_ok` has one entry until the table is full (`RegisteredOnce`); a client is sent its answer unless the handler was called meanwhile (`OwnPage`) | 4.2 million |
| `browser` | at rest the table has the states of the lights (`TableCurrent`); a press goes to the light and channels last posted (`OneBinding`) and switches them over (`PressFlips`); between two copies the list is one list and parses, unless the last two copies overlapped or a device joined behind its end before its loop was over (`ListParses`) | 5.7 million |

Two runs are expected to fail; each checks what a header of a library says and
the code does not do.

| run | says | does |
|---|---|---|
| `persistent` | `microhttpd.h:2065`: a persistent buffer "won't change for at least the lifetime of the response" | `json_str` and `strxml` are rewritten under a response |
| `build_json` | `json_object.h:166`: "You must have ownership of obj" before putting it | `state` is put after `dev` has taken it |

Many properties carry an exception, as `traced = 0` in `TimerExact`. The code has no
locks, and the exception is the interleaving that breaks the property; without
it TLC shows the race. Such a property does not say that the race is harmless or
cannot happen: it says that nothing else breaks what it states, and names what
does.

`ListFits` deserves a remark. The house has nineteen devices, and the longest text of
its list has 1893 bytes of the 2000 that `str2` and `json_str` hold, 1911 if races may
mix up ids, types and names (`HouseAssumption` in `MCDeviceTable` has all nineteen);
a registered sensor would add at least 70. It fits only because a registered sensor has no
name and `build_json()` dies of it before it prints: the mutant that tolerates the
missing name overruns the buffers with the second sensor.

### Bounds

* `uart_rx`: bytes modulo 8, a buffer of 5, six byte values on the line (the two
  sync bytes and the timeout byte among them), 12 bytes: enough for a frame, a
  broken frame and one more, and for the wrap of the count. Length bytes are 0 and 1,
  which no count meets, 2 and 3, which fit, 4, the first that leads out of the buffer,
  and 7, the largest byte, for which the sum never ends; 5 and 6, which lead out
  further than 4, do not occur.
* `uart_link`: bytes modulo 12, buffer of 7, two messages, three frames, two
  faults: a fault in one frame, another while the parser recovers, and a clean
  frame afterwards. The messages of the prototype hold each of the bytes that
  frame them.
* `uart_tx`: three threads, three bytes, two files of the gateway (one less than
  threads), three lines or frames: before, between and during two requests, or
  three that collide. Two connections, one file: the second request may find that
  the file server can open no other. Threads are interchangeable, and so are
  connections, hence the symmetry.
* `kitchen_timer`: `HOLD` 4, several ticks between motion and the end. The run is
  complete: `quiet` stays bounded because a timer that runs ends.
* `heartbeat`: two devices, a heart of four values and five beats: one wrap and one
  more.
* `device_table`: three devices of the house (a switch of three channels, the plug,
  a sensor) and two new ones; four frames: a report during the start, a
  registration, and two more. The lengths are those of the code.
* `http_conn`: two connections and two requests that cross, or follow each other, with
  one list at any point; or one request and up to four lists: two copies that
  overlap, one that repairs the list, and one more.
* `control`: in each house pulses of two threads in opposite directions on the same
  curtain, and the scene of seven frames against commands on the same rooms;
  not bounded, the state is finite.
* `server`: two connections (interchangeable, hence the symmetry), three requests,
  slots 0 to 2 and a table of two for three devices: two bodies that cross, one
  that is broken off, a message that lacks a field, a full table, and a last
  slot after which `idx` starts again.
* `browser`: one light, one remote or sensor, one channel, four frames of devices,
  one post, one lost command: both join, the remote is bound, the light reports,
  the remote is pressed. Two of the frames may arrive before `main()` has its list
  out, the others when it has. The table is not filled in this run.

`CHECK_DEADLOCK FALSE` is used where a bound ends the run, or where the process
may die or the receive thread hang.

### Fairness

* The receive thread: `serialGetchar()` returns, with a byte or after ten seconds.
* `KitchenTimer`, `Heartbeat`: the main thread runs, except in
  `curl_easy_perform()`: `posturl` has no timeout, so nothing is assumed of it
  and the liveness properties exclude a notice that never gets an answer. The
  serial thread runs inside its handler; frames need not come.
* `HttpConn`: the library serves a request that is complete, and writes its page
  (shorter than a socket's send buffer). No client owes a request or the rest of
  a body.
* `Control`: a thread goes on with the script it has begun. Frames may be lost.
* `UartTx`, `FileServer`, `DeviceTable`, `HttpServer`, `BrowserGateway`: none; only safety is
  checked.

## Proofs

`tlapm` checks every proof to the last leaf. Every safety property of the passing
runs is a theorem for every value of the constants. The
assumptions are those on the constants, named in the modules and evaluated by
TLC in the runs:

| assumption | says | because |
|---|---|---|
| `UartAssumption` | the buffer holds a frame and is shorter than the byte range | `rxbuf[200]`, `uint8_t` |
| `LinkAssumption` | what the coordinator sends has a length byte in the sane range and that many data bytes; 0xff is not the first sync byte | the frames of the protocol |
| `HoldAssumption` | `HOLD > 1` | 120 |
| `HeartbeatAssumption` | leak sensors are in the table, a heart has two values or more | `uint8_t` |
| `TxAssumption` | a frame has a byte, a file can be open, the threads are finitely many | |
| `ControlAssumption` | events and commands are those of the code, messages in JSON name rooms | see **Control** above |
| `TableAssumption` | the table has room for one more than the house; the devices of the house differ and have names | `DEV_SIZE`, the table in `main()` |
| `TextAssumption` | what can register prints no longer than `SENSOR`; the longest entries of the house fit `str2` | the nineteen devices, evaluated in `HouseAssumption` |
| `DeviceAssumption` | the plug is a device of the house, a device has one to three channels | the table in `main()` |
| `MessageAssumption` | a body has its fields in order and a `type` among them | the gateways write it into each message |
| `GatewayAssumption` | ids are not 0, remotes and sensors send 0 or 1 | the constants in `zbserver-brower.c` |

Each property is shown by induction. It is seldom inductive itself; what its
invariant adds is the argument.

**UartLinkProofs.** For every byte width, buffer size and sync bytes, on any line:
type correctness, `InFrame`, `DataComplete`, and `Refinement`: `Spec => FramingSpec`.
The inductive invariant is their conjunction. `InFrame` alone is not inductive:
that the data loop stops exactly at the length byte, within the buffer, needs
`DataComplete`, and that in turn needs the parser's count to be the length of
the history. A step of the parser maps to `Take` (a byte kept or given
up), to `Deliver` (the last case with a correct sum), to `Break` (the first
store outside `rxbuf`, which needs a length byte that leaves no room or announces
no data), or to a stutter.
`FrameShrinks` is the measure behind `SaneFrameEnds`: in a frame with a possible length
byte each byte, whichever it is, leaves one byte less to come, and the frame
ends when none is left.
`LinkIsUartRx` carries this over to the parser behind coordinator and line. For
every set of messages and number of faults: `OverrunNeedsFault` and
`CleanFrameArrives`. Their invariant says that of an undamaged frame, what the parser
has read and what is still on the line together are the bytes that were sent
(`Sync`), and that as long as the line has damaged nothing every frame begins at an
idle parser (`Orderly`). `ProtoFrameArrives` needs the same of the prototype: the bytes
on the line are the last of the message, the parser is that far into it, and it
has stored those between (`Filled`).

**MainLoopProofs.** For every table, set of leak sensors and width of the heart:
`TypeOK`, `HeartExact`, `OwnNotice`, `OfflineIsSilent`. The invariant adds that the register
of a `heart++` under way equals the heart unless a reset fell in between
(`Loaded`), that a thread about to post finds its own text unless `shared` (`OwnText`),
and that hearts wrap by whole turns (`Turns`). For every `HOLD` that
`HoldAssumption` allows: `TimerTypeOK`, `TimerExact`, `OffEndsTimer`. The invariant adds what the main thread
knows between load and store (`Decrement`), and what each place that is about to set
or keep a running timer knows of the last command (`Commands`): it is not one of
those after which the timer has ended (`Lightable`). `LitTimed` is the safety
part of `AutoOff`: a light the timer switched on has a timer about to be set, running,
or in its last second with the "off" still to be sent; it is never 0, where
nobody would look at it again.

**LogServerProofs.** For every number of threads, length of a frame and limit on
files: `LogBalanced`, with the invariant that the one open file is `sp`'s as long as no
two threads logged at once; `FrameWhole`, with the invariant that what a thread has
put of its frame is the end of the line (`OwnBytes`). For every number of threads,
connections and frames: `PageHasFrames`. The invariant counts: frames sent and frames
being sent are no more than the lines of the log (`Lines`), which needs
`LogBalanced`'s invariant, since a frame could otherwise leave without a line; and the
size `stat()` gave is no less than what had been sent when the request came
(`Answers`). `LogServerIsUartTx` carries the theorems of `UartTx` over to the composition.

**ControlProofs.** For every set of events, commands and devices, in both programs:
`Interlock` and `HouseDark`. The state of the relays alone is not inductive, since the next
frame may be anything; the invariant adds that every frame under way is to a
room, or one of the nine the code sends to curtains (`Scripts`), and each of those
keeps a curtain driven one way (`AppliedOneWay`). That this covers every scene and
command is `ClickFrames`, `TextFrames` and their counterparts for `zbclient2.c`. 
`CurtainRefinement` (`Spec => CurtainSpec`) and `ReleaseUnderWay` need more: that a script is
frames to rooms, a whole pulse or the second frame of one (`Shapes`), and that a
thread without a command has none. A frame to a curtain then drives one motor
or frees it and spares the others (`ScriptKinds`); sent, it is a `Pulse` or a
`Release` of `Curtain`, lost a `Fault`, and everything else stutters but the death of
the process (`Forget`). For
`HouseDark` the invariant says, while the scene is alone on the air, that every light is off or has its
"off" among the frames still to come (`Leave`).

**DeviceTableProofs.** For every house, set of sensors and number of channels:
`TypeOK`, `HouseComplete`, `StateAsReported`, `ListCurrent`. `House` follows `main()`
through the table: the entries it has filled are those of the house, in order, and
those behind have no name, so that a registration fills the next one. `Reported`
says that every entry is another device's and as that device reported, and that a
device without an entry has reported nothing. `Read` says that a list being copied
is current unless the other thread changed the table or copied since, and that its
first half is the one in `json_str`: that is what makes a late copy an old list, and
two copies that meet a mixture.
`ListFits` is an argument about a budget. Entries may be overwritten and names and
ids of different devices meet in one entry, so no list need be the house's. But
every name, and every id longer than a sensor's, was put there by `main()`: what the
whole table weighs is never more than what `main()` has put in so far (`Budget`),
that is never more than the house, and a list weighs no more than the table
because an entry without a name is never listed. Sums are by the recursive
function `Total`; what is needed of them (a store adds what it adds to its place, a part
is less than the whole) is proved by induction over the turns of the loop,
which `LoopInduction` takes from the least counterexample.

**HttpConnProofs.** For every number of connections, requests and lists: `TypeOK`,
`ExecutedOnce`, `OwnAnswer`, `WholeList`. The invariants follow a request through its calls: how
often it was carried out at each place (`Executed`), that `post_type` and `strxml` are its
own from the call that set them until it is answered unless `crossed` (`Answer`),
and that outside `strcpy()` the list is one list, and inside it begins as the text
that one thread copies, unless the last copy began within another (`Lists`).

**HttpServerProofs.** For every number of connections, slots, entries and set of
messages: `TypeOK`, `OwnPage`, `SlotsComeRoundClean`, `RegisteredOnce`, `OwnCommand`. `Page` says `str22` is the answer of the
request that is being sent; `Behind` that the slot behind the one of the last field is
clean, and that of the last field is not one nobody wrote to; `Unique` and `Told`
that no id is twice in the table and who was told `register_ok` is in it.
`OwnCommand` takes most: that a slot into which only one request has written holds
exactly the fields of its message that have come, over blanks, and one into which
none has is clean (`Contents`); that what is still to come is the rest of the
message (`Rest`); and that each request has a number of its own, which a slot knows
from its first field (`Numbers`).

**BrowserGatewayProofs.** For every set of lights and remotes, number of channels,
size of the table and number of posts, frames and losses: `ListParses`, `TableCurrent`,
`OneBinding`, `PressFlips`. Under all of them lies `TInv`: no device is twice in the table, and the
entry each thread has looked up is still the one it means (entries never move).
`ListParses`: the list under construction has one entry per turn and is closed exactly by
the last, until a device is added behind that (`Formed`), and a copy that begins in no
other is alone in `json_str` until it ends (`Single`). `TableCurrent`: the last report of a light on its way is true (`Truth`), and
a light about which nothing is on its way, no report, no command, and no
state stored by a post whose command has not left, is in the table as it is
(`Fresh`). `OneBinding`: every entry has the binding last posted for its device, but for
the one that is being rewritten, of which the invariant knows what is missing
(`Bind`). `PressFlips`: a press that no store disturbed holds what the table still
says (`Press`); with `Fresh` that is the state of the light.

Only model-checked:

* the liveness properties `AutoOff`, `CheckRepeats`, `MotorStops`, `Served`, `SaneFrameEnds`, `ProtoFrameEnds`:
  the prover does not reason about fairness. What they rest on is proved of three:
  `ReleaseUnderWay` for `MotorStops`, `LitTimed` for `AutoOff`, `FrameShrinks` for `SaneFrameEnds`;
* the two runs that are expected to fail, and with them `BuildJson`.

## Not modelled

Texts and their lengths (names, time stamps, log lines), except the length of
the device list; the reading of JSON and XML (a message is of a kind, a command
is one of those the code knows); temperature and humidity reports, which are
only printed; `permitjoin`, written and never read; `del_dev()`, the
`iterate_post()` of `zbclient.c` and other functions nobody calls; the firmware of
coordinator and devices beyond what the code expects of it; a process that
cannot start; the HTTP handlers of the prototypes, which switch one fixed
device.

`zigbee/*.c` are earlier states of the files above. `join.c`, `reset.c`, `logging.c`,
`httpservertest.c`, `test1.c` and `weixin.py` keep no state.

Of the 342 000 lines of C in the repository 334 000 are copies of libxml2,
libmicrohttpd, curl and other libraries with their tests. They are not this
system's own logic and are left to their own projects; what the gateway relies
on is modelled where it is used and marked external.

## Plan

1. Liveness of `BrowserGateway` (the table settles after a command).
2. An abstract specification of the browser's gateway that `TableCurrent` is a
   theorem of.
