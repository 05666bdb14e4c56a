----------------------------- MODULE Heartbeat -----------------------------
(***************************************************************************)
(* Supervision of the water-leak sensors in zbclient.c.                    *)
(*                                                                         *)
(* find_dev() counts every frame of a known device in its uint8_t heart    *)
(* (serial thread).  Every 7500 turns of its loop the main thread walks    *)
(* the table: a leak sensor whose heart is 0 is reported offline, any      *)
(* other heart is set to 0.  Both threads post their notices through the   *)
(* one curl handle posturl: curl_easy_setopt() stores the text,            *)
(* curl_easy_perform() posts what is stored.                               *)
(*                                                                         *)
(* No lock protects heart or posturl; a step is one access to either.      *)
(***************************************************************************)
EXTENDS Integers

CONSTANTS DEVSIZE,   \* number of devices in the table
          Leak,      \* the table indices of the leak sensors
          HEARTS     \* number of values of a uint8_t

ASSUME HeartbeatAssumption ==
  /\ DEVSIZE \in Nat /\ HEARTS \in Nat /\ HEARTS > 1
  /\ Leak \subseteq 0 .. DEVSIZE-1

VARIABLES
  heart,    \* mxj_device[i].heart
  spc,      \* serial thread: "idle", "inc" (in find_dev), "notice", "post"
  sdev,     \* the device whose frame the serial thread handles
  sreg,     \* the heart it has loaded
  mpc,      \* main thread: "loop", "test", "clear", "post"
  i,        \* its index into the table
  fields,   \* CURLOPT_POSTFIELDS of posturl: a text, named by who set it
  beats,    \* history: frames counted since the heart was last set to 0
  laps,     \* history: HEARTS times the number of wraps of the heart since then
  raced,    \* history: 1 when the heart was set to 0 between the load and the
            \* store of heart++
  posted,   \* history: the last post: thread, text, was posturl shared
  shared    \* history: 1 when both threads use posturl at the same time

vars == <<heart, spc, sdev, sreg, mpc, i, fields, beats, laps, raced, posted, shared>>

Dev == 0 .. DEVSIZE-1

\* The texts that occur: "main" and "serial" stand for whatever the thread wrote.
Thread == {"main", "serial"}

Init ==
  /\ heart = [d \in Dev |-> 0]
  /\ spc = "idle" /\ sdev = 0 /\ sreg = 0
  /\ mpc = "loop" /\ i = 0
  /\ fields = "main"   \* the notice of the start of the system
  /\ beats = [d \in Dev |-> 0] /\ laps = [d \in Dev |-> 0]
  /\ raced = [d \in Dev |-> 0]
  /\ posted = <<"main", "main", 0>> /\ shared = 0

-----------------------------------------------------------------------------
(* Serial thread.                                                          *)

\* A frame of device d: find_dev() finds it and loads its heart.
Frame(d) ==
  /\ spc = "idle"
  /\ spc' = "inc" /\ sdev' = d /\ sreg' = heart[d]
  /\ UNCHANGED <<heart, mpc, i, fields, beats, laps, raced, posted, shared>>

\* Mutant: the heart of another device is counted.
CountWrongDevice ==
  /\ spc = "inc"
  /\ heart' = [heart EXCEPT ![0] = (sreg + 1) % HEARTS]
  /\ beats' = [beats EXCEPT ![sdev] = @ + 1]
  /\ laps'  = [laps  EXCEPT ![sdev] = IF sreg = HEARTS - 1 THEN @ + HEARTS ELSE @]
  /\ spc' \in {"idle", "notice"}
  /\ UNCHANGED <<sdev, sreg, mpc, i, fields, raced, posted, shared>>

\* mxj_device[i].heart++, second half.  The frame of a door or a leak event goes
\* on to its notice, any other one is done with.
Count ==
  /\ spc = "inc"
  /\ heart' = [heart EXCEPT ![sdev] = (sreg + 1) % HEARTS]
  /\ beats' = [beats EXCEPT ![sdev] = @ + 1]
  /\ laps'  = [laps  EXCEPT ![sdev] = IF sreg = HEARTS - 1 THEN @ + HEARTS ELSE @]
  /\ spc' \in {"idle", "notice"}
  /\ UNCHANGED <<sdev, sreg, mpc, i, fields, raced, posted, shared>>

\* Mutant: an event without a text of its own posts what is stored.
AlarmNoText ==
  /\ spc = "notice"
  /\ spc' = "post"
  /\ shared' = IF mpc = "post" THEN 1 ELSE 0
  /\ UNCHANGED <<heart, sdev, sreg, mpc, i, fields, beats, laps, raced, posted>>

\* curl_easy_setopt(posturl, CURLOPT_POSTFIELDS, str) for the event.
Alarm ==
  /\ spc = "notice"
  /\ spc' = "post" /\ fields' = "serial"
  /\ shared' = IF mpc = "post" THEN 1 ELSE 0
  /\ UNCHANGED <<heart, sdev, sreg, mpc, i, beats, laps, raced, posted>>

\* curl_easy_perform(posturl) of the serial thread.
PostAlarm ==
  /\ spc = "post"
  /\ spc' = "idle" /\ posted' = <<"serial", fields, shared>>
  /\ UNCHANGED <<heart, sdev, sreg, mpc, i, fields, beats, laps, raced, shared>>

Serial == (\E d \in Dev : Frame(d)) \/ Count \/ Alarm \/ PostAlarm

-----------------------------------------------------------------------------
(* Main thread.                                                            *)

\* flag_hour reaches 7500.
StartCheck ==
  /\ mpc = "loop"
  /\ mpc' = "test" /\ i' = 0
  /\ UNCHANGED <<heart, spc, sdev, sreg, fields, beats, laps, raced, posted, shared>>

\* The end of the walk over the table.
EndCheck ==
  /\ mpc = "test" /\ i = DEVSIZE
  /\ mpc' = "loop"
  /\ UNCHANGED <<heart, spc, sdev, sreg, i, fields, beats, laps, raced, posted, shared>>

\* Mutant: the heart is not looked at.
OfflineAlways ==
  /\ mpc = "test" /\ i < DEVSIZE
  /\ i \in Leak
  /\ mpc' = "post" /\ fields' = "main"
  /\ shared' = IF spc = "post" THEN 1 ELSE 0
  /\ UNCHANGED <<heart, spc, sdev, sreg, i, beats, laps, raced, posted>>

\* heart==0 of a leak sensor: the notice is prepared.
Offline ==
  /\ mpc = "test" /\ i < DEVSIZE
  /\ heart[i] = 0 /\ i \in Leak
  /\ mpc' = "post" /\ fields' = "main"
  /\ shared' = IF spc = "post" THEN 1 ELSE 0
  /\ UNCHANGED <<heart, spc, sdev, sreg, i, beats, laps, raced, posted>>

\* Mutant: the walk stays at the device it reported.
PostOfflineStays ==
  /\ mpc = "post"
  /\ mpc' = "test"
  /\ posted' = <<"main", fields, shared>>
  /\ UNCHANGED <<heart, spc, sdev, sreg, i, fields, beats, laps, raced, shared>>

\* curl_easy_perform(posturl) of the main thread, then the next device.
PostOffline ==
  /\ mpc = "post"
  /\ mpc' = "test" /\ i' = i + 1
  /\ posted' = <<"main", fields, shared>>
  /\ UNCHANGED <<heart, spc, sdev, sreg, fields, beats, laps, raced, shared>>

\* The device is alive, or not a leak sensor: on to its reset.
Alive ==
  /\ mpc = "test" /\ i < DEVSIZE
  /\ ~(heart[i] = 0 /\ i \in Leak)
  /\ mpc' = "clear"
  /\ UNCHANGED <<heart, spc, sdev, sreg, i, fields, beats, laps, raced, posted, shared>>

\* mxj_device[i].heart=0
Clear ==
  /\ mpc = "clear"
  /\ heart' = [heart EXCEPT ![i] = 0]
  /\ beats' = [beats EXCEPT ![i] = 0]
  /\ laps'  = [laps EXCEPT ![i] = 0]
  /\ raced' = [raced EXCEPT ![i] = IF spc = "inc" /\ sdev = i THEN 1 ELSE 0]
  /\ mpc' = "test" /\ i' = i + 1
  /\ UNCHANGED <<spc, sdev, sreg, fields, posted, shared>>

Main == StartCheck \/ EndCheck \/ Offline \/ PostOffline \/ Alive \/ Clear

\* What the main thread does without waiting for anybody.
MainRuns == StartCheck \/ EndCheck \/ Offline \/ Alive \/ Clear

Next == Serial \/ Main

\* posturl has no timeout: curl_easy_perform() may never return.
Spec == Init /\ [][Next]_vars /\ WF_vars(MainRuns)

-----------------------------------------------------------------------------
(* Properties.                                                             *)

\* The table index stays within the table and every heart is a uint8_t.
TypeOK ==
  /\ heart \in [Dev -> 0 .. HEARTS-1] /\ sreg \in 0 .. HEARTS-1
  /\ beats \in [Dev -> Nat] /\ laps \in [Dev -> Nat]
  /\ raced \in [Dev -> {0, 1}] /\ shared \in {0, 1}
  /\ spc \in {"idle", "inc", "notice", "post"} /\ sdev \in Dev \cup {0}
  /\ mpc \in {"loop", "test", "clear", "post"} /\ i \in 0 .. DEVSIZE
  /\ mpc \in {"clear", "post"} => i < DEVSIZE
  /\ fields \in Thread /\ posted \in Thread \X Thread \X {0, 1}

\* The heart is the number of frames since it was last set to 0, up to whole
\* turns of the uint8_t; only a reset in the middle of a heart++ breaks it.
HeartExact == \A d \in Dev : raced[d] = 0 => heart[d] + laps[d] = beats[d]

\* A leak sensor is reported offline only if no frame of it was counted since
\* its heart was last set to 0, or so many that the uint8_t came round to 0;
\* and a sensor none of whose frames was counted is reported.
OfflineIsSilent ==
  [][\A d \in Leak :
       mpc = "test" /\ i = d /\ raced[d] = 0 =>
         /\ mpc' = "post"  => beats[d] = 0 \/ beats[d] >= HEARTS
         /\ mpc' = "clear" => beats[d] # 0]_vars

\* Each thread posts its own text, unless the two use posturl at the same time.
OwnNotice == posted[3] = 0 => posted[1] = posted[2]

\* The walk over the table always ends, unless a notice never gets an answer:
\* it is never held up by the serial thread, so that every leak sensor is
\* looked at again and again.
CheckRepeats == ~<>[](mpc = "post") => []<>(mpc = "loop")
=============================================================================
