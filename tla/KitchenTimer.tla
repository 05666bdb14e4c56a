---------------------------- MODULE KitchenTimer ----------------------------
(***************************************************************************)
(* The kitchen light's off-timer of zbclient.c: the int `humand', shared   *)
(* without a lock by the serial thread, which sets it when the motion      *)
(* sensor fires and clears it when somebody uses the wall switch, and by   *)
(* the main thread, which counts it down once per second and sends the     *)
(* "off" command when it reads 1.                                          *)
(*                                                                         *)
(* A step is one access to humand (humand-- is a load and a store) or one  *)
(* command sent to the kitchen switch (CHUFANG_ID), by whichever thread:   *)
(* scenes, alarms and messages switch it too and leave humand as it is.    *)
(* What only one thread touches is folded into the step next to it.  The   *)
(* answer to MXJ_GET_STATE (2, 2, 2: keep) changes no light and is left    *)
(* out.                                                                    *)
(*                                                                         *)
(* Heartbeat models the other job of the same two threads; names that it   *)
(* has too begin with t or timer here.                                     *)
(***************************************************************************)
EXTENDS Integers

CONSTANT HOLD   \* seconds the light stays on after motion (120 in the code)

ASSUME HoldAssumption == HOLD \in Nat /\ HOLD > 1

VARIABLES
  humand,    \* the timer
  state0,    \* mxj_device[CHUFANG].state[0]: 0 is off, other values are not
  tserial,   \* the serial thread inside the motion handler, or "idle"
  tmain,     \* the main thread inside its loop
  reg,       \* the value of humand the main thread has loaded
  lastCmd,   \* history: who sent the last command to the kitchen switch
  lit,       \* history: 1 while a light the timer switched on is its to switch off
  quiet,     \* history: ticks since the timer was last set to HOLD
  traced,    \* history: 1 after a store of the serial thread fell between the
             \* load and the store of humand--, until the next one that did not
  crossed    \* history: 1 after an "off" and a motion report overlapped, until
             \* the next "on" that overlaps no "off"

timerVars == <<humand, state0, tserial, tmain, reg, lastCmd, lit, quiet, traced, crossed>>

SerialPc == {"idle", "test1", "on", "arm", "test2", "refresh"}
MainPc   == {"top", "post", "sleep", "off", "test", "load", "store"}
Senders  == {"none", "motion", "timer", "scene", "alarm", "message"}

TimerInit ==
  /\ humand = 0 /\ state0 = 0 /\ reg = 0
  /\ tserial = "idle" /\ tmain = "top"
  /\ lastCmd = "none" /\ lit = 0 /\ quiet = 0 /\ traced = 0 /\ crossed = 0

-----------------------------------------------------------------------------
(* The serial thread: frames from the kitchen switch and the motion sensor. *)

\* A store to humand by the serial thread, and what it meets.
SerialStore(v) ==
  /\ humand' = v
  /\ traced' = IF tmain = "store" THEN 1 ELSE 0

\* MXJ_CTRL_UP of the kitchen switch: somebody pressed key k, its light is v.
WallSwitch(k, v) ==
  /\ tserial = "idle"
  /\ state0' = IF k = 1 THEN v ELSE state0
  /\ SerialStore(0)
  /\ lit' = 0
  /\ UNCHANGED <<tserial, tmain, reg, lastCmd, quiet, crossed>>

\* MXJ_SEND_STATE of the kitchen switch.
StateReport(v) ==
  /\ tserial = "idle"
  /\ state0' = v
  /\ UNCHANGED <<humand, tserial, tmain, reg, lastCmd, lit, quiet, traced, crossed>>

\* A motion report of XIAOMIRENTI_ID; the kitchen switch is in the table.
Motion ==
  /\ tserial = "idle"
  /\ tserial' = IF state0 = 0 THEN "test1" ELSE "test2"
  /\ UNCHANGED <<humand, state0, tmain, reg, lastCmd, lit, quiet, traced, crossed>>

\* if(humand <= 1)
TestIdle ==
  /\ tserial = "test1"
  /\ tserial' = IF humand <= 1 THEN "on" ELSE "test2"
  /\ UNCHANGED <<humand, state0, tmain, reg, lastCmd, lit, quiet, traced, crossed>>

\* MXJ_SendCtrlMessage(CHUFANG_ID,3,1,1,1)
SendOn ==
  /\ tserial = "on"
  /\ tserial' = "arm"
  /\ lastCmd' = "motion" /\ lit' = 1
  /\ crossed' = IF tmain = "off" THEN 1 ELSE 0
  /\ UNCHANGED <<humand, state0, tmain, reg, quiet, traced>>

\* Mutant: the light is switched on and the timer is not set.
ArmForgotten ==
  /\ tserial = "arm"
  /\ tserial' = "test2"
  /\ UNCHANGED <<humand, state0, tmain, reg, lastCmd, lit, quiet, traced, crossed>>

\* humand = 120, behind the command
Arm ==
  /\ tserial = "arm"
  /\ tserial' = "test2"
  /\ SerialStore(HOLD)
  /\ quiet' = 0
  /\ crossed' = IF tmain = "off" THEN 1 ELSE crossed
  /\ UNCHANGED <<state0, tmain, reg, lastCmd, lit>>

\* if(humand > 1 )
TestRunning ==
  /\ tserial = "test2"
  /\ tserial' = IF humand > 1 THEN "refresh" ELSE "idle"
  /\ UNCHANGED <<humand, state0, tmain, reg, lastCmd, lit, quiet, traced, crossed>>

\* Mutant: motion adds a period instead of starting a new one.
RefreshAdds ==
  /\ tserial = "refresh"
  /\ tserial' = "idle"
  /\ SerialStore(humand + HOLD)
  /\ quiet' = 0
  /\ UNCHANGED <<state0, tmain, reg, lastCmd, lit, crossed>>

\* humand = 120, of a timer that runs
Refresh ==
  /\ tserial = "refresh"
  /\ tserial' = "idle"
  /\ SerialStore(HOLD)
  /\ quiet' = 0
  /\ crossed' = IF tmain = "off" THEN 1 ELSE crossed
  /\ UNCHANGED <<state0, tmain, reg, lastCmd, lit>>

\* The third frame of the scene for leaving the house: the kitchen is put out.
LeaveScene ==
  /\ tserial = "idle"
  /\ lastCmd' = "scene"
  /\ UNCHANGED <<humand, state0, tserial, tmain, reg, lit, quiet, traced, crossed>>

\* XMLOUSHUI_CHUFANG_ID reports water: after the notice the kitchen is lit.
LeakAlarm ==
  /\ tserial = "idle"
  /\ lastCmd' = "alarm"
  /\ UNCHANGED <<humand, state0, tserial, tmain, reg, lit, quiet, traced, crossed>>

TimerSerial ==
  \/ \E k \in 1 .. 3, v \in {0, 1} : WallSwitch(k, v)
  \/ \E v \in {0, 1} : StateReport(v)
  \/ Motion \/ TestIdle \/ SendOn \/ Arm \/ TestRunning \/ Refresh
  \/ LeaveScene \/ LeakAlarm

-----------------------------------------------------------------------------
(* The main thread: one turn of while(1) per second.                       *)

\* The walk over the leak sensors, which every 7500 turns may have a notice to
\* post (module Heartbeat).
Supervise ==
  /\ tmain = "top"
  /\ tmain' \in {"sleep", "post"}
  /\ UNCHANGED <<humand, state0, tserial, reg, lastCmd, lit, quiet, traced, crossed>>

\* curl_easy_perform(posturl) returns.
Posted ==
  /\ tmain = "post"
  /\ tmain' = "sleep"
  /\ UNCHANGED <<humand, state0, tserial, reg, lastCmd, lit, quiet, traced, crossed>>

\* Mutant: the "off" command leaves one tick early.
TestExpiredEarly ==
  /\ tmain = "sleep"
  /\ tmain' = IF humand = 2 THEN "off" ELSE "test"
  /\ UNCHANGED <<humand, state0, tserial, reg, lastCmd, lit, quiet, traced, crossed>>

\* sleep(1); if(humand == 1)
TestExpired ==
  /\ tmain = "sleep"
  /\ tmain' = IF humand = 1 THEN "off" ELSE "test"
  /\ UNCHANGED <<humand, state0, tserial, reg, lastCmd, lit, quiet, traced, crossed>>

\* MXJ_SendCtrlMessage(CHUFANG_ID,3,0,0,0)
SendOff ==
  /\ tmain = "off"
  /\ tmain' = "test"
  /\ lastCmd' = "timer" /\ lit' = 0
  /\ crossed' = IF tserial # "idle" THEN 1 ELSE crossed
  /\ UNCHANGED <<humand, state0, tserial, reg, quiet, traced>>

\* Mutant: if(humand)
TestTickingNonzero ==
  /\ tmain = "test"
  /\ tmain' = IF humand # 0 THEN "load" ELSE "top"
  /\ UNCHANGED <<humand, state0, tserial, reg, lastCmd, lit, quiet, traced, crossed>>

\* if(humand > 0)
TestTicking ==
  /\ tmain = "test"
  /\ tmain' = IF humand > 0 THEN "load" ELSE "top"
  /\ UNCHANGED <<humand, state0, tserial, reg, lastCmd, lit, quiet, traced, crossed>>

\* humand--, first half
Load ==
  /\ tmain = "load"
  /\ tmain' = "store"
  /\ reg' = humand
  /\ UNCHANGED <<humand, state0, tserial, lastCmd, lit, quiet, traced, crossed>>

\* humand--, second half
Store ==
  /\ tmain = "store"
  /\ tmain' = "top"
  /\ humand' = reg - 1
  /\ quiet' = quiet + 1
  /\ UNCHANGED <<state0, tserial, reg, lastCmd, lit, traced, crossed>>

\* What the main thread does without waiting for anybody.
TimerMainRuns == Supervise \/ TestExpired \/ SendOff \/ TestTicking \/ Load \/ Store

TimerMain == TimerMainRuns \/ Posted

-----------------------------------------------------------------------------
(* The HTTP thread: answer_to_connection().                                *)

\* A text that names the kitchen, or a message in JSON with its id: on, off or
\* anything the message says.
KitchenMessage ==
  /\ lastCmd' = "message"
  /\ UNCHANGED <<humand, state0, tserial, tmain, reg, lit, quiet, traced, crossed>>

TimerNext == TimerSerial \/ TimerMain \/ KitchenMessage

\* posturl has no timeout: a server that is silent holds the main thread in
\* curl_easy_perform() for ever, so Posted is owed by nobody.
\* Inside the motion handler the serial thread runs on; outside it waits for
\* frames that need not come.
TimerSerialRuns == TestIdle \/ SendOn \/ Arm \/ TestRunning \/ Refresh

TimerSpec ==
  TimerInit /\ [][TimerNext]_timerVars
    /\ WF_timerVars(TimerMainRuns) /\ WF_timerVars(TimerSerialRuns)

-----------------------------------------------------------------------------
(* Properties.                                                             *)

\* humand never exceeds HOLD and never falls below -1: the only way below 0 is
\* a wall switch press between the test and the decrement.
TimerTypeOK ==
  /\ humand \in -1 .. HOLD /\ reg \in 0 .. HOLD
  /\ state0 \in {0, 1}
  /\ tserial \in SerialPc /\ tmain \in MainPc
  /\ lastCmd \in Senders /\ lit \in {0, 1}
  /\ quiet \in Nat /\ traced \in {0, 1} /\ crossed \in {0, 1}

\* A running timer is exact: what is left and what has passed since the last
\* motion add up to HOLD, unless a store of the serial thread was overwritten
\* by a humand-- under way.  So the light goes off neither early nor late.
TimerExact == traced = 0 /\ humand > 0 => humand + quiet = HOLD

\* The "off" of the timer is its end: while the timer runs, the kitchen switch
\* was last commanded by the motion handler's "on", or since then by a scene, an
\* alarm or a message, which leave the timer alone.  Only an "off" that was sent
\* while a motion report was being handled is followed by a running timer (the
\* kitchen is then dark, and motion will not light it).
OffEndsTimer ==
  crossed = 0 /\ humand > 1 => lastCmd \notin {"none", "timer"}

\* Once motion reports stop, a light the timer switched on is switched off by
\* it or taken over at the wall switch; only a lost store, or a notice that
\* never gets an answer, can leave it on.
AutoOff ==
  <>[](tserial = "idle") /\ ~<>[](tmain = "post") => (lit = 1 ~> (lit = 0 \/ traced = 1))
=============================================================================
