--------------------------- MODULE MainLoopProofs ---------------------------
(***************************************************************************)
(* The two jobs of main()'s loop beside the serial thread: the supervision *)
(* of the sensors (Heartbeat), for every number of devices, set of leak    *)
(* sensors and width of the heart, and the kitchen light's timer           *)
(* (KitchenTimer), for every HOLD.                                         *)
(*                                                                         *)
(* HeartExact is not inductive: between the two halves of heart++ the      *)
(* serial thread holds a copy of the heart, and the copy must be known to  *)
(* be the heart unless a reset came in between.  OwnNotice needs to know   *)
(* whose text posturl holds while a thread is about to post.               *)
(***************************************************************************)
EXTENDS Heartbeat, KitchenTimer, TLAPS

-----------------------------------------------------------------------------
(* Supervision of the sensors.                                             *)

\* The loaded heart is the heart, until the main thread resets it.
Loaded ==
  /\ spc = "inc" => sdev \in Dev
  /\ spc = "inc" /\ raced[sdev] = 0 => sreg = heart[sdev]

\* A thread that has stored its text finds it again, unless both have.
OwnText ==
  /\ spc = "post" /\ mpc # "post" /\ shared = 0 => fields = "serial"
  /\ mpc = "post" /\ spc # "post" /\ shared = 0 => fields = "main"
  /\ spc = "post" /\ mpc = "post" => shared = 1

HeartInv == TypeOK /\ HeartExact /\ Loaded

\* What heart++ leaves in a heart of n values.
LEMMA Wrap ==
  ASSUME NEW n \in Nat, n > 1, NEW r \in 0 .. n-1
  PROVE  (r + 1) % n = IF r = n-1 THEN 0 ELSE r + 1
<1>1. CASE r = n-1
  <2>1. n % n = 0
    BY SMT
  <2> QED BY <1>1, <2>1
<1>2. CASE r # n-1
  <2>1. r + 1 \in 0 .. n-1
    BY <1>2
  <2> QED BY <1>2, <2>1, SMT
<1> QED BY <1>1, <1>2

\* Both histories stay natural numbers.
LEMMA CountsNat ==
  ASSUME NEW n \in Nat, NEW l \in Nat, NEW b \in Nat
  PROVE  l + n \in Nat /\ b + 1 \in Nat
OBVIOUS

\* Initially every heart is exact and nobody has loaded one.
LEMMA HeartInit == Init => HeartInv
BY HeartbeatAssumption DEF Init, HeartInv, TypeOK, HeartExact, Loaded, Dev, Thread

\* The steps of the serial thread keep hearts in range and exact.
LEMMA HeartSerial == HeartInv /\ Serial => HeartInv'
<1> SUFFICES ASSUME HeartInv, Serial PROVE HeartInv'
  OBVIOUS
<1> USE HeartbeatAssumption DEF HeartInv, TypeOK, HeartExact, Loaded, Dev, Thread
<1>1. ASSUME NEW d \in Dev, Frame(d) PROVE HeartInv'
  BY <1>1 DEF Frame
<1>2. ASSUME Count PROVE HeartInv'
  <2>1. sdev \in Dev /\ sreg \in 0 .. HEARTS-1
    BY <1>2 DEF Count
  <2>2. (sreg + 1) % HEARTS = IF sreg = HEARTS - 1 THEN 0 ELSE sreg + 1
    BY <2>1, Wrap
  <2>a. (sreg + 1) % HEARTS \in 0 .. HEARTS-1
    BY <2>1, <2>2
  <2>b. heart' \in [Dev -> 0 .. HEARTS-1]
    BY <1>2, <2>1, <2>a DEF Count
  <2>e. beats[sdev] \in Nat /\ laps[sdev] \in Nat /\ heart[sdev] \in 0 .. HEARTS-1
    BY <2>1
  <2>f. laps[sdev] + HEARTS \in Nat /\ beats[sdev] + 1 \in Nat
    BY <2>e, CountsNat
  <2>c. beats' \in [Dev -> Nat] /\ laps' \in [Dev -> Nat]
    <3>1. beats' \in [Dev -> Nat]
      BY <1>2, <2>1, <2>f DEF Count
    <3>2. laps' \in [Dev -> Nat]
      BY <1>2, <2>1, <2>e, <2>f DEF Count
    <3> QED BY <3>1, <3>2
  <2>d. spc' \in {"idle", "inc", "notice", "post"} /\ UNCHANGED <<sdev, sreg, mpc, i, fields, raced, posted, shared>>
    BY <1>2 DEF Count
  <2>3. TypeOK'
    BY <2>b, <2>c, <2>d
  <2>4. HeartExact'
    <3> SUFFICES ASSUME NEW d \in Dev, raced'[d] = 0
                 PROVE  heart'[d] + laps'[d] = beats'[d]
      OBVIOUS
    <3>1. CASE d # sdev
      BY <1>2, <2>1, <3>1 DEF Count
    <3>2. CASE d = sdev
      <4>1. sreg = heart[sdev] /\ heart[sdev] + laps[sdev] = beats[sdev]
        BY <1>2, <2>1, <3>2 DEF Count
      <4>2. beats'[d] = beats[sdev] + 1 /\ heart'[d] = (sreg + 1) % HEARTS
        BY <1>2, <2>1, <3>2 DEF Count
      <4>3. laps'[d] = IF sreg = HEARTS - 1 THEN laps[sdev] + HEARTS ELSE laps[sdev]
        BY <1>2, <2>1, <3>2 DEF Count
      <4>4. ((sreg + 1) % HEARTS) + (IF sreg = HEARTS-1 THEN laps[sdev] + HEARTS ELSE laps[sdev])
              = beats[sdev] + 1
        <5>1. sreg + laps[sdev] = beats[sdev] /\ HEARTS \in Nat /\ HEARTS > 1
          BY <4>1
        <5> HIDE DEF HeartInv, TypeOK, HeartExact, Loaded, Dev, Thread
        <5>2. CASE sreg = HEARTS - 1
          <6>1. (sreg + 1) % HEARTS = 0
            BY <2>2, <5>2
          <6> QED BY <2>1, <2>e, <5>1, <5>2, <6>1
        <5>3. CASE sreg # HEARTS - 1
          <6>1. (sreg + 1) % HEARTS = sreg + 1
            BY <2>2, <5>3
          <6> QED BY <2>1, <2>e, <5>1, <5>3, <6>1
        <5> QED BY <5>2, <5>3
      <4> QED BY <4>2, <4>3, <4>4
    <3> QED BY <3>1, <3>2
  <2> QED BY <1>2, <2>3, <2>4 DEF Count
<1>3. ASSUME Alarm PROVE HeartInv'
  BY <1>3 DEF Alarm
<1>4. ASSUME PostAlarm PROVE HeartInv'
  BY <1>4 DEF PostAlarm
<1> QED BY <1>1, <1>2, <1>3, <1>4 DEF Serial

\* The steps of the main thread: a reset makes the heart exact again, and marks
\* it when the serial thread is in the middle of counting.
LEMMA HeartMain == HeartInv /\ Main => HeartInv'
<1> SUFFICES ASSUME HeartInv, Main PROVE HeartInv'
  OBVIOUS
<1>1. ASSUME StartCheck PROVE HeartInv'
  <2>1. mpc' = "test" /\ i' \in 0 .. DEVSIZE
    BY <1>1, HeartbeatAssumption DEF StartCheck
  <2> QED
    BY <1>1, <2>1 DEF StartCheck, HeartInv, TypeOK, HeartExact, Loaded
<1> USE HeartbeatAssumption DEF HeartInv, TypeOK, HeartExact, Loaded, Dev, Thread
<1>2. ASSUME EndCheck PROVE HeartInv'
  BY <1>2 DEF EndCheck
<1>3. ASSUME Offline PROVE HeartInv'
  BY <1>3 DEF Offline
<1>4. ASSUME PostOffline PROVE HeartInv'
  <2>1. posted' \in Thread \X Thread \X {0, 1} /\ i' \in 0 .. DEVSIZE
    BY <1>4 DEF PostOffline
  <2> QED BY <1>4, <2>1 DEF PostOffline
<1>5. ASSUME Alive PROVE HeartInv'
  BY <1>5 DEF Alive
<1>6. ASSUME Clear PROVE HeartInv'
  <2>1. i \in Dev
    BY <1>6 DEF Clear
  <2>a. 0 \in 0 .. HEARTS-1
    OBVIOUS
  <2>2. heart' = [heart EXCEPT ![i] = 0] /\ heart' \in [Dev -> 0 .. HEARTS-1]
    BY <1>6, <2>1, <2>a DEF Clear
  <2>3. beats' \in [Dev -> Nat] /\ laps' \in [Dev -> Nat] /\ raced' \in [Dev -> {0, 1}]
    BY <1>6, <2>1 DEF Clear
  <2>b. mpc' = "test" /\ i' \in 0 .. DEVSIZE /\ UNCHANGED <<spc, sdev, sreg, fields, posted, shared>>
    BY <1>6, <2>1 DEF Clear
  <2>4. TypeOK'
    BY <2>2, <2>3, <2>b
  <2>5. HeartExact'
    BY <1>6, <2>1, <2>2, <2>3 DEF Clear
  <2>6. Loaded'
    BY <1>6, <2>1, <2>2, <2>3 DEF Clear
  <2> QED BY <2>4, <2>5, <2>6
<1> QED BY <1>1, <1>2, <1>3, <1>4, <1>5, <1>6 DEF Main

\* The strengthened invariant holds in every reachable state.
THEOREM SpecHeartInv == Spec => []HeartInv
<1>1. HeartInv /\ UNCHANGED vars => HeartInv'
  BY DEF HeartInv, TypeOK, HeartExact, Loaded, vars, Dev, Thread
<1> QED BY HeartInit, HeartSerial, HeartMain, <1>1, PTL DEF Spec, Next

\* The heart of every device is the number of its frames since the last reset,
\* up to whole turns of the uint8_t, for every table and every width, whatever
\* the interleaving of find_dev() with the hourly check.
THEOREM SpecHeartExact == Spec => []HeartExact
BY SpecHeartInv, PTL DEF HeartInv

\* The table index of the hourly check never leaves the table.
THEOREM SpecTypeOK == Spec => []TypeOK
BY SpecHeartInv, PTL DEF HeartInv

\* One step keeps the texts of the notices apart.
LEMMA NoticeStep == TypeOK /\ TypeOK' /\ OwnText /\ OwnNotice /\ [Next]_vars => OwnText' /\ OwnNotice'
<1> SUFFICES ASSUME TypeOK, OwnText, OwnNotice, [Next]_vars
             PROVE  OwnText' /\ OwnNotice'
  OBVIOUS
<1> USE DEF TypeOK, OwnText, OwnNotice, Thread
<1>1. CASE \E d \in Dev : Frame(d)
  BY <1>1 DEF Frame
<1>2. CASE Count
  BY <1>2 DEF Count
<1>3. CASE Alarm
  BY <1>3 DEF Alarm
<1>4. CASE PostAlarm
  BY <1>4 DEF PostAlarm
<1>5. CASE StartCheck \/ EndCheck \/ Alive
  BY <1>5 DEF StartCheck, EndCheck, Alive
<1>6. CASE Offline
  BY <1>6 DEF Offline
<1>7. CASE PostOffline
  BY <1>7 DEF PostOffline
<1>8. CASE Clear
  BY <1>8 DEF Clear
<1>9. CASE UNCHANGED vars
  BY <1>9 DEF vars
<1> QED BY <1>1, <1>2, <1>3, <1>4, <1>5, <1>6, <1>7, <1>8, <1>9 DEF Next, Serial, Main

\* Each thread posts its own text through the shared curl handle, unless both
\* were using it at once; for every table.
THEOREM SpecOwnNotice == Spec => []OwnNotice
<1>1. Init => OwnText /\ OwnNotice
  BY DEF Init, OwnText, OwnNotice
<1> QED BY <1>1, SpecTypeOK, NoticeStep, PTL DEF Spec

\* A heart that has come round has come round by whole turns.
Turns == \A d \in Dev : laps[d] = 0 \/ laps[d] >= HEARTS

LEMMA TurnsStep == HeartInv /\ Turns /\ [Next]_vars => Turns'
<1> SUFFICES ASSUME HeartInv, Turns, [Next]_vars, NEW d \in Dev
             PROVE  laps'[d] = 0 \/ laps'[d] >= HEARTS
  BY DEF Turns
<1>0. laps \in [Dev -> Nat] /\ HEARTS \in Nat /\ laps[d] \in Nat
      /\ (laps[d] = 0 \/ laps[d] >= HEARTS)
  BY HeartbeatAssumption DEF HeartInv, TypeOK, Turns
<1>1. CASE Count
  <2>1. laps'[d] \in {laps[d], laps[d] + HEARTS}
    BY <1>0, <1>1 DEF Count
  <2> QED
    BY <1>0, <2>1
<1>2. CASE Clear
  <2>1. laps'[d] \in {laps[d], 0}
    BY <1>0, <1>2 DEF Clear
  <2> QED
    BY <1>0, <2>1
<1>3. ASSUME ~ Count, ~ Clear PROVE laps' = laps
  BY <1>3 DEF Next, Serial, Main, Frame, Alarm, PostAlarm, StartCheck, EndCheck, Offline,
    PostOffline, Alive, vars
<1> QED
  BY <1>0, <1>1, <1>2, <1>3

\* A leak sensor is reported offline only when none of its frames was counted
\* since the last reset, or a whole turn of them, and a silent one is always
\* reported: for every table, width and interleaving of the two threads.
THEOREM SpecOfflineIsSilent == Spec => OfflineIsSilent
<1>1. Init => Turns
  BY DEF Init, Turns
<1>2. ASSUME HeartInv, Turns, [Next]_vars, NEW d \in Leak,
             mpc = "test", i = d, raced[d] = 0
      PROVE  /\ mpc' = "post"  => beats[d] = 0 \/ beats[d] >= HEARTS
             /\ mpc' = "clear" => beats[d] # 0
  <2>1. d \in Dev /\ HEARTS \in Nat
    BY HeartbeatAssumption DEF Dev
  <2>2. /\ heart[d] \in 0 .. HEARTS-1 /\ laps[d] \in Nat /\ beats[d] \in Nat
        /\ heart[d] + laps[d] = beats[d] /\ (laps[d] = 0 \/ laps[d] >= HEARTS)
    BY <1>2, <2>1 DEF HeartInv, TypeOK, HeartExact, Turns
  <2>3. mpc' = "post" => Offline
    BY <1>2 DEF Next, Serial, Main, Frame, Count, Alarm, PostAlarm, StartCheck, EndCheck,
      PostOffline, Alive, Clear, vars
  <2>4. mpc' = "clear" => Alive
    BY <1>2 DEF Next, Serial, Main, Frame, Count, Alarm, PostAlarm, StartCheck, EndCheck,
      PostOffline, Offline, Clear, vars
  <2>5. mpc' = "post" => heart[d] = 0
    BY <1>2, <2>3 DEF Offline
  <2>6. mpc' = "clear" => heart[d] # 0
    BY <1>2, <2>4 DEF Alive
  <2> QED
    BY <2>1, <2>2, <2>5, <2>6
<1>3. HeartInv /\ Turns /\ [Next]_vars
        => [\A d \in Leak : mpc = "test" /\ i = d /\ raced[d] = 0 =>
              /\ mpc' = "post"  => beats[d] = 0 \/ beats[d] >= HEARTS
              /\ mpc' = "clear" => beats[d] # 0]_vars
  BY <1>2
<1> QED
  BY <1>1, <1>3, SpecHeartInv, TurnsStep, PTL DEF Spec, OfflineIsSilent

-----------------------------------------------------------------------------
(* The kitchen light's timer.                                              *)

\* The value the main thread has loaded is still the timer's when it stores,
\* unless the serial thread stored in between; and it never loads -1.
Decrement ==
  /\ tmain = "load" => humand >= 0
  /\ traced = 0 /\ tmain = "store" => reg = humand

\* The last command is neither missing nor the timer's "off".
Lightable == lastCmd \notin {"none", "timer"}

\* What every place that holds a running timer, or is about to set one, knows
\* of the last command.
Commands ==
  crossed = 0 =>
    /\ tserial \in {"arm", "refresh"} => Lightable
    /\ tmain = "off" => humand <= 1
    /\ tmain = "store" /\ reg > 1 => Lightable
    /\ humand > 1 => Lightable

TimerInv == TimerTypeOK /\ TimerExact /\ Decrement /\ Commands

LEMMA TimerStart == TimerInit => TimerInv
BY HoldAssumption DEF TimerInit, TimerInv, TimerTypeOK, TimerExact, Decrement, Commands,
  Lightable, SerialPc, MainPc, Senders

\* A wall switch press.
LEMMA WallSwitchStep ==
  ASSUME TimerInv, NEW k \in 1 .. 3, NEW v \in {0, 1}, WallSwitch(k, v) PROVE TimerInv'
BY HoldAssumption DEF WallSwitch, SerialStore, TimerInv, TimerTypeOK, TimerExact,
  Decrement, Commands, Lightable,
  SerialPc, MainPc, Senders

\* A state report and the tests of the motion handler.
LEMMA ReadOnlyStep ==
  ASSUME TimerInv, \/ \E v \in {0, 1} : StateReport(v)
                   \/ Motion \/ TestIdle \/ TestRunning
  PROVE  TimerInv'
BY HoldAssumption DEF StateReport, Motion, TestIdle, TestRunning, TimerInv,
  TimerTypeOK, TimerExact, Decrement, Commands, Lightable,
  SerialPc, MainPc, Senders

\* The "on" command.
LEMMA SendOnStep == ASSUME TimerInv, SendOn PROVE TimerInv'
BY HoldAssumption DEF SendOn, TimerInv, TimerTypeOK, TimerExact, Decrement, Commands,
  Lightable, SerialPc, MainPc, Senders

\* The timer is set, behind the command or while it runs.
LEMMA SetStep == ASSUME TimerInv, Arm \/ Refresh PROVE TimerInv'
BY HoldAssumption DEF Arm, Refresh, SerialStore, TimerInv, TimerTypeOK,
  TimerExact, Decrement, Commands, Lightable,
  SerialPc, MainPc, Senders

\* A command of somebody else, in the serial or in the HTTP thread.
LEMMA OtherStep == ASSUME TimerInv, LeaveScene \/ LeakAlarm \/ KitchenMessage PROVE TimerInv'
BY DEF LeaveScene, LeakAlarm, KitchenMessage, TimerInv, TimerTypeOK, TimerExact, Decrement,
  Commands, Lightable, Senders

\* The main thread up to the decrement.
LEMMA MainReadStep ==
  ASSUME TimerInv, \/ Supervise \/ Posted \/ TestExpired \/ SendOff
                   \/ TestTicking \/ Load
  PROVE  TimerInv'
BY HoldAssumption DEF Supervise, Posted, TestExpired, SendOff,
  TestTicking, Load, TimerInv, TimerTypeOK, TimerExact, Decrement, Commands,
  Lightable, SerialPc, MainPc, Senders

\* The store of the decrement.
LEMMA StoreStep == ASSUME TimerInv, Store PROVE TimerInv'
BY HoldAssumption DEF Store, TimerInv, TimerTypeOK, TimerExact, Decrement, Commands,
  Lightable, SerialPc, MainPc, Senders

\* The inductive invariant of the two threads.
THEOREM SpecTimerInv == TimerSpec => []TimerInv
<1>1. TimerInit => TimerInv
  BY TimerStart
<1>2. TimerInv /\ [TimerNext]_timerVars => TimerInv'
  <2> SUFFICES ASSUME TimerInv, [TimerNext]_timerVars PROVE TimerInv'
    OBVIOUS
  <2>1. CASE TimerSerial
    BY <2>1, WallSwitchStep, ReadOnlyStep, SendOnStep, SetStep, OtherStep DEF TimerSerial
  <2>2. CASE TimerMain
    BY <2>2, MainReadStep, StoreStep DEF TimerMain, TimerMainRuns
  <2>3. CASE UNCHANGED timerVars
    BY <2>3 DEF timerVars, TimerInv, TimerTypeOK, TimerExact, Decrement, Commands, Lightable
  <2> QED
    BY <2>1, <2>2, <2>3, OtherStep DEF TimerNext
<1> QED
  BY <1>1, <1>2, PTL DEF TimerSpec

\* The timer stays within -1 .. HOLD whatever the interleaving.
THEOREM SpecTimerTypeOK == TimerSpec => []TimerTypeOK
<1>1. TimerInv => TimerTypeOK
  BY DEF TimerInv
<1> QED
  BY <1>1, SpecTimerInv, PTL

\* A timer no store of which was lost is exact.
THEOREM SpecTimerExact == TimerSpec => []TimerExact
<1>1. TimerInv => TimerExact
  BY DEF TimerInv
<1> QED
  BY <1>1, SpecTimerInv, PTL

\* While the timer runs, the last command to the kitchen is not its own "off",
\* whoever else commands the kitchen meanwhile; for every hold time.
THEOREM SpecOffEndsTimer == TimerSpec => []OffEndsTimer
<1>1. TimerInv => OffEndsTimer
  BY DEF TimerInv, Commands, Lightable, OffEndsTimer
<1> QED
  BY <1>1, SpecTimerInv, PTL

\* A light the timer has switched on is about to get its timer, has a timer that
\* runs, or one in its last second whose "off" the main thread has yet to send.
\* The timer of such a light is never 0, where nobody would look at it again.
LitTimed ==
  lit = 1 /\ traced = 0 =>
    \/ tserial = "arm"
    \/ humand > 1
    \/ humand = 1 /\ tmain \in {"top", "post", "sleep", "off"}

LEMMA LitSerial == TimerInv /\ LitTimed /\ TimerSerial => LitTimed'
<1> SUFFICES ASSUME TimerInv, LitTimed, TimerSerial PROVE LitTimed'
  OBVIOUS
<1>1. ASSUME NEW n \in 1 .. 3, NEW v \in {0, 1}, WallSwitch(n, v) PROVE LitTimed'
  BY <1>1 DEF WallSwitch, LitTimed
<1>2. ASSUME \E v \in {0, 1} : StateReport(v) PROVE LitTimed'
  BY <1>2 DEF StateReport, LitTimed
<1>3. CASE Motion \/ TestIdle \/ TestRunning
  BY <1>3 DEF Motion, TestIdle, TestRunning, LitTimed
<1>4. CASE SendOn
  BY <1>4 DEF SendOn, LitTimed
<1>5. CASE Arm \/ Refresh
  BY <1>5, HoldAssumption DEF Arm, Refresh, SerialStore, LitTimed
<1>6. CASE LeaveScene \/ LeakAlarm
  BY <1>6 DEF LeaveScene, LeakAlarm, LitTimed
<1> QED
  BY <1>1, <1>2, <1>3, <1>4, <1>5, <1>6 DEF TimerSerial

LEMMA LitMain == TimerInv /\ LitTimed /\ TimerMain => LitTimed'
<1> SUFFICES ASSUME TimerInv, LitTimed, TimerMain PROVE LitTimed'
  OBVIOUS
<1>1. CASE Supervise \/ Posted
  BY <1>1 DEF Supervise, Posted, LitTimed
<1>2. CASE TestExpired
  BY <1>2 DEF TestExpired, LitTimed
<1>3. CASE SendOff
  BY <1>3 DEF SendOff, LitTimed
<1>4. CASE TestTicking \/ Load
  BY <1>4 DEF TestTicking, Load, LitTimed
<1>5. CASE Store
  <2>1. traced = 0 => reg = humand
    BY <1>5 DEF Store, TimerInv, Decrement
  <2>2. humand \in Int
    BY HoldAssumption DEF TimerInv, TimerTypeOK
  <2> QED
    BY <1>5, <2>1, <2>2 DEF Store, LitTimed
<1> QED
  BY <1>1, <1>2, <1>3, <1>4, <1>5 DEF TimerMain, TimerMainRuns

\* For every hold time and interleaving a light the timer has switched on has a
\* timer, set or about to be, that leads to its "off", unless a store was lost:
\* the safety part of AutoOff.
THEOREM SpecLitTimed == TimerSpec => []LitTimed
<1>1. TimerInit => LitTimed
  BY DEF TimerInit, LitTimed
<1>2. TimerInv /\ LitTimed /\ [TimerNext]_timerVars => LitTimed'
  <2> SUFFICES ASSUME TimerInv, LitTimed, [TimerNext]_timerVars PROVE LitTimed'
    OBVIOUS
  <2>1. CASE UNCHANGED timerVars
    BY <2>1 DEF timerVars, LitTimed
  <2>2. CASE KitchenMessage
    BY <2>2 DEF KitchenMessage, LitTimed
  <2> QED
    BY <2>1, <2>2, LitSerial, LitMain DEF TimerNext
<1> QED
  BY <1>1, <1>2, SpecTimerInv, PTL DEF TimerSpec
=============================================================================
