------------------------- MODULE RestartScheduleProofs -------------------------
(***************************************************************************)
(* Proofs about RestartSchedule: what the players are told is what         *)
(* happens, and the server is asked to restart once.  TLC looks at every   *)
(* minute of the day; the proofs are for any time that a boot takes.       *)
(***************************************************************************)
EXTENDS RestartSchedule, TLAPS

(* The parts of TypeOK. *)
Numbers == /\ hour \in 0..23 /\ minute \in 0..59 /\ downFor \in 0..BootMinutes
           /\ lastWarningMinute \in -3..54 /\ promise \in -1..54
           /\ saidNow \in 0..2 /\ restarts \in 0..2

Modes == /\ looked \in BOOLEAN /\ requested \in BOOLEAN
         /\ process \in {"up", "down"} /\ fireDeamonActive \in BOOLEAN
         /\ thread \in {"looping", "broken", "returned", "none"}

LEMMA TypeParts == TypeOK <=> Numbers /\ Modes
BY Zenon DEF TypeOK, Numbers, Modes

LEMMA InitTyped == Init => TypeOK
<1> SUFFICES ASSUME Init PROVE Numbers /\ Modes
  BY TypeParts
<1>1. Numbers
  BY BootAssumption DEF Init, Numbers
<1>2. Modes
  BY Zenon DEF Init, Modes
<1> QED
  BY <1>1, <1>2

LEMMA TimesTyped ==
  ASSUME TypeOK
  PROVE  /\ Until \in 1..61
         /\ Until < 60 => hour \in shutdownTimes /\ Until = 60 - minute
         /\ Until < 2 <=> hour \in shutdownTimes /\ minute = 59
BY DEF TypeOK, Until, timeUntilRestart

LEMMA NumbersKept == TypeOK /\ [Next]_vars => Numbers'
<1> SUFFICES ASSUME TypeOK, [Next]_vars PROVE Numbers'
  OBVIOUS
<1> USE BootAssumption DEF clock, service, history, Looks, Once
<1>n. Numbers
  BY TypeParts
<1>1. CASE Warn
  <2>1. timeUntilShutdownMode(Until) \in -3..54
    BY <1>1, TimesTyped DEF Warn, WarningDue, RestartDue, timeUntilShutdownMode
  <2>2. IsSaid(Until) => timeUntilShutdownMode(Until) \in -1..54
    BY <2>1 DEF IsSaid
  <2>3. promise' \in -1..54 /\ saidNow' \in 0..2
    BY <1>1, <1>n, <2>2 DEF Numbers, Warn
  <2> QED
    BY <1>1, <1>n, <2>1, <2>3 DEF Numbers, Warn
<1>2. CASE GoOn \/ Break
  BY <1>2, <1>n DEF Numbers, GoOn, Break
<1>3. CASE Restart
  BY <1>3, <1>n DEF Numbers, Restart
<1>4. CASE Tick
  <2>1. minute' \in 0..59 /\ hour' \in 0..23 /\ downFor' \in 0..BootMinutes
    BY <1>4, <1>n DEF Numbers, Tick
  <2>2. promise' \in -1..54 /\ restarts' \in 0..2
    BY <1>4, <1>n DEF Numbers, Tick
  <2> QED
    BY <1>4, <1>n, <2>1, <2>2 DEF Numbers, Tick
<1>5. CASE Kill \/ Crash
  BY <1>5, <1>n DEF Numbers, Kill, Crash, Stops
<1>6. CASE Boot
  BY <1>6, <1>n DEF Numbers, Boot
<1>7. CASE UNCHANGED vars
  BY <1>7, <1>n DEF Numbers, vars
<1> QED
  BY <1>1, <1>2, <1>3, <1>4, <1>5, <1>6, <1>7 DEF Next, Loop

LEMMA ModesKept == TypeOK /\ [Next]_vars => Modes'
<1> SUFFICES ASSUME TypeOK, [Next]_vars PROVE Modes'
  OBVIOUS
<1>n. Modes
  BY TypeParts
<1> USE Zenon DEF clock, service, history, Looks, Modes
<1>1. CASE Warn
  BY <1>1, <1>n DEF Warn
<1>2. CASE GoOn \/ Break
  BY <1>2, <1>n DEF GoOn, Break
<1>3. CASE Restart
  BY <1>3, <1>n DEF Restart
<1>4. CASE Tick
  BY <1>4, <1>n DEF Tick
<1>5. CASE Kill \/ Crash
  BY <1>5, <1>n DEF Kill, Crash, Stops
<1>6. CASE Boot
  BY <1>6, <1>n DEF Boot
<1>7. CASE UNCHANGED vars
  BY <1>7, <1>n DEF vars
<1> QED
  BY <1>1, <1>2, <1>3, <1>4, <1>5, <1>6, <1>7 DEF Next, Loop

LEMMA NextTyped == TypeOK /\ [Next]_vars => TypeOK'
<1> SUFFICES ASSUME TypeOK, [Next]_vars PROVE TypeOK'
  OBVIOUS
<1>1. Numbers' /\ Modes'
  BY NumbersKept, ModesKept
<1> QED
  BY <1>1, Zenon DEF TypeOK, Numbers, Modes

(* Of Spec: the hours, minutes and counters keep their ranges.             *)
THEOREM ScheduleTypeCorrect == Spec => []TypeOK
BY InitTyped, NextTyped, PTL DEF Spec

----------------------------------------------------------------------------
(* A promise is about minute 55 of an hour in which the server restarts.   *)
Promised == promise >= 0 => hour \in shutdownTimes /\ minute + promise = 55

LEMMA PromisedKept == TypeOK /\ Promised /\ [Next]_vars => Promised'
<1> SUFFICES ASSUME TypeOK, Promised, [Next]_vars PROVE Promised'
  OBVIOUS
<1> USE DEF Promised, clock, service, history, Looks
<1>1. CASE Warn
  <2>1. hour' = hour /\ minute' = minute /\ minute \in 0..59
    BY <1>1 DEF Warn, TypeOK
  <2>2. hour \in shutdownTimes /\ Until = 60 - minute
    BY <1>1, TimesTyped DEF Warn, WarningDue
  <2>3. promise' = promise \/ promise' = Until - 5
    BY <1>1 DEF Warn, timeUntilShutdownMode
  <2> QED
    BY <2>1, <2>2, <2>3
<1>2. CASE Tick
  <2>1. promise \in -1..54 /\ minute \in 0..59
    BY DEF TypeOK
  <2>2. /\ promise' = IF promise = -1 THEN -1 ELSE promise - 1
        /\ minute' = (minute + 1) % 60
        /\ hour' = IF minute = 59 THEN (hour + 1) % 24 ELSE hour
    BY <1>2 DEF Tick
  <2>3. CASE promise >= 0
    <3>1. minute' = minute + 1 /\ hour' = hour
      BY <2>1, <2>2, <2>3
    <3> QED
      BY <2>1, <2>2, <2>3, <3>1
  <2>4. CASE promise = -1
    BY <2>2, <2>4
  <2> QED
    BY <2>1, <2>3, <2>4
<1>3. CASE Kill \/ Crash
  BY <1>3 DEF Kill, Crash, Stops
<1>4. CASE UNCHANGED <<promise, hour, minute>>
  BY <1>4
<1> QED
  BY <1>1, <1>2, <1>3, <1>4 DEF Next, Loop, GoOn, Restart, Break, Boot, vars

(* Of Spec: when a warning has said "m Minutes until Server Shutdown Mode" *)
(* and the server has not stopped since, serverTime reports the shutdown   *)
(* mode after m minutes and not before.                                    *)
THEOREM WarningsAreTrue == Spec => []WarningsKeepTheirWord
<1>1. Init => Promised
  BY DEF Init, Promised
<1>2. TypeOK /\ Promised => WarningsKeepTheirWord
  BY DEF TypeOK, Promised, WarningsKeepTheirWord, shutdownMode
<1> QED
  BY <1>1, <1>2, PromisedKept, ScheduleTypeCorrect, PTL DEF Spec

----------------------------------------------------------------------------
(* The thread that asked for a restart is gone, and the process that comes *)
(* back is not up before the minute is over; what has been said is what    *)
(* the loop remembers.                                                     *)
Asked == /\ restarts \in {0, 1}
         /\ restarts = 1 => /\ minute = 59 /\ thread # "looping"
                            /\ process = "down" => downFor = 0
Said == /\ saidNow \in {0, 1}
        /\ saidNow = 1 => thread # "looping" \/ lastWarningMinute = timeUntilShutdownMode(Until)

LEMMA AskedKept ==
  ASSUME BootMinutes >= 1, TypeOK, Asked, [Next]_vars
  PROVE  Asked'
<1> USE DEF Asked, clock, service, history, Looks
<1>1. CASE Warn \/ GoOn \/ Break
  BY <1>1 DEF Warn, GoOn, Break
<1>2. CASE Restart
  <2>1. minute = 59 /\ restarts = 0 /\ process = "up"
    BY <1>2, TimesTyped DEF Restart, RestartDue
  <2> QED
    BY <1>2, <2>1 DEF Restart, Once
<1>3. CASE Tick
  BY <1>3 DEF Tick, TypeOK
<1>4. CASE Kill \/ Crash
  BY <1>4 DEF Kill, Crash, Stops
<1>5. CASE Boot
  BY <1>5, BootAssumption DEF Boot, TypeOK
<1>6. CASE UNCHANGED vars
  BY <1>6 DEF vars
<1> QED
  BY <1>1, <1>2, <1>3, <1>4, <1>5, <1>6 DEF Next, Loop

LEMMA SaidKept == Said /\ [Next]_vars => Said'
<1> SUFFICES ASSUME Said, [Next]_vars PROVE Said'
  OBVIOUS
<1> USE DEF Said, clock, service, history, Looks
<1>1. CASE Warn
  <2>1. Until' = Until /\ thread = "looping"
    BY <1>1 DEF Warn, Until
  <2>2. saidNow = 0 /\ lastWarningMinute' = timeUntilShutdownMode(Until)
    BY <1>1, <2>1 DEF Warn, WarningDue
  <2>3. saidNow' \in {0, 1}
    BY <1>1, <2>2 DEF Warn, Once
  <2> QED
    BY <2>1, <2>2, <2>3
<1>2. CASE GoOn \/ Restart \/ Break
  BY <1>2 DEF GoOn, Restart, Break, Until
<1>3. CASE Tick \/ Boot
  BY <1>3 DEF Tick, Boot
<1>4. CASE Kill \/ Crash
  BY <1>4 DEF Kill, Crash, Stops
<1>5. CASE UNCHANGED vars
  BY <1>5 DEF vars, Until
<1> QED
  BY <1>1, <1>2, <1>3, <1>4, <1>5 DEF Next, Loop

(* Of Spec: the server is asked to restart at most once in an hour, and    *)
(* at most one warning is said in a minute, however often the process      *)
(* stops, as long as it takes a minute or more to come back.               *)
THEOREM RestartIsAskedOnce ==
  ASSUME BootMinutes >= 1
  PROVE  Spec => []RestartsOnce
<1>1. Init => Asked /\ Said
  BY DEF Init, Asked, Said
<1>2. TypeOK /\ Asked /\ Said /\ [Next]_vars => Asked' /\ Said'
  BY AskedKept, SaidKept
<1>3. Asked /\ Said => RestartsOnce
  BY DEF Asked, Said, RestartsOnce
<1> QED
  BY <1>1, <1>2, <1>3, ScheduleTypeCorrect, PTL DEF Spec
================================================================================
