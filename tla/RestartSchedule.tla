--------------------------- MODULE RestartSchedule ---------------------------
(***************************************************************************)
(* Restarts over the days: the wall clock, the server process with the     *)
(* RCON thread in it, which announces and asks for restarts, and the       *)
(* service manager (FireDaemon, external) that stops the process and       *)
(* starts it again.  RconSession has the thread in full; here its loop is  *)
(* what it does with the time.                                             *)
(***************************************************************************)
EXTENDS RestartTimes

CONSTANT BootMinutes  \* external: the least minutes a boot takes

ASSUME BootAssumption == BootMinutes \in Nat

VARIABLES
  fireDeamonActive,      \* the setting of that name; off unless it is set
  hour, minute, looked,  \* the clock; the loop has read this minute
  process,               \* the server process
  downFor,               \* minutes since it stopped (up to BootMinutes)
  thread,                \* the RCON thread: in its loop, out of it by a
                         \* break, returned after restart(), or not there
  lastWarningMinute,
  requested,             \* FireDaemon has been asked to restart the service
  promise,    \* history: minutes to go until the shutdown mode begins, as
              \* the last warning has it; -1 when there was none or it is past
  saidNow,    \* history: warnings said in this minute (2 for more)
  restarts    \* history: restarts asked for in this hour (2 for more)

clock   == <<hour, minute, looked>>
service == <<process, downFor, requested, fireDeamonActive>>
history == <<promise, saidNow, restarts>>
vars    == <<clock, service, thread, lastWarningMinute, history>>

Once(n) == IF n = 0 THEN 1 ELSE 2

Init == /\ fireDeamonActive \in BOOLEAN
        /\ hour \in 0..23 /\ minute \in 0..59 /\ looked = FALSE
        /\ process = "up" /\ downFor = 0 /\ requested = FALSE
        /\ thread = "looping" /\ lastWarningMinute = -1
        /\ promise = -1 /\ saidNow = 0 /\ restarts = 0

Until == timeUntilRestart(hour, minute)

(* The top of Rcon::mainLoop, once around every five seconds. *)
Looks == /\ process = "up" /\ thread = "looping"
         /\ looked' = TRUE
         /\ UNCHANGED <<hour, minute>>

Warn == /\ Looks
        /\ WarningDue(Until, lastWarningMinute)
        /\ lastWarningMinute' = timeUntilShutdownMode(Until)
        /\ IF IsSaid(Until)
             THEN /\ promise' = timeUntilShutdownMode(Until)
                  /\ saidNow' = Once(saidNow)
             ELSE UNCHANGED <<promise, saidNow>>
        /\ UNCHANGED <<service, thread, restarts>>

GoOn == /\ Looks
        /\ ~RestartDue(Until) /\ ~WarningDue(Until, lastWarningMinute)
        /\ UNCHANGED <<service, thread, lastWarningMinute, history>>

(* Fault: until < 3. *)
RestartEarly == /\ Looks
                /\ Until < 3
                /\ thread' = "returned"
                /\ requested' = fireDeamonActive
                /\ restarts' = Once(restarts)
                /\ UNCHANGED <<process, downFor, fireDeamonActive,
                               lastWarningMinute, promise, saidNow>>

(* Fault: the thread returns without restart(). *)
RestartNot == /\ Looks
              /\ RestartDue(Until)
              /\ thread' = "returned"
              /\ UNCHANGED <<service, lastWarningMinute, history>>

(* Rcon::restart, which does nothing without FireDaemon; the thread        *)
(* returns all the same.                                                   *)
Restart == /\ Looks
           /\ RestartDue(Until)
           /\ thread' = "returned"
           /\ requested' = fireDeamonActive
           /\ restarts' = Once(restarts)
           /\ UNCHANGED <<process, downFor, fireDeamonActive,
                          lastWarningMinute, promise, saidNow>>

(* The loop is left by one of its breaks: the server has refused the       *)
(* password, or a datagram was refused or the socket failed, disconnect()  *)
(* took the run flag down, and a wait ended in vain.                       *)
Break == /\ process = "up" /\ thread = "looping"
         /\ thread' = "broken"
         /\ UNCHANGED <<clock, service, lastWarningMinute, history>>

(* A minute goes by.  The loop does not miss it. *)
Tick == /\ process = "up" /\ thread = "looping" => looked
        /\ minute' = (minute + 1) % 60
        /\ hour' = IF minute = 59 THEN (hour + 1) % 24 ELSE hour
        /\ looked' = FALSE
        /\ saidNow' = 0
        /\ promise' = IF promise = -1 THEN -1 ELSE promise - 1
        /\ restarts' = IF minute = 59 THEN 0 ELSE restarts
        /\ downFor' = IF process = "down" /\ downFor < BootMinutes
                        THEN downFor + 1 ELSE downFor
        /\ UNCHANGED <<process, requested, fireDeamonActive, thread,
                       lastWarningMinute>>

(* External: the process stops, asked for or not, and is started again.    *)
Stops == /\ process = "up"
         /\ process' = "down" /\ downFor' = 0
         /\ thread' = "none"
         /\ requested' = FALSE
         /\ promise' = -1
         /\ UNCHANGED <<clock, fireDeamonActive, lastWarningMinute, saidNow,
                        restarts>>

Kill == requested /\ Stops
Crash == ~requested /\ Stops

Boot == /\ process = "down" /\ downFor >= BootMinutes
        /\ process' = "up" /\ downFor' = 0
        /\ thread' = "looping" /\ lastWarningMinute' = -1
        /\ looked' = FALSE /\ saidNow' = 0
        /\ UNCHANGED <<hour, minute, requested, fireDeamonActive, promise,
                       restarts>>

Loop == Warn \/ GoOn \/ Restart
Next == Loop \/ Break \/ Tick \/ Kill \/ Crash \/ Boot

Spec == Init /\ [][Next]_vars

FairSpec == Spec /\ WF_vars(Loop) /\ WF_vars(Tick) /\ WF_vars(Kill) /\ WF_vars(Boot)

----------------------------------------------------------------------------
(* Properties. *)

TypeOK == /\ fireDeamonActive \in BOOLEAN
          /\ hour \in 0..23 /\ minute \in 0..59 /\ looked \in BOOLEAN
          /\ process \in {"up", "down"} /\ downFor \in 0..BootMinutes
          /\ thread \in {"looping", "broken", "returned", "none"}
          /\ lastWarningMinute \in -3..54
          /\ requested \in BOOLEAN
          /\ promise \in -1..54 /\ saidNow \in 0..2 /\ restarts \in 0..2

(* A warning keeps its word: if it says "m Minutes until Server Shutdown   *)
(* Mode", serverTime reports the shutdown mode m minutes later and not     *)
(* before.                                                                 *)
WarningsKeepTheirWord ==
  /\ promise > 0 => ~shutdownMode(hour, minute)
  /\ promise = 0 => shutdownMode(hour, minute)

(* The server is asked to restart at most once in an hour, although the    *)
(* process that comes back knows nothing of the restart; and one process   *)
(* says at most one warning in a minute.                                   *)
RestartsOnce == restarts <= 1 /\ saidNow <= 1

(* Every few hours the server is down, to come back fresh, for ever; there *)
(* are two ways out of it, and no third: the loop has been left by a       *)
(* break, which nothing in the process mends, or FireDaemon is off, when   *)
(* the first restart that is due ends the thread and nothing else.         *)
RestartedForEver ==
  \/ []<>(process = "down")
  \/ <>[](thread = "broken")
  \/ <>[](thread = "returned" /\ ~fireDeamonActive)
=============================================================================
