----------------------------- MODULE RconSession -----------------------------
(***************************************************************************)
(* The RCON session: the thread of Rcon.cpp that keeps a BattlEye RCON     *)
(* login to the game server alive over UDP, sends it the queued commands,  *)
(* announces the restart of the server and performs it.                    *)
(*                                                                         *)
(* The RCON thread runs Rcon::run.  A CALLER (the worker thread) locks and *)
(* unlocks the server; the game thread unloads the extension.  The game    *)
(* server at the other end of the socket is external: what it does is what *)
(* Rcon.cpp expects of it.                                                 *)
(*                                                                         *)
(* Time passes in the receive, which waits for five seconds: a tick is     *)
(* five seconds.  A datagram is delivered or lost well within a tick.      *)
(***************************************************************************)
EXTENDS RestartTimes, Sequences

CONSTANTS MaxCalls,    \* bound on lock and unlock calls and on kicks
          MaxLost,     \* bound on the datagrams lost
          MaxStall,    \* ticks by which a five-second wait may be late
          FirstMinute, \* minutes until the restart when the thread starts
          MayRefuse    \* the thread may start before the server's port is open

ASSUME BoundsAssumption == /\ MaxCalls \in Nat /\ MaxLost \in Nat
                           /\ MaxStall \in Nat /\ MayRefuse \in BOOLEAN
ASSUME MinuteAssumption == FirstMinute \in 1..61

VARIABLES
  run_flag, login_flag, locked,  \* the atomics
  rcon_commands,     \* the commands queued
  rcon_timer,        \* ticks since the stopwatch was restarted
  lastWarningMinute,
  packet_cmd,        \* what rcon_packet.cmd points to
  password,          \* the memory of rcon_login.password
  lpc,               \* the RCON thread
  cpc, want,         \* the caller: its position, lock (TRUE) or unlock
  unload,            \* the game thread in BreakingPointExt::Shutdown: joining
                     \* the thread, done with it, or in a process that exits
  toServer, toClient, refused,   \* the socket
  up, session, quiet, server_locked, \* the server: port open, client logged
                     \* in, ticks since it heard from it, joining forbidden
  until, looked,     \* timeUntilRestart(), and whether it was read since
  issued, executed,  \* history: commands queued; those the server executed
  ignored,           \* history: the server ignored a command
  lost, restarted,   \* history: datagrams lost; restart() was called
  late               \* history: the wait that led here was fifteen seconds
                     \* late or more

flags   == <<run_flag, login_flag, locked>>
packet  == <<packet_cmd, password>>
local   == <<rcon_timer, lastWarningMinute, packet>>
caller  == <<cpc, want>>
server  == <<up, session, quiet, server_locked, executed, ignored>>
clock   == <<until, looked>>
wires   == <<toServer, toClient, refused, lost>>
vars    == <<flags, rcon_commands, local, lpc, caller, unload, wires, server,
             clock, issued, restarted, late>>

----------------------------------------------------------------------------
(* Data. *)

(* The n-th command queued. *)
Command(n, what) == [n |-> n, what |-> what]
Texts == {"lock", "unlock", "kick", "shutdown warning", "restarting now"}

Sent(kind) == [kind |-> kind, cmd |-> Command(0, ""), intact |-> TRUE]
LoginPacket(intact) == [Sent("login") EXCEPT !.intact = intact]
CommandPacket(c) == [Sent("command") EXCEPT !.cmd = c]
CommandPackets(cs) == [i \in DOMAIN cs |-> CommandPacket(cs[i])]

Replies == {"logged in", "login failed", "ack", "player verified", "chat"}

Seconds(ticks) == 5 * ticks
ServerPatience == 45   \* external: a client not heard from is forgotten
Cap == 9
Later(ticks, k) == IF ticks + k > Cap THEN Cap ELSE ticks + k

LoopStates == {"connect", "login", "loop", "receive", "flush", "timeout",
               "timeoutFlush", "ended"}

Init ==
  /\ run_flag = FALSE /\ login_flag = FALSE /\ locked = FALSE
  /\ rcon_commands = <<>>
  /\ rcon_timer = 0 /\ lastWarningMinute = -1
  /\ packet_cmd = "nothing" /\ password = "intact"
  /\ lpc = "connect"
  /\ cpc = "idle" /\ want = FALSE
  /\ unload = "no"
  /\ toServer = <<>> /\ toClient = <<>> /\ refused = FALSE
  /\ up \in {TRUE, ~MayRefuse}
  /\ session = FALSE /\ quiet = 0 /\ server_locked = FALSE
  /\ until = FirstMinute /\ looked = FALSE
  /\ issued = 0 /\ executed = <<>> /\ ignored = FALSE
  /\ lost = 0 /\ restarted = FALSE /\ late = FALSE

----------------------------------------------------------------------------
(* The RCON thread. *)

(* A process that exits has killed the threads, and the server is in it.   *)
Alive == unload # "exited"

LoopGoes(here, there) == /\ Alive /\ lpc = here /\ lpc' = there
                         /\ UNCHANGED <<caller, unload, up, session, quiet,
                                        server_locked, executed, ignored,
                                        until, lost>>
                         /\ late' = (late /\ there \in {"connect", "login"})

(* addCommand: a command is queued only while the run flag is up. *)
addCommand(what) ==
  IF run_flag
    THEN /\ rcon_commands' = Append(rcon_commands, Command(issued + 1, what))
         /\ issued' = issued + 1
    ELSE UNCHANGED <<rcon_commands, issued>>

Connect == /\ LoopGoes("connect", "login")
           /\ login_flag' = FALSE
           /\ run_flag' = TRUE
           /\ UNCHANGED <<locked, rcon_commands, local, toServer, toClient,
                          refused, looked, issued, restarted>>

(* Once the memory of the password has been freed it may hold anything.    *)
(* The stopwatch is started, not restarted: it goes on if it was running.  *)
Login == /\ LoopGoes("login", "loop")
         /\ locked' = FALSE
         /\ packet_cmd' = "password"
         /\ \E intact \in IF password = "intact" THEN {TRUE} ELSE BOOLEAN :
              toServer' = Append(toServer, LoginPacket(intact))
         /\ UNCHANGED <<run_flag, login_flag, rcon_commands, rcon_timer,
                        lastWarningMinute, password, toClient, refused, looked,
                        issued, restarted>>

(* The top of the loop: announce the restart, or restart and end. *)
Warn ==
  /\ LoopGoes("loop", "receive")
  /\ ~RestartDue(until)
  /\ looked' = TRUE
  /\ IF WarningDue(until, lastWarningMinute)
       THEN /\ lastWarningMinute' = timeUntilShutdownMode(until)
            /\ IF IsSaid(until) THEN addCommand("shutdown warning")
                               ELSE UNCHANGED <<rcon_commands, issued>>
       ELSE UNCHANGED <<lastWarningMinute, rcon_commands, issued>>
  /\ UNCHANGED <<flags, rcon_timer, packet, toServer, toClient, refused,
                 restarted>>

Restart == /\ LoopGoes("loop", "ended")
           /\ RestartDue(until)
           /\ looked' = TRUE
           /\ addCommand("restarting now")
           /\ restarted' = TRUE
           /\ UNCHANGED <<flags, local, toServer, toClient, refused>>

(* A datagram arrives. *)
Received(there) == /\ LoopGoes("receive", there)
                   /\ toClient # <<>>
                   /\ toClient' = Tail(toClient)
                   /\ UNCHANGED <<refused, looked, lastWarningMinute, packet,
                                  restarted>>

LoggedIn == /\ toClient # <<>> /\ Head(toClient) = "logged in"
            /\ Received("flush")
            /\ login_flag' = TRUE
            /\ rcon_timer' = 0
            /\ UNCHANGED <<run_flag, locked, rcon_commands, toServer, issued>>

(* Fault: the thread breaks without disconnect(). *)
LoginFailedNoDisconnect ==
  /\ toClient # <<>> /\ Head(toClient) = "login failed"
  /\ Received("ended")
  /\ login_flag' = FALSE
  /\ UNCHANGED <<run_flag, locked, rcon_commands, rcon_timer, toServer, issued>>

LoginFailed == /\ toClient # <<>> /\ Head(toClient) = "login failed"
               /\ Received("ended")
               /\ login_flag' = FALSE
               /\ run_flag' = FALSE
               /\ UNCHANGED <<locked, rcon_commands, rcon_timer, toServer, issued>>

Acked == /\ toClient # <<>> /\ Head(toClient) = "ack"
         /\ Received("flush")
         /\ rcon_timer' = IF login_flag THEN 0 ELSE rcon_timer
         /\ UNCHANGED <<flags, rcon_commands, toServer, issued>>

(* A message of the server, while logged in it is acknowledged and handled *)
(* by msgRecieved, which kicks who joins a locked server.  Without a login *)
(* it counts as one, and is not looked at.                                 *)
Message(m) ==
  /\ toClient # <<>> /\ Head(toClient) = m
  /\ m \in {"player verified", "chat"}
  /\ Received("flush")
  /\ login_flag' = TRUE
  /\ IF login_flag
       THEN /\ toServer' = Append(toServer, Sent("message ack"))
            /\ rcon_timer' = 0
            /\ IF m = "player verified" /\ locked
                 THEN addCommand("kick")
                 ELSE UNCHANGED <<rcon_commands, issued>>
       ELSE UNCHANGED <<toServer, rcon_timer, rcon_commands, issued>>
  /\ UNCHANGED <<run_flag, locked>>

(* Fault: the commands are not cleared. *)
SendCommandsKeep ==
  /\ toServer' = toServer \o CommandPackets(rcon_commands)
  /\ IF rcon_commands # <<>>
       THEN /\ password' = IF packet_cmd = "password" THEN "freed" ELSE password
            /\ packet_cmd' = "command"
       ELSE UNCHANGED packet
  /\ UNCHANGED rcon_commands

(* Sending a command deletes what rcon_packet.cmd points to: after a login *)
(* that is the password.                                                   *)
SendCommands ==
  /\ toServer' = toServer \o CommandPackets(rcon_commands)
  /\ IF rcon_commands # <<>>
       THEN /\ password' = IF packet_cmd = "password" THEN "freed" ELSE password
            /\ packet_cmd' = "command"
       ELSE UNCHANGED packet
  /\ rcon_commands' = <<>>

Flush ==
  /\ \/ /\ login_flag
        /\ LoopGoes("flush", IF run_flag THEN "loop" ELSE "ended")
        /\ SendCommands
     \/ /\ ~login_flag
        /\ LoopGoes("flush", IF ~run_flag /\ rcon_commands = <<>>
                               THEN "ended" ELSE "loop")
        /\ UNCHANGED <<toServer, packet, rcon_commands>>
  /\ UNCHANGED <<flags, rcon_timer, lastWarningMinute, toClient, refused, looked,
                 issued, restarted>>

(* Nothing arrives for five seconds, or for as long as the thread is kept  *)
(* from running.  The server forgets a client it has not heard from.       *)
Wait(k) ==
  /\ Alive /\ lpc = "receive" /\ lpc' = "timeout"
  /\ toClient = <<>> /\ toServer = <<>> /\ ~refused
  /\ rcon_timer' = Later(rcon_timer, k)
  /\ quiet' = IF session THEN Later(quiet, k) ELSE 0
  /\ session' = (session /\ Seconds(quiet') < ServerPatience)
  /\ late' = (k > 3)
  /\ UNCHANGED <<flags, rcon_commands, lastWarningMinute, packet, caller, unload,
                 wires, up, server_locked, executed, ignored, clock, issued,
                 restarted>>

(* Fault: the run flag counts only after a login. *)
TimeoutStopLoggedIn ==
  /\ LoopGoes("timeout", IF login_flag THEN "ended" ELSE "loop")
  /\ ~run_flag
  /\ UNCHANGED <<flags, rcon_commands, local, toServer, toClient, refused,
                 looked, issued, restarted>>

TimeoutStop == /\ LoopGoes("timeout", "ended")
               /\ ~run_flag
               /\ UNCHANGED <<flags, rcon_commands, local, toServer, toClient,
                              refused, looked, issued, restarted>>

Reconnect == /\ LoopGoes("timeout", "connect")
             /\ run_flag
             /\ Seconds(rcon_timer) >= 45
             /\ rcon_timer' = 0
             /\ UNCHANGED <<flags, rcon_commands, lastWarningMinute, packet,
                            toServer, toClient, refused, looked, issued,
                            restarted>>

(* Fault: the stopwatch is not restarted. *)
KeepAliveNoRestart ==
  /\ LoopGoes("timeout", "loop")
  /\ run_flag
  /\ Seconds(rcon_timer) >= 30 /\ Seconds(rcon_timer) < 45
  /\ toServer' = Append(toServer, Sent("keep alive"))
  /\ UNCHANGED <<flags, rcon_commands, local, toClient, refused, looked, issued,
                 restarted>>

(* Fault: the packet is not sent. *)
KeepAliveNotSent ==
  /\ LoopGoes("timeout", "loop")
  /\ run_flag
  /\ Seconds(rcon_timer) >= 30 /\ Seconds(rcon_timer) < 45
  /\ rcon_timer' = 0
  /\ UNCHANGED <<flags, rcon_commands, lastWarningMinute, packet, toServer,
                 toClient, refused, looked, issued, restarted>>

KeepAlive == /\ LoopGoes("timeout", "loop")
             /\ run_flag
             /\ Seconds(rcon_timer) >= 30 /\ Seconds(rcon_timer) < 45
             /\ rcon_timer' = 0
             /\ toServer' = Append(toServer, Sent("keep alive"))
             /\ UNCHANGED <<flags, rcon_commands, lastWarningMinute, packet,
                            toClient, refused, looked, issued, restarted>>

TimeoutGoesOn == /\ LoopGoes("timeout", "timeoutFlush")
                 /\ run_flag
                 /\ Seconds(rcon_timer) < 30
                 /\ UNCHANGED <<flags, rcon_commands, local, toServer, toClient,
                                refused, looked, issued, restarted>>

(* Fault: only after a login. *)
TimeoutFlushLoggedIn ==
  /\ LoopGoes("timeoutFlush", "loop")
  /\ IF run_flag /\ login_flag
       THEN SendCommands
       ELSE UNCHANGED <<toServer, packet, rcon_commands>>
  /\ UNCHANGED <<flags, rcon_timer, lastWarningMinute, toClient, refused, looked,
                 issued, restarted>>

(* The commands go out although the login has not been answered. *)
TimeoutFlush == /\ LoopGoes("timeoutFlush", "loop")
                /\ IF run_flag THEN SendCommands
                               ELSE UNCHANGED <<toServer, packet, rcon_commands>>
                /\ UNCHANGED <<flags, rcon_timer, lastWarningMinute, toClient,
                               refused, looked, issued, restarted>>

(* The receive throws: the port at the other end is closed. *)
Refused == /\ LoopGoes("receive", "loop")
           /\ refused
           /\ refused' = FALSE
           /\ run_flag' = FALSE
           /\ UNCHANGED <<login_flag, locked, rcon_commands, local, toServer,
                          toClient, looked, issued, restarted>>

LoopStep == \/ Connect \/ Login \/ Warn \/ Restart
            \/ LoggedIn \/ LoginFailed \/ Acked
            \/ Message("player verified") \/ Message("chat")
            \/ Flush \/ TimeoutStop \/ Reconnect \/ KeepAlive
            \/ TimeoutGoesOn \/ TimeoutFlush \/ Refused
            \/ \E k \in 1..(1 + MaxStall) : Wait(k)

----------------------------------------------------------------------------
(* The caller: Rcon::lock and Rcon::unlock, the command and then the flag. *)

Calls(here, there) == /\ Alive /\ cpc = here /\ cpc' = there
                      /\ UNCHANGED <<run_flag, login_flag, local, lpc, unload,
                                     wires, server, clock, restarted, late>>

CallLock(v) == /\ issued < MaxCalls
               /\ Calls("idle", IF run_flag THEN "push" ELSE "flag")
               /\ want' = v
               /\ UNCHANGED <<locked, rcon_commands, issued>>

CallPush == /\ Calls("push", "flag")
            /\ rcon_commands' = Append(rcon_commands,
                 Command(issued + 1, IF want THEN "lock" ELSE "unlock"))
            /\ issued' = issued + 1
            /\ UNCHANGED <<locked, want>>

CallFlag == /\ Calls("flag", "idle")
            /\ locked' = want
            /\ want' = FALSE
            /\ UNCHANGED <<rcon_commands, issued>>

(* BreakingPointExt::Shutdown disconnects, whatever the caller is doing,   *)
(* and joins the RCON thread.  The game thread is in DllMain and holds the *)
(* lock of the loader, which a thread needs to end: the join returns only  *)
(* from a thread that has ended before.                                    *)
Unloads(there) == /\ unload = "no" /\ unload' = there
                  /\ run_flag' = FALSE
                  /\ UNCHANGED <<login_flag, locked, rcon_commands, local, lpc,
                                 caller, wires, server, clock, issued,
                                 restarted, late>>

Disconnect == Unloads(IF lpc = "ended" THEN "done" ELSE "joining")

(* Shutdown at the exit of the process: the threads have been killed. *)
ExitProcess == Unloads("exited")

----------------------------------------------------------------------------
(* External: the server and the wires. *)

Elsewhere == /\ Alive
             /\ UNCHANGED <<flags, rcon_commands, local, lpc, caller, unload,
                            clock, issued, restarted, late>>

PortOpens == /\ ~up /\ up' = TRUE
             /\ UNCHANGED <<session, quiet, server_locked, executed, ignored,
                            wires>>
             /\ Elsewhere

ServerReceives ==
  /\ toServer # <<>> /\ toServer' = Tail(toServer)
  /\ UNCHANGED <<up, lost>>
  /\ Elsewhere
  /\ LET p == Head(toServer)
         Answers(reply) == toClient' = Append(toClient, reply)
     IN \/ /\ ~up
           /\ refused' = TRUE
           /\ UNCHANGED <<session, quiet, server_locked, executed, ignored,
                          toClient>>
        \/ /\ up /\ p.kind = "login"
           /\ session' = (session \/ p.intact)
           /\ quiet' = 0
           /\ Answers(IF p.intact THEN "logged in" ELSE "login failed")
           /\ UNCHANGED <<server_locked, executed, ignored, refused>>
        \/ /\ up /\ p.kind = "command" /\ session
           /\ quiet' = 0
           /\ executed' = Append(executed, p.cmd)
           /\ server_locked' = CASE p.cmd.what = "lock" -> TRUE
                                 [] p.cmd.what = "unlock" -> FALSE
                                 [] OTHER -> server_locked
           /\ Answers("ack")
           /\ UNCHANGED <<session, ignored, refused>>
        \/ /\ up /\ p.kind = "keep alive" /\ session
           /\ quiet' = 0
           /\ Answers("ack")
           /\ UNCHANGED <<session, server_locked, executed, ignored, refused>>
        \/ /\ up /\ p.kind = "message ack" /\ session
           /\ quiet' = 0
           /\ UNCHANGED <<session, server_locked, executed, ignored, toClient,
                          refused>>
        \/ /\ up /\ p.kind # "login" /\ ~session
           /\ ignored' = (ignored \/ p.kind = "command")
           /\ UNCHANGED <<session, quiet, server_locked, executed, toClient,
                          refused>>

ServerSays(m) ==
  /\ up /\ session /\ toClient = <<>> /\ toServer = <<>>
  /\ m = "player verified" => issued < MaxCalls
  /\ toClient' = <<m>>
  /\ UNCHANGED <<toServer, refused, lost, server>>
  /\ Elsewhere

Lose == /\ lost < MaxLost /\ lost' = lost + 1
        /\ \/ /\ toServer # <<>> /\ toServer' = Tail(toServer)
              /\ UNCHANGED toClient
           \/ /\ toClient # <<>> /\ toClient' = Tail(toClient)
              /\ UNCHANGED toServer
        /\ UNCHANGED <<refused, server>>
        /\ Elsewhere

(* The loop turns every five seconds, so it looks at every minute. *)
NextMinute == /\ Alive
              /\ until \in 2..60 /\ (looked \/ lpc = "ended")
              /\ until' = until - 1
              /\ looked' = FALSE
              /\ UNCHANGED <<flags, rcon_commands, local, lpc, caller, unload,
                             wires, server, issued, restarted, late>>

(* Nothing need go on once the extension is unloaded, or has left its loop *)
(* while it is, or the server restarts.                                    *)
Terminated == /\ \/ unload # "no" /\ (lpc = "ended" \/ ~Alive)
                 \/ restarted
              /\ UNCHANGED vars

Next == \/ LoopStep
        \/ \E v \in BOOLEAN : CallLock(v)
        \/ CallPush \/ CallFlag \/ Disconnect \/ ExitProcess
        \/ PortOpens \/ ServerReceives \/ Lose \/ NextMinute
        \/ \E m \in {"player verified", "chat"} : ServerSays(m)
        \/ Terminated

Spec == Init /\ [][Next]_vars

(* The thread runs and datagrams travel.  The clock owes nothing: what     *)
(* must happen may not wait for the restart that ends everything.          *)
Fairness == WF_vars(LoopStep) /\ WF_vars(ServerReceives)

FairSpec == Spec /\ Fairness

----------------------------------------------------------------------------
(* Properties. *)

Commands == [n : Nat, what : Texts \cup {""}]
Packets  == [kind : {"login", "command", "keep alive", "message ack"},
             cmd : Commands, intact : BOOLEAN]

TypeOK ==
  /\ run_flag \in BOOLEAN /\ login_flag \in BOOLEAN /\ locked \in BOOLEAN
  /\ rcon_commands \in Seq(Commands)
  /\ rcon_timer \in 0..Cap /\ lastWarningMinute \in -3..54
  /\ packet_cmd \in {"nothing", "password", "command"}
  /\ password \in {"intact", "freed"}
  /\ lpc \in LoopStates
  /\ cpc \in {"idle", "push", "flag"} /\ want \in BOOLEAN
  /\ unload \in {"no", "joining", "done", "exited"}
  /\ toServer \in Seq(Packets) /\ toClient \in Seq(Replies) /\ refused \in BOOLEAN
  /\ up \in BOOLEAN /\ session \in BOOLEAN /\ quiet \in 0..Cap
  /\ server_locked \in BOOLEAN
  /\ until \in 1..61 /\ looked \in BOOLEAN
  /\ issued \in Nat /\ executed \in Seq(Commands)
  /\ ignored \in BOOLEAN /\ lost \in 0..MaxLost
  /\ restarted \in BOOLEAN /\ late \in BOOLEAN

(* The server executes each command at most once, and commands in the      *)
(* order in which they were queued, whoever queued them and whichever of   *)
(* the two places of the loop sent them.                                   *)
ExecutedOnceInOrder ==
  \A i, j \in DOMAIN executed : i < j => executed[i].n < executed[j].n

Numbers(cs) == {cs[i].n : i \in 1..Len(cs)}
OnTheWire(ps) == {ps[i].cmd.n : i \in {k \in 1..Len(ps) : ps[k].kind = "command"}}

(* As long as no datagram is lost no command is: each that was ever queued *)
(* has been executed by the server, is on its way to it, or is queued      *)
(* still.  None is cleared without being sent, none sent before the login  *)
(* or after the server has forgotten the client, and none meets a closed   *)
(* port.                                                                   *)
CommandsHeard ==
  lost = 0 => 1..issued \subseteq Numbers(executed) \cup OnTheWire(toServer)
                                   \cup Numbers(rcon_commands)

(* What is queued goes out, with or without a login, unless the thread     *)
(* ends.  (It does when it restarts the server, and then its last words,   *)
(* "Server is restarting now.", stay in the queue; when its login failed;  *)
(* and when the run flag is down.)                                         *)
QueueGoesOut == rcon_commands # <<>> ~> rcon_commands = <<>> \/ lpc = "ended" \/ ~Alive

(* A login carries the configured password, and not what the first command *)
(* left of its memory: the keep alive at 30 seconds restarts the stopwatch *)
(* before it reaches the 45 of a second login, unless a wait of five       *)
(* seconds ends fifteen seconds late.                                      *)
PasswordIntact == lpc = "login" /\ ~late => password = "intact"

(* The RCON thread does not end while its run flag is up, other than by    *)
(* restarting the server, and in the last minute it restarts the server,   *)
(* whatever the state of the login.                                        *)
RestartComes == until = 1 ~> restarted \/ ~run_flag

(* A thread that is told to stop leaves its loop, whether or not it is     *)
(* logged in, unless connect() came after disconnect() and raised the flag *)
(* again.                                                                  *)
StopHeard == unload = "joining" ~> lpc = "ended" \/ run_flag

(* Rcon.cpp:315, "Don't Let People Join If Server Is Locked": between calls *)
(* to lock and unlock, and with nothing lost or under way, the flag that   *)
(* msgRecieved looks at says what the server does.                         *)
LockCommands(cs) == {i \in DOMAIN cs : cs[i].what \in {"lock", "unlock"}}
LockAgrees ==
  /\ run_flag /\ session /\ lost = 0 /\ ~ignored /\ cpc = "idle"
  /\ LockCommands(rcon_commands) = {}
  /\ LockCommands([i \in DOMAIN toServer |-> toServer[i].cmd]) = {}
  => locked = server_locked
=============================================================================
