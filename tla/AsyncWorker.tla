----------------------------- MODULE AsyncWorker -----------------------------
(***************************************************************************)
(* The asynchronous call path of the extension: AsyncWorker.cpp with the   *)
(* entry points of Main.cpp that drive it.                                 *)
(*                                                                         *)
(* Two threads share the state.  The GAME thread is the thread of the Arma *)
(* server on which every RVExtension call is made, one at a time; it also  *)
(* unloads the DLL.  The WORKER thread runs AsyncWorker::run.              *)
(*                                                                         *)
(* gpc and wpc say how far each thread is; a thread stops wherever it      *)
(* takes or releases the mutex or looks at memory the other thread writes. *)
(* The two ReaderWriterQueues are sequences here.  The worker is their one *)
(* consumer, so what its peek sees its try_dequeue gets: the two are one   *)
(* step.                                                                   *)
(***************************************************************************)
EXTENDS Naturals, Sequences

CONSTANTS Calls,      \* the calls a mission script can submit
          NoCall,     \* the empty string
          MaxTicket,  \* bound on the number of tickets created
          MaxQueue    \* bound on the length of each command queue

ASSUME CallsAssumption == NoCall \notin Calls
ASSUME BoundsAssumption == MaxTicket \in Nat /\ MaxQueue \in Nat

VARIABLES
  run_flag,       \* *thread_run_flag
  commands,       \* high-priority commands, oldest first
  low_commands,   \* low-priority commands, oldest first
  mutex,          \* the thread that holds the mutex, or Nobody
  tickets,        \* the map from ticket number to WorkerData
  id,             \* the last ticket number given out
  cur_id,         \* the last ticket number the worker has taken up
  worker_working, \* the first RVExtension call has been made
  wpc, command, ticket,      \* the worker, and its locals
  gpc, cmd, num,             \* the game thread, and the argument of its call
  output,         \* what the last RVExtension call left in its output buffer
  asked,          \* history: asked[n] is the call ticket n was created for
  ran,            \* history: the calls the worker has run for tickets
  overtaken       \* history: low-priority commands started since urgent work
                  \* has been waiting without a break (2 for two or more)

queues  == <<commands, low_commands>>
locals  == <<command, ticket>>
worker  == <<wpc, locals>>
args    == <<cmd, num>>
game    == <<worker_working, gpc, args, output>>
history == <<asked, ran, overtaken>>
shared  == <<run_flag, queues, mutex, tickets, id, cur_id>>
vars    == <<shared, worker, game, history>>

----------------------------------------------------------------------------
(* Data. *)

Nobody == "nobody"

(* A std::string: the text of call c, or the result of running it. *)
Text(c) == [call |-> c, run |-> FALSE]
callExtension(data) == [data EXCEPT !.run = TRUE]
Strings == [call : Calls \cup {NoCall}, run : BOOLEAN]

WorkerData == [ready : BOOLEAN, data : Strings]
NewWorkerData == [ready |-> FALSE, data |-> Text(NoCall)]

(* operator[] of std::unordered_map creates a missing entry, insert keeps  *)
(* an entry that exists.                                                   *)
At(n) == IF n \in DOMAIN tickets THEN tickets[n] ELSE NewWorkerData
InsertedAt(n, d) == [m \in DOMAIN tickets \cup {n} |->
                       IF m \in DOMAIN tickets THEN tickets[m] ELSE d]
TouchedAt(n) == InsertedAt(n, NewWorkerData)
AssignedAt(n, d) == [m \in DOMAIN tickets \cup {n} |->
                       IF m = n THEN d ELSE tickets[m]]
ErasedAt(n) == [m \in DOMAIN tickets \ {n} |-> tickets[m]]

Numbers == 0..(MaxTicket + 1)
Outputs == [kind : {"none", "ticket", "EMPTY", "WAIT", "result", "direct",
                    "INVALID COMMAND"}, n : Nat, data : Strings]
Reply(kind, n, data) == [kind |-> kind, n |-> n, data |-> data]
Word(kind, n) == Reply(kind, n, Text(NoCall))
NoOutput == Word("none", 0)

(* Work that goes before low-priority commands. *)
Urgent(high, taken) == high # <<>> \/ id > taken

WorkerStates == {"off", "start", "loop", "peek", "command", "checkId",
  "tryLock", "fetch", "process", "lock", "saveReady", "saveData",
  "peekAgain", "checkIdAgain", "lowPeek", "lowCommand", "stopped"}
GameStates == {"idle", "createLock", "createInsert", "ready", "resultLock",
  "resultTake", "direct", "rconJoin", "join", "deleted", "exited"}

Init ==
  /\ run_flag = FALSE
  /\ commands = <<>> /\ low_commands = <<>>
  /\ mutex = Nobody
  /\ tickets = <<>> /\ id = 0 /\ cur_id = 0
  /\ worker_working = FALSE
  /\ wpc = "off" /\ command = NoCall /\ ticket = NewWorkerData
  /\ gpc = "idle" /\ cmd = NoCall /\ num = 0 /\ output = NoOutput
  /\ asked = <<>> /\ ran = <<>> /\ overtaken = 0

----------------------------------------------------------------------------
(* The worker thread: AsyncWorker::run. *)

WorkerGoes(here, there) == /\ wpc = here /\ gpc # "exited"
                           /\ wpc' = there /\ UNCHANGED game

Start == /\ WorkerGoes("start", "loop")
         /\ run_flag' = TRUE
         /\ UNCHANGED <<queues, mutex, tickets, id, cur_id, locals, history>>

(* Fault: while (true). *)
LoopForever == /\ WorkerGoes("loop", "peek")
               /\ UNCHANGED <<shared, locals, history>>

Loop == /\ WorkerGoes("loop", IF run_flag THEN "peek" ELSE "stopped")
        /\ UNCHANGED <<shared, locals, history>>

Peek == \/ /\ commands # <<>>
           /\ WorkerGoes("peek", "command")
           /\ command' = Head(commands)
           /\ commands' = Tail(commands)
           /\ overtaken' = IF Urgent(Tail(commands), cur_id) THEN overtaken ELSE 0
           /\ UNCHANGED <<run_flag, low_commands, mutex, tickets, id, cur_id,
                          ticket, asked, ran>>
        \/ /\ commands = <<>>
           /\ WorkerGoes("peek", "checkId")
           /\ UNCHANGED <<shared, locals, history>>

(* callExtension(command) returns.  The string is not read again before it *)
(* is next assigned.                                                       *)
RunCommand == /\ \/ WorkerGoes("command", "loop")
                 \/ WorkerGoes("lowCommand", "loop")
              /\ command' = NoCall
              /\ UNCHANGED <<shared, ticket, history>>

(* Fault: the newest ticket is left for the next one to push along. *)
CheckIdStrict ==
  /\ WorkerGoes("checkId", IF id > cur_id + 1 THEN "tryLock" ELSE "peekAgain")
  /\ UNCHANGED <<shared, locals, history>>

CheckId == /\ WorkerGoes("checkId", IF id > cur_id THEN "tryLock" ELSE "peekAgain")
           /\ UNCHANGED <<shared, locals, history>>

TryLock == /\ \/ /\ mutex = Nobody
                 /\ WorkerGoes("tryLock", "fetch")
                 /\ mutex' = "worker"
              \/ /\ mutex # Nobody
                 /\ WorkerGoes("tryLock", "peekAgain")
                 /\ UNCHANGED mutex
           /\ UNCHANGED <<run_flag, queues, tickets, id, cur_id, locals, history>>

(* Fault: tickets[cur_id++]. *)
FetchPostIncrement == /\ WorkerGoes("fetch", "process")
                      /\ cur_id' = cur_id + 1
                      /\ ticket' = At(cur_id)
                      /\ tickets' = TouchedAt(cur_id)
                      /\ mutex' = Nobody
                      /\ overtaken' = overtaken
                      /\ UNCHANGED <<run_flag, queues, id, command, asked, ran>>

Fetch == /\ WorkerGoes("fetch", "process")
         /\ cur_id' = cur_id + 1
         /\ ticket' = At(cur_id + 1)
         /\ tickets' = TouchedAt(cur_id + 1)
         /\ mutex' = Nobody
         /\ overtaken' = IF Urgent(commands, cur_id + 1) THEN overtaken ELSE 0
         /\ UNCHANGED <<run_flag, queues, id, command, asked, ran>>

Process == /\ WorkerGoes("process", "lock")
           /\ ticket' = [ready |-> TRUE, data |-> callExtension(ticket.data)]
           /\ ran' = Append(ran, ticket.data.call)
           /\ UNCHANGED <<shared, command, asked, overtaken>>

Lock == /\ mutex = Nobody
        /\ WorkerGoes("lock", "saveReady")
        /\ mutex' = "worker"
        /\ UNCHANGED <<run_flag, queues, tickets, id, cur_id, locals, history>>

(* The assignment copies the members in their order, ready and then data,  *)
(* and ticketReady, which takes no lock, may look in between.              *)
SaveReady == /\ WorkerGoes("saveReady", "saveData")
             /\ tickets' = AssignedAt(cur_id,
                             [At(cur_id) EXCEPT !.ready = ticket.ready])
             /\ UNCHANGED <<run_flag, queues, mutex, id, cur_id, locals, history>>

(* Fault: the unlock is forgotten. *)
SaveDataLocked == /\ WorkerGoes("saveData", "loop")
                  /\ tickets' = AssignedAt(cur_id,
                                  [At(cur_id) EXCEPT !.data = ticket.data])
                  /\ ticket' = NewWorkerData
                  /\ UNCHANGED <<run_flag, queues, mutex, id, cur_id, command, history>>

SaveData == /\ WorkerGoes("saveData", "loop")
            /\ tickets' = AssignedAt(cur_id,
                            [At(cur_id) EXCEPT !.data = ticket.data])
            /\ mutex' = Nobody
            /\ ticket' = NewWorkerData
            /\ UNCHANGED <<run_flag, queues, id, cur_id, command, history>>

PeekAgain == /\ WorkerGoes("peekAgain",
                           IF commands = <<>> THEN "checkIdAgain" ELSE "loop")
             /\ UNCHANGED <<shared, locals, history>>

(* Fault: only the command queue is checked again, not the tickets. *)
CheckIdAgainNot == /\ WorkerGoes("checkIdAgain", "lowPeek")
                   /\ UNCHANGED <<shared, locals, history>>

CheckIdAgain == /\ WorkerGoes("checkIdAgain",
                              IF id <= cur_id THEN "lowPeek" ELSE "loop")
                /\ UNCHANGED <<shared, locals, history>>

(* When there is nothing at all to do the worker sleeps, and goes on.      *)
LowPeek == \/ /\ low_commands # <<>>
              /\ WorkerGoes("lowPeek", "lowCommand")
              /\ command' = Head(low_commands)
              /\ low_commands' = Tail(low_commands)
              /\ overtaken' = IF ~Urgent(commands, cur_id) THEN 0
                              ELSE IF overtaken = 0 THEN 1 ELSE 2
              /\ UNCHANGED <<run_flag, commands, mutex, tickets, id, cur_id,
                             ticket, asked, ran>>
           \/ /\ low_commands = <<>>
              /\ WorkerGoes("lowPeek", "loop")
              /\ UNCHANGED <<shared, locals, history>>

WorkerStep == \/ Start \/ Loop \/ Peek \/ RunCommand
              \/ CheckId \/ TryLock \/ Fetch \/ Process
              \/ Lock \/ SaveReady \/ SaveData
              \/ PeekAgain \/ CheckIdAgain \/ LowPeek

----------------------------------------------------------------------------
(* The game thread: RVExtension, then ExtShutdown. *)

GameGoes(here, there) == gpc = here /\ gpc' = there /\ UNCHANGED worker_working

(* A new RVExtension call.  The first one starts the worker thread. *)
NewCall(there) == /\ worker_working /\ GameGoes("idle", there)
                  /\ UNCHANGED <<worker, history>>

InitThreads == /\ gpc = "idle" /\ ~worker_working
               /\ worker_working' = TRUE
               /\ wpc' = "start"
               /\ UNCHANGED <<shared, locals, gpc, args, output, history>>

(* "a:" and "z:" *)
ExecuteHigh(c) == /\ NewCall("idle")
                  /\ Len(commands) < MaxQueue
                  /\ commands' = Append(commands, c)
                  /\ output' = NoOutput
                  /\ UNCHANGED <<run_flag, low_commands, mutex, tickets, id,
                                 cur_id, args>>

ExecuteLow(c) == /\ NewCall("idle")
                 /\ Len(low_commands) < MaxQueue
                 /\ low_commands' = Append(low_commands, c)
                 /\ output' = NoOutput
                 /\ UNCHANGED <<run_flag, commands, mutex, tickets, id,
                                cur_id, args>>

(* "s:" *)
CreateTicket(c) == /\ NewCall("createLock")
                   /\ id < MaxTicket
                   /\ cmd' = c
                   /\ output' = NoOutput
                   /\ UNCHANGED <<shared, num>>

(* Fault: ++id before the mutex is taken. *)
CreateLockNot == /\ GameGoes("createLock", "createInsert")
                 /\ id' = id + 1
                 /\ asked' = Append(asked, cmd)
                 /\ UNCHANGED <<run_flag, queues, mutex, tickets, cur_id, worker,
                                args, output, ran, overtaken>>

CreateLock == /\ GameGoes("createLock", "createInsert")
              /\ mutex = Nobody
              /\ mutex' = "game"
              /\ id' = id + 1
              /\ asked' = Append(asked, cmd)
              /\ UNCHANGED <<run_flag, queues, tickets, cur_id, worker, args,
                             output, ran, overtaken>>

(* Fault: ticket.data = cmd is forgotten. *)
CreateInsertBlank == /\ GameGoes("createInsert", "idle")
                     /\ tickets' = InsertedAt(id, NewWorkerData)
                     /\ mutex' = Nobody
                     /\ cmd' = NoCall
                     /\ output' = Word("ticket", id)
                     /\ UNCHANGED <<run_flag, queues, id, cur_id, worker, num,
                                    history>>

CreateInsert == /\ GameGoes("createInsert", "idle")
                /\ tickets' = InsertedAt(id, [ready |-> FALSE, data |-> Text(cmd)])
                /\ mutex' = Nobody
                /\ cmd' = NoCall
                /\ output' = Word("ticket", id)
                /\ UNCHANGED <<run_flag, queues, id, cur_id, worker, num, history>>

(* "r:" -- ticketExists and ticketReady take no lock. *)
TicketExists(n) == /\ \/ /\ n \in DOMAIN tickets
                         /\ NewCall("ready")
                         /\ num' = n
                         /\ output' = NoOutput
                      \/ /\ n \notin DOMAIN tickets
                         /\ NewCall("idle")
                         /\ output' = Word("EMPTY", n)
                         /\ UNCHANGED num
                   /\ UNCHANGED <<shared, cmd>>

TicketReady == /\ \/ /\ At(num).ready
                     /\ GameGoes("ready", "resultLock")
                     /\ UNCHANGED <<num, output>>
                  \/ /\ ~At(num).ready
                     /\ GameGoes("ready", "idle")
                     /\ num' = 0
                     /\ output' = Word("WAIT", num)
               /\ tickets' = TouchedAt(num)
               /\ UNCHANGED <<run_flag, queues, mutex, id, cur_id, worker, cmd,
                              history>>

(* Fault: ticketResult without the mutex, as ticketReady. *)
ResultLockNot == /\ GameGoes("resultLock", "resultTake")
                 /\ UNCHANGED <<shared, worker, args, output, history>>

ResultLock == /\ GameGoes("resultLock", "resultTake")
              /\ mutex = Nobody
              /\ mutex' = "game"
              /\ UNCHANGED <<run_flag, queues, tickets, id, cur_id, worker, args,
                             output, history>>

(* Fault: the entry is not erased. *)
ResultTakeKeep == /\ GameGoes("resultTake", "idle")
                  /\ output' = Reply("result", num, At(num).data)
                  /\ mutex' = Nobody
                  /\ num' = 0
                  /\ UNCHANGED <<run_flag, queues, tickets, id, cur_id, worker, cmd,
                                 history>>

ResultTake == /\ GameGoes("resultTake", "idle")
              /\ output' = Reply("result", num, At(num).data)
              /\ tickets' = ErasedAt(num)
              /\ mutex' = Nobody
              /\ num' = 0
              /\ UNCHANGED <<run_flag, queues, id, cur_id, worker, cmd, history>>

(* "d:" -- the game thread runs the call itself. *)
DirectCall(c) == /\ NewCall("direct")
                 /\ cmd' = c
                 /\ output' = NoOutput
                 /\ UNCHANGED <<shared, num>>

DirectReturn == /\ GameGoes("direct", "idle")
                /\ output' = Reply("direct", 0, callExtension(Text(cmd)))
                /\ cmd' = NoCall
                /\ UNCHANGED <<shared, worker, num, history>>

InvalidCommand == /\ NewCall("idle")
                  /\ output' = Word("INVALID COMMAND", 0)
                  /\ UNCHANGED <<shared, args>>

(* DLL_PROCESS_DETACH: both threads are told to stop, joined one after the *)
(* other, and everything is deleted.  Either the library is freed, and     *)
(* then DllMain holds the loader lock, which a thread needs in order to    *)
(* end: a join returns only if its thread has ended before or was never    *)
(* started.  Or the process exits, and the other threads are gone by then. *)
Stop == /\ GameGoes("idle", "join")
        /\ run_flag' = FALSE
        /\ UNCHANGED <<queues, mutex, tickets, id, cur_id, worker, args, output,
                       history>>

(* The RCON thread is joined first.  If it was running, that is the end of *)
(* the game thread, and the worker is never told.                          *)
RconJoin == /\ worker_working /\ GameGoes("idle", "rconJoin")
            /\ UNCHANGED <<shared, worker, args, output, history>>

(* Fault: deleted without waiting for the worker. *)
JoinNot == /\ GameGoes("join", "deleted")
           /\ UNCHANGED <<shared, worker, args, output, history>>

Join == /\ GameGoes("join", "deleted")
        /\ wpc = "off"
        /\ UNCHANGED <<shared, worker, args, output, history>>

ExitProcess == /\ GameGoes("idle", "exited")
               /\ run_flag' = FALSE
               /\ UNCHANGED <<queues, mutex, tickets, id, cur_id, worker, args,
                              output, history>>

(* Nothing is left to run, or the join waits for ever for a worker that    *)
(* has left its loop.                                                      *)
Terminated == /\ \/ gpc \in {"deleted", "exited"}
                 \/ gpc = "join" /\ wpc = "stopped"
              /\ UNCHANGED vars

(* The steps with which a call that has begun goes on. *)
CallContinues == \/ CreateLock \/ CreateInsert
                 \/ TicketReady \/ ResultLock \/ ResultTake
                 \/ DirectReturn \/ Join

CallBegins == \/ InitThreads
              \/ \E c \in Calls : \/ ExecuteHigh(c) \/ ExecuteLow(c)
                                  \/ CreateTicket(c) \/ DirectCall(c)
              \/ \E n \in Numbers : TicketExists(n)
              \/ InvalidCommand \/ Stop \/ RconJoin \/ ExitProcess

Next == WorkerStep \/ CallBegins \/ CallContinues \/ Terminated

Spec == Init /\ [][Next]_vars

(* A thread that can go on does, and a thread that waits for the mutex     *)
(* gets it if it is free again and again.  No call need ever be made.      *)
Fairness == /\ WF_vars(WorkerStep) /\ SF_vars(Lock)
            /\ WF_vars(CallContinues) /\ SF_vars(CreateLock) /\ SF_vars(ResultLock)

FairSpec == Spec /\ Fairness

----------------------------------------------------------------------------
(* Properties. *)

TypeOK ==
  /\ run_flag \in BOOLEAN
  /\ commands \in Seq(Calls) /\ low_commands \in Seq(Calls)
  /\ mutex \in {Nobody, "game", "worker"}
  /\ DOMAIN tickets \subseteq Nat /\ tickets \in [DOMAIN tickets -> WorkerData]
  /\ id \in Nat /\ cur_id \in Nat
  /\ worker_working \in BOOLEAN
  /\ wpc \in WorkerStates /\ command \in Calls \cup {NoCall}
  /\ ticket \in WorkerData
  /\ gpc \in GameStates /\ cmd \in Calls \cup {NoCall} /\ num \in Nat
  /\ output \in Outputs
  /\ asked \in Seq(Calls) /\ ran \in Seq(Calls) /\ overtaken \in Nat

(* Neither thread ever makes operator[] create an entry: whenever one of   *)
(* them is about to use tickets[n], n is in the map.  So it is the game    *)
(* thread alone that adds and removes entries, and its lookups without the *)
(* mutex (ticketExists, ticketReady) never meet a map that is changing.    *)
TicketPresent ==
  /\ wpc = "fetch" => cur_id + 1 \in DOMAIN tickets
  /\ wpc \in {"process", "lock", "saveReady", "saveData"} => cur_id \in DOMAIN tickets
  /\ gpc \in {"ready", "resultLock", "resultTake"} => num \in DOMAIN tickets

(* "r:n" hands out the result of running the call that "s:" returned n     *)
(* for: never the call's own text, the result of another call or nothing,  *)
(* although ready is read while the worker may still be saving.            *)
AnswerMatches ==
  output.kind = "result" =>
     /\ output.n \in 1..Len(asked)
     /\ output.data = callExtension(Text(asked[output.n]))

(* The worker runs every ticket's call exactly once, in the order of the   *)
(* ticket numbers.                                                         *)
RunOnceInOrder ==
  /\ Len(ran) = IF wpc = "process" THEN cur_id - 1 ELSE cur_id
  /\ \A n \in 1..Len(ran) : n <= id /\ ran[n] = asked[n]

(* While a high-priority command or a ticket is waiting, at most one       *)
(* low-priority command is started: the one the worker had already decided *)
(* to take.                                                                *)
LowOvertakesAtMostOnce == overtaken <= 1

(* The queues and the flag are deleted only once no thread can use them.   *)
NoUseAfterDelete == gpc = "deleted" => wpc \in {"off", "stopped"}

Closing == gpc \in {"join", "deleted", "exited"}
Running == wpc \in {"process", "lock", "saveReady"}
RunByNow(n) == n <= cur_id /\ (n = cur_id => ~Running)

(* As long as the worker is not told to stop, high-priority commands are   *)
(* started whatever else is submitted; unless they keep coming, every      *)
(* ticket becomes ready; and unless tickets keep coming either, the        *)
(* low-priority queue moves on.                                            *)
BacklogServed ==
  /\ commands # <<>> ~> wpc = "command" \/ Closing
  /\ \/ []<>(wpc = "command")
     \/ /\ \A n \in 1..MaxTicket : id >= n ~> RunByNow(n) \/ Closing
        /\ \/ []<>(wpc = "process")
           \/ low_commands # <<>> ~> wpc = "lowCommand" \/ Closing

(* A call that waits for the mutex returns to the game. *)
CallReturns == gpc \in {"createLock", "resultLock"} ~> gpc = "idle"

(* A worker that is told to stop finishes what it is doing and leaves its  *)
(* loop, unless the stop came before it reached its first statement, which *)
(* overwrites the flag.                                                    *)
StopHeard == gpc = "join" ~> wpc \in {"off", "stopped"} \/ run_flag

(* The service this implements: how far each ticket is, what the worker is *)
(* running and what the last poll was answered.                            *)
TicketPhase(n) ==
  IF n > cur_id THEN "queued"
  ELSE IF n = cur_id /\ Running THEN "running"
  ELSE IF n \in DOMAIN tickets THEN "done" ELSE "taken"

Box == [n \in 1..Len(asked) |-> [call |-> asked[n], phase |-> TicketPhase(n)]]

Busy == CASE wpc = "command" /\ gpc # "exited" -> [kind |-> "high", call |-> command]
          [] wpc = "lowCommand" /\ gpc # "exited" -> [kind |-> "low", call |-> command]
          [] Running /\ gpc # "exited" -> [kind |-> "ticket", call |-> ticket.data.call]
          [] OTHER -> [kind |-> "idle", call |-> NoCall]

Answer == IF output.kind \in {"EMPTY", "WAIT", "result"}
            THEN [kind |-> output.kind, n |-> output.n,
                  call |-> IF output.data.run THEN output.data.call ELSE NoCall]
            ELSE [kind |-> "none", n |-> 0, call |-> NoCall]

Service == INSTANCE CallService WITH high <- commands, low <- low_commands,
             box <- Box, busy <- Busy, open <- run_flag, answer <- Answer

(* Scripts see a call service: the threads, the lock and the map add no    *)
(* answer, no order and no loss that CallService does not allow.           *)
ImplementsCallService == Service!Spec

(* With fair threads the service goes on starting and finishing what it    *)
(* has accepted, as CallService promises.                                  *)
KeepsServing == Service!FairSpec
=============================================================================
