-------------------------- MODULE AsyncWorkerProofs --------------------------
(***************************************************************************)
(* Proofs about AsyncWorker, for any calls, number of tickets and queue    *)
(* length.                                                                 *)
(*                                                                         *)
(* None of the properties is inductive alone.  The argument is that the    *)
(* tickets 1..id fall into three groups by the worker's progress --        *)
(* waiting (above cur_id), in hand (cur_id, while the worker processes it) *)
(* and done -- and that the mutex keeps the game thread from seeing an     *)
(* entry of the second group half saved.  Inv says what the map holds for  *)
(* each group.                                                             *)
(*                                                                         *)
(* The last part shows, step by step, that AsyncWorker implements          *)
(* CallService: a ticket is asked for when its number is given out, is     *)
(* started by Fetch, finished by the first half of the save, and taken by  *)
(* ResultTake; every other step of the threads is a call that is not       *)
(* numbered, or cannot be seen by a script.                                *)
(***************************************************************************)
EXTENDS AsyncWorker, TLAPS

InHand == wpc \in {"process", "lock", "saveReady", "saveData"}
Result(c) == callExtension(Text(c))

(* Who holds the mutex is a matter of where the threads are. *)
MutexOwner ==
  /\ mutex = "worker" <=> wpc \in {"fetch", "saveReady", "saveData"}
  /\ mutex = "game" <=> gpc \in {"createInsert", "resultTake"}

Lifetime ==
  /\ wpc = "off" <=> ~worker_working
  /\ NoUseAfterDelete

Numbering ==
  /\ Len(asked) = id
  /\ cur_id <= id
  /\ wpc \in {"tryLock", "fetch"} => cur_id < id
  /\ InHand => cur_id \in DOMAIN tickets
  /\ gpc \in {"createLock", "createInsert"} => cmd \in Calls
  /\ gpc = "createInsert" => id >= 1 /\ asked[id] = cmd /\ cur_id < id
  /\ \A n \in DOMAIN tickets : n \in 1..id /\ (gpc = "createInsert" => n # id)

Waiting ==
  \A n \in 1..id : n > cur_id /\ (gpc = "createInsert" => n # id) =>
    /\ n \in DOMAIN tickets
    /\ ~tickets[n].ready /\ tickets[n].data = Text(asked[n])

Taken ==
  InHand =>
    /\ tickets[cur_id].ready <=> wpc = "saveData"
    /\ ticket.data = IF wpc = "process" THEN Text(asked[cur_id])
                                        ELSE Result(asked[cur_id])
    /\ ticket.ready <=> wpc # "process"

Done ==
  \A n \in DOMAIN tickets : n <= cur_id /\ (InHand => n # cur_id) =>
    tickets[n].ready /\ tickets[n].data = Result(asked[n])

Polled ==
  /\ gpc \in {"ready", "resultLock", "resultTake"} => num \in DOMAIN tickets
  /\ gpc \in {"resultLock", "resultTake"} => tickets[num].ready

Overtaking ==
  /\ overtaken <= 1
  /\ overtaken > 0 => Urgent(commands, cur_id)
  /\ wpc = "checkIdAgain" /\ overtaken > 0 => id > cur_id
  /\ wpc = "lowPeek" => overtaken = 0

Inv == /\ TypeOK /\ MutexOwner /\ Lifetime /\ Numbering
       /\ Waiting /\ Taken /\ Done /\ Polled
       /\ RunOnceInOrder /\ AnswerMatches /\ Overtaking

----------------------------------------------------------------------------
(* Data. *)

(* The control states, as facts: the two sets are not expanded below. *)
LEMMA States ==
  /\ {"off", "start", "loop", "peek", "command", "checkId", "tryLock", "fetch",
      "process", "lock", "saveReady", "saveData", "peekAgain", "checkIdAgain",
      "lowPeek", "lowCommand", "stopped"} \subseteq WorkerStates
  /\ {"idle", "createLock", "createInsert", "ready", "resultLock", "resultTake",
      "direct", "rconJoin", "join", "deleted", "exited"} \subseteq GameStates
BY DEF WorkerStates, GameStates

LEMMA StringTypes ==
  /\ \A c \in Calls \cup {NoCall} : Text(c) \in Strings
  /\ \A d \in Strings : callExtension(d) \in Strings
  /\ NewWorkerData \in WorkerData
BY DEF Text, callExtension, Strings, NewWorkerData, WorkerData

LEMMA ReplyTypes ==
  /\ \A n \in Nat, d \in Strings :
        Reply("result", n, d) \in Outputs /\ Reply("direct", n, d) \in Outputs
  /\ \A n \in Nat : /\ Word("none", n) \in Outputs /\ Word("ticket", n) \in Outputs
                    /\ Word("EMPTY", n) \in Outputs /\ Word("WAIT", n) \in Outputs
                    /\ Word("INVALID COMMAND", n) \in Outputs
  /\ NoOutput \in Outputs
BY StringTypes DEF Word, Reply, NoOutput, Outputs

LEMMA SequenceFacts ==
  ASSUME NEW S, NEW s \in Seq(S)
  PROVE  /\ \A e \in S : /\ Append(s, e) \in Seq(S) /\ Len(Append(s, e)) = Len(s) + 1
                         /\ Append(s, e)[Len(s) + 1] = e
                         /\ \A i \in 1..Len(s) : Append(s, e)[i] = s[i]
         /\ s # <<>> => Head(s) \in S /\ Tail(s) \in Seq(S)
         /\ Len(s) \in Nat
         /\ \A i \in 1..Len(s) : s[i] \in S
OBVIOUS

(* operator[] on a number that is present leaves the map as it is. *)
LEMMA TouchPresent ==
  ASSUME TypeOK, NEW n \in DOMAIN tickets
  PROVE  TouchedAt(n) = tickets /\ At(n) = tickets[n] /\ tickets[n] \in WorkerData
BY DEF TypeOK, TouchedAt, InsertedAt, At

(* Assigning to a number that is present changes that entry only. *)
LEMMA AssignPresent ==
  ASSUME TypeOK, NEW n \in DOMAIN tickets, NEW d \in WorkerData
  PROVE  /\ AssignedAt(n, d) \in [DOMAIN tickets -> WorkerData]
         /\ AssignedAt(n, d)[n] = d
         /\ \A m \in DOMAIN tickets \ {n} : AssignedAt(n, d)[m] = tickets[m]
BY DEF TypeOK, AssignedAt

(* Inserting a number that is absent adds that entry only. *)
LEMMA InsertAbsent ==
  ASSUME TypeOK, NEW n, n \notin DOMAIN tickets, NEW d \in WorkerData
  PROVE  /\ InsertedAt(n, d) \in [DOMAIN tickets \cup {n} -> WorkerData]
         /\ InsertedAt(n, d)[n] = d
         /\ \A m \in DOMAIN tickets : InsertedAt(n, d)[m] = tickets[m]
BY DEF TypeOK, InsertedAt

(* Assigning one member of an entry leaves the other. *)
LEMMA SetMember ==
  ASSUME NEW w \in WorkerData
  PROVE  /\ \A b \in BOOLEAN : /\ [w EXCEPT !.ready = b] \in WorkerData
                               /\ [w EXCEPT !.ready = b].ready = b
                               /\ [w EXCEPT !.ready = b].data = w.data
         /\ \A d \in Strings : /\ [w EXCEPT !.data = d] \in WorkerData
                               /\ [w EXCEPT !.data = d].ready = w.ready
                               /\ [w EXCEPT !.data = d].data = d
         /\ w.ready \in BOOLEAN /\ w.data \in Strings
BY DEF WorkerData

----------------------------------------------------------------------------
(* What the steps that use the map do to it, given the invariant.          *)

(* No thread looks up a number that is not there. *)
LEMMA Present ==
  ASSUME Inv
  PROVE  TicketPresent
<1>1. wpc = "fetch" => cur_id + 1 \in DOMAIN tickets
  <2> SUFFICES ASSUME wpc = "fetch" PROVE cur_id + 1 \in DOMAIN tickets
    OBVIOUS
  <2>1. cur_id \in Nat /\ id \in Nat
    BY DEF Inv, TypeOK
  <2>2. cur_id < id /\ gpc # "createInsert"
    BY DEF Inv, Numbering, MutexOwner
  <2>3. \A n \in 1..id : n > cur_id => n \in DOMAIN tickets
    BY <2>2 DEF Inv, Waiting
  <2>4. cur_id + 1 \in 1..id /\ cur_id + 1 > cur_id
    BY <2>1, <2>2
  <2>5. QED
    BY <2>3, <2>4
<1>2. InHand => cur_id \in DOMAIN tickets
  BY DEF Inv, Numbering
<1>3. gpc \in {"ready", "resultLock", "resultTake"} => num \in DOMAIN tickets
  BY DEF Inv, Polled
<1>4. QED
  BY <1>1, <1>2, <1>3 DEF TicketPresent, InHand

LEMMA FetchEffect ==
  ASSUME Inv, Fetch
  PROVE  /\ cur_id + 1 \in DOMAIN tickets /\ cur_id + 1 \in 1..id
         /\ gpc # "createInsert"
         /\ tickets' = tickets /\ ticket' = tickets[cur_id + 1]
         /\ ~ticket'.ready /\ ticket'.data = Text(asked[cur_id + 1])
<1>1. cur_id + 1 \in DOMAIN tickets
  BY Present DEF TicketPresent, Fetch, WorkerGoes
<1>2. gpc # "createInsert" /\ cur_id + 1 \in 1..id /\ cur_id \in Nat
  BY DEF Inv, TypeOK, Numbering, MutexOwner, Fetch, WorkerGoes
<1>3. \A n \in 1..id : n > cur_id =>
         ~tickets[n].ready /\ tickets[n].data = Text(asked[n])
  BY <1>2 DEF Inv, Waiting
<1>4. tickets' = tickets /\ ticket' = tickets[cur_id + 1]
  BY <1>1, TouchPresent DEF Inv, Fetch
<1>5. cur_id + 1 > cur_id
  BY <1>2
<1>6. QED
  BY <1>1, <1>2, <1>3, <1>4, <1>5

LEMMA SaveReadyEffect ==
  ASSUME Inv, SaveReady
  PROVE  /\ cur_id \in DOMAIN tickets
         /\ tickets' \in [DOMAIN tickets -> WorkerData]
         /\ DOMAIN tickets' = DOMAIN tickets
         /\ tickets'[cur_id].ready
         /\ \A m \in DOMAIN tickets \ {cur_id} : tickets'[m] = tickets[m]
<1> DEFINE d == [tickets[cur_id] EXCEPT !.ready = ticket.ready]
<1>1. cur_id \in DOMAIN tickets
  BY Present DEF TicketPresent, SaveReady, WorkerGoes
<1>2. ticket \in WorkerData /\ ticket.ready
  BY DEF Inv, TypeOK, Taken, InHand, SaveReady, WorkerGoes
<1>3. tickets[cur_id] \in WorkerData /\ At(cur_id) = tickets[cur_id] /\ TypeOK
  BY <1>1, TouchPresent DEF Inv
<1>4. d \in WorkerData /\ d.ready
  BY <1>2, <1>3, SetMember
<1>5. tickets' = AssignedAt(cur_id, d)
  BY <1>3 DEF SaveReady
<1> HIDE DEF d
<1>6. QED
  BY <1>1, <1>3, <1>4, <1>5, AssignPresent

LEMMA SaveDataEffect ==
  ASSUME Inv, SaveData
  PROVE  /\ cur_id \in DOMAIN tickets
         /\ tickets' \in [DOMAIN tickets -> WorkerData]
         /\ DOMAIN tickets' = DOMAIN tickets
         /\ tickets'[cur_id].ready
         /\ tickets'[cur_id].data = Result(asked[cur_id])
         /\ \A m \in DOMAIN tickets \ {cur_id} : tickets'[m] = tickets[m]
<1> DEFINE d == [tickets[cur_id] EXCEPT !.data = ticket.data]
<1>1. cur_id \in DOMAIN tickets
  BY Present DEF TicketPresent, SaveData, WorkerGoes
<1>2. /\ ticket \in WorkerData /\ tickets[cur_id].ready
      /\ ticket.data = Result(asked[cur_id])
  BY DEF Inv, TypeOK, Taken, InHand, SaveData, WorkerGoes
<1>3. tickets[cur_id] \in WorkerData /\ At(cur_id) = tickets[cur_id] /\ TypeOK
  BY <1>1, TouchPresent DEF Inv
<1>4. d \in WorkerData /\ d.ready /\ d.data = Result(asked[cur_id])
  BY <1>2, <1>3, SetMember
<1>5. tickets' = AssignedAt(cur_id, d)
  BY <1>3 DEF SaveData
<1> HIDE DEF d
<1>6. QED
  BY <1>1, <1>3, <1>4, <1>5, AssignPresent

LEMMA TicketReadyEffect ==
  ASSUME Inv, TicketReady
  PROVE  num \in DOMAIN tickets /\ tickets' = tickets /\ At(num) = tickets[num]
BY Present, TouchPresent DEF Inv, TicketPresent, TicketReady, GameGoes

LEMMA CreateInsertEffect ==
  ASSUME Inv, CreateInsert
  PROVE  /\ id \in Nat \ {0} /\ id \notin DOMAIN tickets /\ id > cur_id
         /\ tickets' \in [DOMAIN tickets \cup {id} -> WorkerData]
         /\ DOMAIN tickets' = DOMAIN tickets \cup {id}
         /\ ~tickets'[id].ready /\ tickets'[id].data = Text(asked[id])
         /\ \A m \in DOMAIN tickets : tickets'[m] = tickets[m]
<1> DEFINE d == [ready |-> FALSE, data |-> Text(cmd)]
<1>1. /\ id \in Nat \ {0} /\ id \notin DOMAIN tickets /\ id > cur_id
      /\ cmd \in Calls /\ asked[id] = cmd
  BY DEF Inv, TypeOK, Numbering, CreateInsert, GameGoes
<1>2. d \in WorkerData /\ ~d.ready /\ d.data = Text(asked[id])
  BY <1>1, StringTypes DEF WorkerData
<1>3. tickets' = InsertedAt(id, d) /\ TypeOK
  BY DEF Inv, CreateInsert
<1> HIDE DEF d
<1>4. QED
  BY <1>1, <1>2, <1>3, InsertAbsent

LEMMA ResultTakeEffect ==
  ASSUME Inv, ResultTake
  PROVE  /\ num \in DOMAIN tickets /\ num \in 1..id
         /\ At(num).data = Result(asked[num])
         /\ tickets' \in [DOMAIN tickets \ {num} -> WorkerData]
         /\ DOMAIN tickets' = DOMAIN tickets \ {num}
         /\ \A m \in DOMAIN tickets \ {num} : tickets'[m] = tickets[m]
         /\ num <= cur_id /\ (InHand => num # cur_id)
<1>1. num \in DOMAIN tickets /\ num \in 1..id /\ tickets[num].ready
  BY DEF Inv, TypeOK, Numbering, Polled, ResultTake, GameGoes
<1>2. wpc # "saveData" /\ gpc # "createInsert"
  BY DEF Inv, MutexOwner, ResultTake, GameGoes
<1>3. num <= cur_id
  <2>1. cur_id \in Nat /\ id \in Nat
    BY DEF Inv, TypeOK
  <2>2. \A n \in 1..id : n > cur_id => ~tickets[n].ready
    BY <1>2 DEF Inv, Waiting
  <2>3. QED
    BY <1>1, <2>1, <2>2
<1>4. InHand => num # cur_id
  BY <1>1, <1>2 DEF Inv, Taken
<1>5. tickets[num].data = Result(asked[num])
  BY <1>1, <1>3, <1>4 DEF Inv, Done
<1>6. QED
  BY <1>1, <1>3, <1>4, <1>5, TouchPresent DEF Inv, TypeOK, ResultTake, ErasedAt

----------------------------------------------------------------------------
(* Every step keeps every part of the invariant. *)

LEMMA TypeNumbers ==
  ASSUME Inv
  PROVE  /\ id \in Nat /\ cur_id \in Nat /\ num \in Nat /\ overtaken \in Nat
         /\ Len(asked) = id /\ asked \in Seq(Calls)
         /\ ran \in Seq(Calls) /\ Len(ran) \in Nat
BY DEF Inv, TypeOK, Numbering

(* asked only grows. *)
LEMMA AskedEffect ==
  ASSUME Inv, CreateLock
  PROVE  /\ asked' \in Seq(Calls) /\ Len(asked') = id + 1 /\ id' = id + 1
         /\ cmd \in Calls /\ asked'[id + 1] = cmd
         /\ \A n \in 1..id : asked'[n] = asked[n]
<1>1. cmd \in Calls
  BY DEF Inv, Numbering, CreateLock, GameGoes
<1>2. QED
  BY <1>1, TypeNumbers, SequenceFacts DEF CreateLock

(* Every variable keeps its type. *)
LEMMA TypeOKStep ==
  ASSUME Inv, [Next]_vars
  PROVE  TypeOK'
<1> USE DEF queues, locals, worker, args, game, history, shared, WorkerGoes,
            GameGoes, NewCall, Inv, TypeOK, Nobody
<1>1. CASE CreateLock
  <2>1. asked' \in Seq(Calls) /\ id' \in Nat
    BY <1>1, AskedEffect, TypeNumbers
  <2>2. QED
    BY <1>1, States, <2>1 DEF CreateLock
<1>2. CASE Fetch
  <2>1. tickets' = tickets /\ ticket' \in WorkerData /\ cur_id' \in Nat
    BY <1>2, FetchEffect, TouchPresent, TypeNumbers DEF Fetch
  <2>2. QED
    BY <1>2, States, <2>1 DEF Fetch
<1>3. CASE Process
  <2>1. ticket.data = Text(asked[cur_id]) /\ cur_id \in 1..id
    BY <1>3, TypeNumbers DEF Process, Taken, Numbering, InHand
  <2>2. ticket.data.call \in Calls
    BY <2>1, TypeNumbers, SequenceFacts DEF Text
  <2>3. ran' \in Seq(Calls)
    BY <1>3, <2>2, SequenceFacts DEF Process
  <2>4. ticket' \in WorkerData
    BY <1>3, StringTypes, SetMember DEF Process, WorkerData
  <2>5. QED
    BY <1>3, States, <2>1, <2>2, <2>3, <2>4 DEF Process
<1>4. CASE SaveReady
  <2>1. tickets' \in [DOMAIN tickets' -> WorkerData] /\ DOMAIN tickets' \subseteq Nat
    BY <1>4, SaveReadyEffect
  <2>2. ticket' \in WorkerData
    BY <1>4, StringTypes DEF SaveReady
  <2>3. QED
    BY <1>4, States, <2>1, <2>2 DEF SaveReady
<1>5. CASE SaveData
  <2>1. tickets' \in [DOMAIN tickets' -> WorkerData] /\ DOMAIN tickets' \subseteq Nat
    BY <1>5, SaveDataEffect
  <2>2. ticket' \in WorkerData
    BY <1>5, StringTypes DEF SaveData
  <2>3. QED
    BY <1>5, States, <2>1, <2>2 DEF SaveData
<1>6. CASE CreateInsert
  <2>1. tickets' \in [DOMAIN tickets' -> WorkerData] /\ DOMAIN tickets' \subseteq Nat
    BY <1>6, CreateInsertEffect
  <2>2. output' \in Outputs
    BY <1>6, ReplyTypes DEF CreateInsert
  <2>3. QED
    BY <1>6, States, <2>1, <2>2 DEF CreateInsert
<1>7. CASE TicketReady
  <2>1. tickets' = tickets
    BY <1>7, TicketReadyEffect
  <2>2. output' \in Outputs
    BY <1>7, ReplyTypes DEF TicketReady
  <2>3. QED
    BY <1>7, States, <2>1, <2>2 DEF TicketReady
<1>8. CASE ResultTake
  <2>1. tickets' \in [DOMAIN tickets' -> WorkerData] /\ DOMAIN tickets' \subseteq Nat
    BY <1>8, ResultTakeEffect
  <2>2. At(num).data \in Strings
    BY <1>8, ResultTakeEffect, TouchPresent, SetMember
  <2>3. output' \in Outputs
    BY <1>8, <2>2, ReplyTypes DEF ResultTake
  <2>4. QED
    BY <1>8, States, <2>1, <2>2, <2>3 DEF ResultTake
<1>9. CASE Peek
  <2>1. commands # <<>> => Head(commands) \in Calls /\ Tail(commands) \in Seq(Calls)
    BY SequenceFacts
  <2>2. commands' \in Seq(Calls) /\ command' \in Calls \cup {NoCall}
    BY <1>9, <2>1 DEF Peek
  <2>3. overtaken' \in Nat
    BY <1>9 DEF Peek
  <2>4. QED
    BY <1>9, States, <2>1, <2>2, <2>3 DEF Peek
<1>10. CASE LowPeek
  <2>1. low_commands # <<>> => Head(low_commands) \in Calls /\ Tail(low_commands) \in Seq(Calls)
    BY SequenceFacts
  <2>2. low_commands' \in Seq(Calls) /\ command' \in Calls \cup {NoCall}
    BY <1>10, <2>1 DEF LowPeek
  <2>3. overtaken' \in Nat
    BY <1>10 DEF LowPeek
  <2>4. QED
    BY <1>10, States, <2>1, <2>2, <2>3 DEF LowPeek
<1>11. CASE (\E c \in Calls : ExecuteHigh(c))
  <2>1. commands' \in Seq(Calls)
    BY <1>11, SequenceFacts DEF ExecuteHigh
  <2>2. output' \in Outputs
    BY <1>11, ReplyTypes DEF ExecuteHigh
  <2>3. QED
    BY <1>11, States, <2>1, <2>2 DEF ExecuteHigh
<1>12. CASE (\E c \in Calls : ExecuteLow(c))
  <2>1. low_commands' \in Seq(Calls)
    BY <1>12, SequenceFacts DEF ExecuteLow
  <2>2. output' \in Outputs
    BY <1>12, ReplyTypes DEF ExecuteLow
  <2>3. QED
    BY <1>12, States, <2>1, <2>2 DEF ExecuteLow
<1>13. CASE (\E n \in Numbers : TicketExists(n))
  <2>1. Numbers \subseteq Nat
    BY BoundsAssumption DEF Numbers
  <2>2. num' \in Nat
    BY <1>13, <2>1 DEF TicketExists
  <2>3. output' \in Outputs
    BY <1>13, <2>1, ReplyTypes DEF TicketExists
  <2>4. QED
    BY <1>13, States, <2>1, <2>2, <2>3 DEF TicketExists
<1>14. CASE (\E c \in Calls : CreateTicket(c))
  <2>1. output' \in Outputs
    BY <1>14, ReplyTypes DEF CreateTicket
  <2>2. QED
    BY <1>14, States, <2>1 DEF CreateTicket
<1>15. CASE (\E c \in Calls : DirectCall(c))
  <2>1. output' \in Outputs
    BY <1>15, ReplyTypes DEF DirectCall
  <2>2. QED
    BY <1>15, States, <2>1 DEF DirectCall
<1>16. CASE InvalidCommand
  <2>1. output' \in Outputs
    BY <1>16, ReplyTypes DEF InvalidCommand
  <2>2. QED
    BY <1>16, States, <2>1 DEF InvalidCommand
<1>17. CASE DirectReturn
  <2>1. output' \in Outputs
    BY <1>17, ReplyTypes, StringTypes DEF DirectReturn
  <2>2. QED
    BY <1>17, States, <2>1 DEF DirectReturn
<1>18. CASE Start \/ Loop \/ RunCommand \/ CheckId \/ TryLock \/ Lock
  BY <1>18, States
     DEF Start, Loop, RunCommand, CheckId, TryLock, Lock
<1>19. CASE PeekAgain \/ CheckIdAgain \/ InitThreads \/ ResultLock \/ Stop \/ RconJoin \/ ExitProcess \/
            Join
  BY <1>19, States
     DEF PeekAgain, CheckIdAgain, InitThreads, ResultLock, Stop, RconJoin, ExitProcess, Join
<1>20. CASE UNCHANGED vars
  BY <1>20 DEF vars
<1>21. QED
  BY <1>1, <1>2, <1>3, <1>4, <1>5, <1>6, <1>7, <1>8, <1>9, <1>10,
     <1>11, <1>12, <1>13, <1>14, <1>15, <1>16, <1>17, <1>18, <1>19, <1>20
     DEF Next, WorkerStep, CallBegins, CallContinues, Terminated

(* The mutex is taken and released where the code does so. *)
LEMMA MutexOwnerStep ==
  ASSUME Inv, [Next]_vars
  PROVE  MutexOwner'
<1> USE DEF queues, locals, worker, args, game, history, shared, WorkerGoes,
            GameGoes, NewCall, Inv, MutexOwner, Nobody
<1>1. CASE InitThreads
  BY <1>1
     DEF InitThreads, Lifetime
<1>2. CASE Start \/ Loop \/ Peek \/ RunCommand \/ CheckId
  BY <1>2
     DEF Start, Loop, Peek, RunCommand, CheckId
<1>3. CASE TryLock \/ Fetch \/ Process \/ Lock \/ SaveReady
  BY <1>3
     DEF TryLock, Fetch, Process, Lock, SaveReady
<1>4. CASE SaveData \/ PeekAgain \/ CheckIdAgain \/ LowPeek \/ CreateLock
  BY <1>4
     DEF SaveData, PeekAgain, CheckIdAgain, LowPeek, CreateLock
<1>5. CASE CreateInsert \/ TicketReady \/ ResultLock \/ ResultTake \/
           DirectReturn
  BY <1>5
     DEF CreateInsert, TicketReady, ResultLock, ResultTake, DirectReturn
<1>6. CASE InvalidCommand \/ Stop \/ RconJoin \/ ExitProcess \/ Join \/
           (\E c \in Calls : ExecuteHigh(c)) \/
           (\E c \in Calls : ExecuteLow(c))
  BY <1>6
     DEF InvalidCommand, Stop, RconJoin, ExitProcess, Join, ExecuteHigh, ExecuteLow
<1>7. CASE (\E c \in Calls : CreateTicket(c)) \/
           (\E c \in Calls : DirectCall(c)) \/
           (\E n \in Numbers : TicketExists(n))
  BY <1>7
     DEF CreateTicket, DirectCall, TicketExists
<1>8. CASE UNCHANGED vars
  BY <1>8 DEF vars
<1>9. QED
  BY <1>1, <1>2, <1>3, <1>4, <1>5, <1>6, <1>7, <1>8
     DEF Next, WorkerStep, CallBegins, CallContinues, Terminated

(* The worker thread is started once, and has ended before the delete. *)
LEMMA LifetimeStep ==
  ASSUME Inv, [Next]_vars
  PROVE  Lifetime'
<1> USE DEF queues, locals, worker, args, game, history, shared, WorkerGoes,
            GameGoes, NewCall, Inv, Lifetime, NoUseAfterDelete
<1>1. CASE DirectReturn
  BY <1>1
     DEF DirectReturn
<1>2. CASE InvalidCommand
  BY <1>2
     DEF InvalidCommand
<1>3. CASE Stop \/ RconJoin \/ ExitProcess \/ Join
  BY <1>3
     DEF Stop, RconJoin, ExitProcess, Join
<1>4. CASE Start \/ Loop \/ Peek \/ RunCommand \/ CheckId
  BY <1>4
     DEF Start, Loop, Peek, RunCommand, CheckId
<1>5. CASE TryLock \/ Fetch \/ Process \/ Lock \/ SaveReady
  BY <1>5
     DEF TryLock, Fetch, Process, Lock, SaveReady
<1>6. CASE SaveData \/ PeekAgain \/ CheckIdAgain \/ LowPeek \/ InitThreads
  BY <1>6
     DEF SaveData, PeekAgain, CheckIdAgain, LowPeek, InitThreads
<1>7. CASE CreateLock \/ CreateInsert \/ TicketReady \/ ResultLock \/
           ResultTake
  BY <1>7
     DEF CreateLock, CreateInsert, TicketReady, ResultLock, ResultTake
<1>8. CASE (\E c \in Calls : ExecuteHigh(c)) \/
           (\E c \in Calls : ExecuteLow(c)) \/
           (\E c \in Calls : CreateTicket(c)) \/
           (\E c \in Calls : DirectCall(c)) \/
           (\E n \in Numbers : TicketExists(n))
  BY <1>8
     DEF ExecuteHigh, ExecuteLow, CreateTicket, DirectCall, TicketExists
<1>9. CASE UNCHANGED vars
  BY <1>9 DEF vars
<1>10. QED
  BY <1>1, <1>2, <1>3, <1>4, <1>5, <1>6, <1>7, <1>8, <1>9
     DEF Next, WorkerStep, CallBegins, CallContinues, Terminated

(* The second look at the queue and the tickets stops a second overtaking. *)
LEMMA OvertakingStep ==
  ASSUME Inv, [Next]_vars
  PROVE  Overtaking'
<1> USE DEF queues, locals, worker, args, game, history, shared, WorkerGoes,
            GameGoes, NewCall, Inv, Overtaking, Urgent
<1>1. CASE CheckIdAgain
  BY <1>1, TypeNumbers
     DEF CheckIdAgain
<1>2. CASE LowPeek
  BY <1>2, TypeNumbers
     DEF LowPeek
<1>3. CASE CreateLock
  BY <1>3, TypeNumbers
     DEF CreateLock, Numbering
<1>4. CASE Start \/ Loop \/ Peek \/ RunCommand \/ CheckId
  BY <1>4
     DEF Start, Loop, Peek, RunCommand, CheckId
<1>5. CASE TryLock \/ Fetch \/ Process \/ Lock \/ SaveReady
  BY <1>5
     DEF TryLock, Fetch, Process, Lock, SaveReady
<1>6. CASE SaveData \/ PeekAgain \/ InitThreads \/ CreateInsert \/ TicketReady
  BY <1>6
     DEF SaveData, PeekAgain, InitThreads, CreateInsert, TicketReady
<1>7. CASE ResultLock \/ ResultTake \/ DirectReturn \/ InvalidCommand \/ Stop \/ RconJoin \/ ExitProcess
  BY <1>7
     DEF ResultLock, ResultTake, DirectReturn, InvalidCommand, Stop, RconJoin, ExitProcess
<1>8. CASE Join \/ (\E c \in Calls : ExecuteHigh(c)) \/
           (\E c \in Calls : ExecuteLow(c)) \/
           (\E c \in Calls : CreateTicket(c)) \/
           (\E c \in Calls : DirectCall(c))
  BY <1>8
     DEF Join, ExecuteHigh, ExecuteLow, CreateTicket, DirectCall
<1>9. CASE (\E n \in Numbers : TicketExists(n))
  BY <1>9
     DEF TicketExists
<1>10. CASE UNCHANGED vars
  BY <1>10 DEF vars
<1>11. QED
  BY <1>1, <1>2, <1>3, <1>4, <1>5, <1>6, <1>7, <1>8, <1>9, <1>10
     DEF Next, WorkerStep, CallBegins, CallContinues, Terminated

(* A number being polled stays in the map, and once ready stays ready. *)
LEMMA PolledStep ==
  ASSUME Inv, [Next]_vars
  PROVE  Polled'
<1> USE DEF queues, locals, worker, args, game, history, shared, WorkerGoes,
            GameGoes, NewCall, Inv, Polled
<1>1. CASE Fetch
  BY <1>1, FetchEffect
     DEF Fetch
<1>2. CASE SaveReady
  BY <1>2, SaveReadyEffect
     DEF SaveReady
<1>3. CASE SaveData
  BY <1>3, SaveDataEffect
     DEF SaveData
<1>4. CASE TicketReady
  BY <1>4, TicketReadyEffect
     DEF TicketReady
<1>5. CASE CreateInsert
  BY <1>5, CreateInsertEffect
     DEF CreateInsert
<1>6. CASE ResultTake
  BY <1>6, ResultTakeEffect
     DEF ResultTake
<1>7. CASE Start \/ Loop \/ Peek \/ RunCommand \/ CheckId
  BY <1>7
     DEF Start, Loop, Peek, RunCommand, CheckId
<1>8. CASE TryLock \/ Process \/ Lock \/ PeekAgain \/ CheckIdAgain
  BY <1>8
     DEF TryLock, Process, Lock, PeekAgain, CheckIdAgain
<1>9. CASE LowPeek \/ InitThreads \/ CreateLock \/ ResultLock \/ DirectReturn
  BY <1>9
     DEF LowPeek, InitThreads, CreateLock, ResultLock, DirectReturn
<1>10. CASE InvalidCommand \/ Stop \/ RconJoin \/ ExitProcess \/ Join \/
            (\E c \in Calls : ExecuteHigh(c)) \/
            (\E c \in Calls : ExecuteLow(c))
  BY <1>10
     DEF InvalidCommand, Stop, RconJoin, ExitProcess, Join, ExecuteHigh, ExecuteLow
<1>11. CASE (\E c \in Calls : CreateTicket(c)) \/
            (\E c \in Calls : DirectCall(c)) \/
            (\E n \in Numbers : TicketExists(n))
  BY <1>11
     DEF CreateTicket, DirectCall, TicketExists
<1>12. CASE UNCHANGED vars
  BY <1>12 DEF vars
<1>13. QED
  BY <1>1, <1>2, <1>3, <1>4, <1>5, <1>6, <1>7, <1>8, <1>9, <1>10,
     <1>11, <1>12
     DEF Next, WorkerStep, CallBegins, CallContinues, Terminated

(* Numbers are handed out and taken up one by one. *)
LEMMA NumberingStep ==
  ASSUME Inv, [Next]_vars
  PROVE  Numbering'
<1> USE DEF queues, locals, worker, args, game, history, shared, WorkerGoes,
            GameGoes, NewCall, Inv, Numbering, InHand
<1>1. CASE Fetch
  BY <1>1, FetchEffect, TypeNumbers
     DEF Fetch, MutexOwner
<1>2. CASE SaveReady
  BY <1>2, SaveReadyEffect, TypeNumbers
     DEF SaveReady
<1>3. CASE SaveData
  BY <1>3, SaveDataEffect, TypeNumbers
     DEF SaveData
<1>4. CASE TicketReady
  BY <1>4, TicketReadyEffect, TypeNumbers
     DEF TicketReady
<1>5. CASE ResultTake
  BY <1>5, ResultTakeEffect, TypeNumbers
     DEF ResultTake
<1>6. CASE CreateLock
  BY <1>6, AskedEffect, TypeNumbers
     DEF CreateLock
<1>7. CASE CreateInsert
  <2>1. /\ DOMAIN tickets' = DOMAIN tickets \cup {id} /\ id \in Nat \ {0}
        /\ gpc' = "idle"
        /\ UNCHANGED <<id, cur_id, wpc, asked>>
    BY <1>7, CreateInsertEffect DEF CreateInsert
  <2>2. QED
    BY <2>1, TypeNumbers
<1>8. CASE Process
  BY <1>8, TypeNumbers
     DEF Process
<1>9. CASE Start \/ Loop \/ Peek \/ RunCommand \/ CheckId
  BY <1>9
     DEF Start, Loop, Peek, RunCommand, CheckId
<1>10. CASE TryLock \/ Lock \/ PeekAgain \/ CheckIdAgain \/ LowPeek
  BY <1>10
     DEF TryLock, Lock, PeekAgain, CheckIdAgain, LowPeek
<1>11. CASE InitThreads \/ ResultLock \/ DirectReturn \/ InvalidCommand \/
            Stop \/ RconJoin \/ ExitProcess
  BY <1>11
     DEF InitThreads, ResultLock, DirectReturn, InvalidCommand, Stop, RconJoin, ExitProcess
<1>12. CASE Join \/ (\E c \in Calls : ExecuteHigh(c)) \/
            (\E c \in Calls : ExecuteLow(c)) \/
            (\E c \in Calls : CreateTicket(c)) \/
            (\E c \in Calls : DirectCall(c))
  BY <1>12
     DEF Join, ExecuteHigh, ExecuteLow, CreateTicket, DirectCall
<1>13. CASE (\E n \in Numbers : TicketExists(n))
  BY <1>13
     DEF TicketExists
<1>14. CASE UNCHANGED vars
  BY <1>14 DEF vars
<1>15. QED
  BY <1>1, <1>2, <1>3, <1>4, <1>5, <1>6, <1>7, <1>8, <1>9, <1>10,
     <1>11, <1>12, <1>13, <1>14
     DEF Next, WorkerStep, CallBegins, CallContinues, Terminated

(* An entry above cur_id still holds its call. *)
LEMMA WaitingStep ==
  ASSUME Inv, [Next]_vars
  PROVE  Waiting'
<1> USE DEF queues, locals, worker, args, game, history, shared, WorkerGoes,
            GameGoes, NewCall, Inv, Waiting
<1>1. CASE Fetch
  BY <1>1, FetchEffect, TypeNumbers
     DEF Fetch
<1>2. CASE TicketReady
  BY <1>2, TicketReadyEffect, TypeNumbers
     DEF TicketReady
<1>3. CASE CreateInsert
  BY <1>3, CreateInsertEffect, TypeNumbers
     DEF CreateInsert
<1>4. CASE ResultTake
  BY <1>4, ResultTakeEffect, TypeNumbers
     DEF ResultTake
<1>5. CASE CreateLock
  BY <1>5, AskedEffect, TypeNumbers
     DEF CreateLock
<1>6. CASE SaveReady
  <2>1. /\ DOMAIN tickets' = DOMAIN tickets
        /\ \A m \in DOMAIN tickets \ {cur_id} : tickets'[m] = tickets[m]
        /\ UNCHANGED <<id, cur_id, gpc, asked>>
    BY <1>6, SaveReadyEffect DEF SaveReady
  <2>2. \A n \in 1..id : n > cur_id => n # cur_id
    BY TypeNumbers
  <2>3. QED
    BY <2>1, <2>2
<1>7. CASE SaveData
  <2>1. /\ DOMAIN tickets' = DOMAIN tickets
        /\ \A m \in DOMAIN tickets \ {cur_id} : tickets'[m] = tickets[m]
        /\ UNCHANGED <<id, cur_id, gpc, asked>>
    BY <1>7, SaveDataEffect DEF SaveData
  <2>2. \A n \in 1..id : n > cur_id => n # cur_id
    BY TypeNumbers
  <2>3. QED
    BY <2>1, <2>2
<1>8. CASE InitThreads
  BY <1>8
     DEF InitThreads, Lifetime
<1>9. CASE Stop \/ RconJoin \/ ExitProcess \/ Join
  BY <1>9
     DEF Stop, RconJoin, ExitProcess, Join
<1>10. CASE DirectReturn
  BY <1>10
     DEF DirectReturn
<1>11. CASE InvalidCommand
  BY <1>11
     DEF InvalidCommand
<1>12. CASE Start \/ Loop \/ Peek \/ RunCommand \/ CheckId
  BY <1>12
     DEF Start, Loop, Peek, RunCommand, CheckId
<1>13. CASE TryLock \/ Process \/ Lock \/ PeekAgain \/ CheckIdAgain
  BY <1>13
     DEF TryLock, Process, Lock, PeekAgain, CheckIdAgain
<1>14. CASE LowPeek \/ ResultLock \/ (\E c \in Calls : ExecuteHigh(c)) \/
            (\E c \in Calls : ExecuteLow(c)) \/
            (\E c \in Calls : CreateTicket(c))
  BY <1>14
     DEF LowPeek, ResultLock, ExecuteHigh, ExecuteLow, CreateTicket
<1>15. CASE (\E c \in Calls : DirectCall(c)) \/
            (\E n \in Numbers : TicketExists(n))
  BY <1>15
     DEF DirectCall, TicketExists
<1>16. CASE UNCHANGED vars
  BY <1>16 DEF vars
<1>17. QED
  BY <1>1, <1>2, <1>3, <1>4, <1>5, <1>6, <1>7, <1>8, <1>9, <1>10,
     <1>11, <1>12, <1>13, <1>14, <1>15, <1>16
     DEF Next, WorkerStep, CallBegins, CallContinues, Terminated

(* The ticket in the worker's hands is the one of cur_id. *)
LEMMA TakenStep ==
  ASSUME Inv, [Next]_vars
  PROVE  Taken'
<1> USE DEF queues, locals, worker, args, game, history, shared, WorkerGoes,
            GameGoes, NewCall, Inv, Taken, InHand
<1>1. CASE Fetch
  BY <1>1, FetchEffect, TypeNumbers
     DEF Fetch
<1>2. CASE SaveReady
  BY <1>2, SaveReadyEffect, TypeNumbers
     DEF SaveReady
<1>3. CASE SaveData
  BY <1>3, SaveDataEffect, TypeNumbers
     DEF SaveData
<1>4. CASE TicketReady
  BY <1>4, TicketReadyEffect, TypeNumbers
     DEF TicketReady
<1>5. CASE CreateInsert
  BY <1>5, CreateInsertEffect, TypeNumbers
     DEF CreateInsert, Numbering
<1>6. CASE ResultTake
  BY <1>6, ResultTakeEffect, TypeNumbers
     DEF ResultTake, Numbering
<1>7. CASE CreateLock
  BY <1>7, AskedEffect, TypeNumbers
     DEF CreateLock, Numbering
<1>8. CASE Process
  BY <1>8, TypeNumbers
     DEF Process, Text, callExtension, Result
<1>9. CASE Start \/ Loop \/ Peek \/ RunCommand \/ CheckId
  BY <1>9
     DEF Start, Loop, Peek, RunCommand, CheckId
<1>10. CASE TryLock \/ Lock \/ PeekAgain \/ CheckIdAgain \/ LowPeek
  BY <1>10
     DEF TryLock, Lock, PeekAgain, CheckIdAgain, LowPeek
<1>11. CASE InitThreads \/ ResultLock \/ DirectReturn \/ InvalidCommand \/
            Stop \/ RconJoin \/ ExitProcess
  BY <1>11
     DEF InitThreads, ResultLock, DirectReturn, InvalidCommand, Stop, RconJoin, ExitProcess
<1>12. CASE Join \/ (\E c \in Calls : ExecuteHigh(c)) \/
            (\E c \in Calls : ExecuteLow(c)) \/
            (\E c \in Calls : CreateTicket(c)) \/
            (\E c \in Calls : DirectCall(c))
  BY <1>12
     DEF Join, ExecuteHigh, ExecuteLow, CreateTicket, DirectCall
<1>13. CASE (\E n \in Numbers : TicketExists(n))
  BY <1>13
     DEF TicketExists
<1>14. CASE UNCHANGED vars
  BY <1>14 DEF vars
<1>15. QED
  BY <1>1, <1>2, <1>3, <1>4, <1>5, <1>6, <1>7, <1>8, <1>9, <1>10,
     <1>11, <1>12, <1>13, <1>14
     DEF Next, WorkerStep, CallBegins, CallContinues, Terminated

(* An entry at or below cur_id holds its result. *)
LEMMA DoneStep ==
  ASSUME Inv, [Next]_vars
  PROVE  Done'
<1> USE DEF queues, locals, worker, args, game, history, shared, WorkerGoes,
            GameGoes, NewCall, Inv, Done, InHand
<1>1. CASE Fetch
  BY <1>1, FetchEffect, TypeNumbers
     DEF Fetch, Numbering
<1>2. CASE SaveReady
  BY <1>2, SaveReadyEffect, TypeNumbers
     DEF SaveReady
<1>3. CASE SaveData
  BY <1>3, SaveDataEffect, TypeNumbers
     DEF SaveData
<1>4. CASE TicketReady
  BY <1>4, TicketReadyEffect, TypeNumbers
     DEF TicketReady
<1>5. CASE ResultTake
  BY <1>5, ResultTakeEffect, TypeNumbers
     DEF ResultTake
<1>6. CASE CreateLock
  BY <1>6, AskedEffect, TypeNumbers
     DEF CreateLock, Numbering
<1>7. CASE CreateInsert
  <2>1. /\ DOMAIN tickets' = DOMAIN tickets \cup {id} /\ id > cur_id
        /\ \A m \in DOMAIN tickets : tickets'[m] = tickets[m]
        /\ UNCHANGED <<id, cur_id, wpc, asked>>
    BY <1>7, CreateInsertEffect DEF CreateInsert
  <2>2. QED
    BY <2>1, TypeNumbers
<1>8. CASE Process
  BY <1>8, TypeNumbers
     DEF Process
<1>9. CASE InitThreads
  BY <1>9
     DEF InitThreads, Lifetime, InHand
<1>10. CASE Stop \/ RconJoin \/ ExitProcess \/ Join
  BY <1>10
     DEF Stop, RconJoin, ExitProcess, Join
<1>11. CASE DirectReturn
  BY <1>11
     DEF DirectReturn
<1>12. CASE InvalidCommand
  BY <1>12
     DEF InvalidCommand
<1>13. CASE Start \/ Loop \/ Peek \/ RunCommand \/ CheckId
  BY <1>13
     DEF Start, Loop, Peek, RunCommand, CheckId
<1>14. CASE TryLock \/ Lock \/ PeekAgain \/ CheckIdAgain \/ LowPeek
  BY <1>14
     DEF TryLock, Lock, PeekAgain, CheckIdAgain, LowPeek
<1>15. CASE ResultLock \/ (\E c \in Calls : ExecuteHigh(c)) \/
            (\E c \in Calls : ExecuteLow(c)) \/
            (\E c \in Calls : CreateTicket(c)) \/
            (\E c \in Calls : DirectCall(c))
  BY <1>15
     DEF ResultLock, ExecuteHigh, ExecuteLow, CreateTicket, DirectCall
<1>16. CASE (\E n \in Numbers : TicketExists(n))
  BY <1>16
     DEF TicketExists
<1>17. CASE UNCHANGED vars
  BY <1>17 DEF vars
<1>18. QED
  BY <1>1, <1>2, <1>3, <1>4, <1>5, <1>6, <1>7, <1>8, <1>9, <1>10,
     <1>11, <1>12, <1>13, <1>14, <1>15, <1>16, <1>17
     DEF Next, WorkerStep, CallBegins, CallContinues, Terminated

(* Each ticket's call is run once. *)
LEMMA RunOnceInOrderStep ==
  ASSUME Inv, [Next]_vars
  PROVE  RunOnceInOrder'
<1> USE DEF queues, locals, worker, args, game, history, shared, WorkerGoes,
            GameGoes, NewCall, Inv, RunOnceInOrder
<1>1. CASE CreateLock
  BY <1>1, AskedEffect, TypeNumbers
     DEF CreateLock, Numbering
<1>2. CASE Process
  BY <1>2, TypeNumbers, SequenceFacts
     DEF Process, InHand, Taken, Numbering, Text
<1>3. CASE Fetch
  BY <1>3, FetchEffect, TypeNumbers
     DEF Fetch, Numbering
<1>4. CASE InitThreads
  BY <1>4
     DEF InitThreads, Lifetime
<1>5. CASE DirectReturn \/ InvalidCommand
  BY <1>5
     DEF DirectReturn, InvalidCommand
<1>6. CASE Stop \/ RconJoin \/ ExitProcess \/ Join
  BY <1>6
     DEF Stop, RconJoin, ExitProcess, Join
<1>7. CASE Start \/ Loop \/ Peek \/ RunCommand \/ CheckId
  BY <1>7
     DEF Start, Loop, Peek, RunCommand, CheckId
<1>8. CASE TryLock \/ Lock \/ SaveReady \/ SaveData \/ PeekAgain
  BY <1>8
     DEF TryLock, Lock, SaveReady, SaveData, PeekAgain
<1>9. CASE CheckIdAgain \/ LowPeek \/ CreateInsert \/ TicketReady \/
           ResultLock
  BY <1>9
     DEF CheckIdAgain, LowPeek, CreateInsert, TicketReady, ResultLock
<1>10. CASE ResultTake \/ (\E c \in Calls : ExecuteHigh(c)) \/
            (\E c \in Calls : ExecuteLow(c)) \/
            (\E c \in Calls : CreateTicket(c)) \/
            (\E c \in Calls : DirectCall(c))
  BY <1>10
     DEF ResultTake, ExecuteHigh, ExecuteLow, CreateTicket, DirectCall
<1>11. CASE (\E n \in Numbers : TicketExists(n))
  BY <1>11
     DEF TicketExists
<1>12. CASE UNCHANGED vars
  BY <1>12 DEF vars
<1>13. QED
  BY <1>1, <1>2, <1>3, <1>4, <1>5, <1>6, <1>7, <1>8, <1>9, <1>10,
     <1>11, <1>12
     DEF Next, WorkerStep, CallBegins, CallContinues, Terminated

(* An answer is the result of its ticket's call. *)
LEMMA AnswerMatchesStep ==
  ASSUME Inv, [Next]_vars
  PROVE  AnswerMatches'
<1> USE DEF queues, locals, worker, args, game, history, shared, WorkerGoes,
            GameGoes, NewCall, Inv, AnswerMatches
<1>1. CASE CreateLock
  BY <1>1, AskedEffect, TypeNumbers
     DEF CreateLock
<1>2. CASE ResultTake
  BY <1>2, ResultTakeEffect, TypeNumbers
     DEF ResultTake, Reply, Result
<1>3. CASE TicketReady
  BY <1>3, TypeNumbers
     DEF TicketReady, Word, Reply, NoOutput
<1>4. CASE CreateInsert
  BY <1>4, TypeNumbers
     DEF CreateInsert, Word, Reply, NoOutput
<1>5. CASE DirectReturn
  BY <1>5, TypeNumbers
     DEF DirectReturn, Word, Reply, NoOutput
<1>6. CASE InvalidCommand
  BY <1>6, TypeNumbers
     DEF InvalidCommand, Word, Reply, NoOutput
<1>7. CASE (\E c \in Calls : ExecuteHigh(c))
  BY <1>7, TypeNumbers
     DEF ExecuteHigh, Word, Reply, NoOutput
<1>8. CASE (\E c \in Calls : ExecuteLow(c))
  BY <1>8, TypeNumbers
     DEF ExecuteLow, Word, Reply, NoOutput
<1>9. CASE (\E c \in Calls : CreateTicket(c))
  BY <1>9, TypeNumbers
     DEF CreateTicket, Word, Reply, NoOutput
<1>10. CASE (\E n \in Numbers : TicketExists(n))
  BY <1>10, TypeNumbers
     DEF TicketExists, Word, Reply, NoOutput
<1>11. CASE (\E c \in Calls : DirectCall(c))
  BY <1>11, TypeNumbers
     DEF DirectCall, Word, Reply, NoOutput
<1>12. CASE Start \/ Loop \/ Peek \/ RunCommand \/ CheckId
  BY <1>12
     DEF Start, Loop, Peek, RunCommand, CheckId
<1>13. CASE TryLock \/ Fetch \/ Process \/ Lock \/ SaveReady
  BY <1>13
     DEF TryLock, Fetch, Process, Lock, SaveReady
<1>14. CASE SaveData \/ PeekAgain \/ CheckIdAgain \/ LowPeek \/ InitThreads
  BY <1>14
     DEF SaveData, PeekAgain, CheckIdAgain, LowPeek, InitThreads
<1>15. CASE ResultLock \/ Stop \/ RconJoin \/ ExitProcess \/ Join
  BY <1>15
     DEF ResultLock, Stop, RconJoin, ExitProcess, Join
<1>16. CASE UNCHANGED vars
  BY <1>16 DEF vars
<1>17. QED
  BY <1>1, <1>2, <1>3, <1>4, <1>5, <1>6, <1>7, <1>8, <1>9, <1>10,
     <1>11, <1>12, <1>13, <1>14, <1>15, <1>16
     DEF Next, WorkerStep, CallBegins, CallContinues, Terminated

----------------------------------------------------------------------------
(* The invariant, and what it shows of every behaviour. *)

LEMMA InitInv ==
  ASSUME Init
  PROVE  Inv
<1> USE DEF Init
<1>1. TypeOK
  <2>1. /\ DOMAIN tickets \subseteq Nat
        /\ tickets \in [DOMAIN tickets -> WorkerData]
    <3>1. DOMAIN tickets = {} /\ tickets = [n \in {} |-> n]
      BY SequenceFacts
    <3>2. QED
      BY <3>1
  <2>2. /\ wpc \in WorkerStates /\ gpc \in GameStates
        /\ ticket \in WorkerData /\ output \in Outputs
    BY States, StringTypes, ReplyTypes
  <2>3. /\ commands \in Seq(Calls) /\ low_commands \in Seq(Calls)
        /\ asked \in Seq(Calls) /\ ran \in Seq(Calls)
    OBVIOUS
  <2>4. run_flag \in BOOLEAN /\ worker_working \in BOOLEAN
    OBVIOUS
  <2> HIDE DEF Init
  <2>5. QED
    BY <2>1, <2>2, <2>3, <2>4 DEF TypeOK, Nobody, Init
<1>2. MutexOwner /\ Lifetime /\ Taken /\ Polled
  BY DEF MutexOwner, Nobody, Lifetime, NoUseAfterDelete, Taken, InHand, Polled
<1>3. Numbering /\ Waiting /\ Done
  BY DEF Numbering, InHand, Waiting, Done
<1>4. RunOnceInOrder /\ AnswerMatches /\ Overtaking
  BY DEF RunOnceInOrder, AnswerMatches, NoOutput, Word, Reply, Overtaking, Urgent
<1>5. QED
  BY <1>1, <1>2, <1>3, <1>4 DEF Inv

(* Inv holds in every reachable state: initially, and it is kept by every  *)
(* step of either thread.                                                  *)
THEOREM Invariance == Spec => []Inv
<1>1. Init => Inv
  BY InitInv
<1>2. Inv /\ [Next]_vars => Inv'
  BY TypeOKStep, MutexOwnerStep, LifetimeStep, NumberingStep, WaitingStep,
     TakenStep, DoneStep, PolledStep, RunOnceInOrderStep, AnswerMatchesStep,
     OvertakingStep DEF Inv
<1>3. QED
  BY <1>1, <1>2, PTL DEF Spec

(* Every variable keeps its type, whatever the threads do. *)
THEOREM TypeCorrect == Spec => []TypeOK
<1>1. Inv => TypeOK
  BY DEF Inv
<1>2. QED
  BY <1>1, Invariance, PTL

(* No thread ever makes operator[] add an entry to the tickets map, so the *)
(* game thread's lookups without the mutex see a map only it changes.      *)
THEOREM TicketsArePresent == Spec => []TicketPresent
<1>1. Inv => TicketPresent
  BY Present
<1>2. QED
  BY <1>1, Invariance, PTL

(* A poll that returns a result returns the finished result of the call    *)
(* its ticket was created for.                                             *)
THEOREM AnswersMatch == Spec => []AnswerMatches
<1>1. Inv => AnswerMatches
  BY DEF Inv
<1>2. QED
  BY <1>1, Invariance, PTL

(* Tickets are run exactly once each, in the order of their numbers. *)
THEOREM TicketsRunOnceInOrder == Spec => []RunOnceInOrder
<1>1. Inv => RunOnceInOrder
  BY DEF Inv
<1>2. QED
  BY <1>1, Invariance, PTL

(* No more than one low-priority command is started while urgent work is   *)
(* waiting, for any number of tickets and commands.                        *)
THEOREM LowPriorityYields == Spec => []LowOvertakesAtMostOnce
<1>1. Inv => LowOvertakesAtMostOnce
  BY DEF Inv, Overtaking, LowOvertakesAtMostOnce
<1>2. QED
  BY <1>1, Invariance, PTL

(* The worker has ended, or was never started, when its queues are deleted. *)
THEOREM DeleteIsSafe == Spec => []NoUseAfterDelete
<1>1. Inv => NoUseAfterDelete
  BY DEF Inv, Lifetime
<1>2. QED
  BY <1>1, Invariance, PTL

----------------------------------------------------------------------------
(* The refinement: what AsyncWorker does is what CallService allows.       *)

(* A ticket that is being created fits, and the buffer is blank while the  *)
(* game thread waits to create it.                                         *)
Fits ==
  /\ id <= MaxTicket
  /\ gpc = "createLock" => id < MaxTicket /\ output = NoOutput

LEMMA FitsStep ==
  ASSUME Inv, Fits, [Next]_vars
  PROVE  Fits'
<1> USE TypeNumbers, BoundsAssumption
    DEF Fits, queues, locals, worker, args, game, history, shared, WorkerGoes,
        GameGoes, NewCall
<1>1. CASE WorkerStep
  BY <1>1 DEF WorkerStep, Start, Loop, Peek, RunCommand, CheckId, TryLock, Fetch,
              Process, Lock, SaveReady, SaveData, PeekAgain, CheckIdAgain, LowPeek
<1>2. CASE CallBegins
  BY <1>2 DEF CallBegins, InitThreads, ExecuteHigh, ExecuteLow, CreateTicket,
              DirectCall, TicketExists, InvalidCommand, Stop, RconJoin, ExitProcess
<1>3. CASE CallContinues
  BY <1>3 DEF CallContinues, CreateLock, CreateInsert, TicketReady, ResultLock,
              ResultTake, DirectReturn, Join
<1>4. CASE Terminated \/ UNCHANGED vars
  BY <1>4 DEF Terminated, vars
<1>5. QED
  BY <1>1, <1>2, <1>3, <1>4 DEF Next

LEMMA Fitting == Spec => []Fits
<1>1. Init => Fits
  BY BoundsAssumption DEF Init, Fits
<1>2. Inv /\ Fits /\ [Next]_vars => Fits'
  BY FitsStep
<1>3. QED
  BY <1>1, <1>2, Invariance, PTL DEF Spec

(* What the abstract service is seen to be in a state of the threads: the  *)
(* phase of each ticket, the call being run, the last answer.              *)
PhaseView ==
  Inv => /\ DOMAIN Box = 1..id
         /\ \A n \in 1..id :
              /\ Box[n] = [call |-> asked[n], phase |-> Box[n].phase]
              /\ n > cur_id => Box[n].phase = "queued"
              /\ n = cur_id /\ Running => Box[n].phase = "running"
              /\ n <= cur_id /\ ~(n = cur_id /\ Running) /\ n \in DOMAIN tickets
                   => Box[n].phase = "done"
              /\ n <= cur_id /\ n \notin DOMAIN tickets => Box[n].phase = "taken"

BusyView ==
  /\ gpc # "exited" =>
       /\ wpc = "command" => Busy = Service!Running("high", command)
       /\ wpc = "lowCommand" => Busy = Service!Running("low", command)
       /\ Running => Busy = Service!Running("ticket", ticket.data.call)
  /\ gpc = "exited" => Busy = Service!Idle
  /\ wpc \notin {"command", "lowCommand"} /\ ~Running => Busy = Service!Idle

AnswerView ==
  /\ \A kind \in {"EMPTY", "WAIT"} : \A n : output = Word(kind, n) =>
       Answer = [kind |-> kind, n |-> n, call |-> NoCall]
  /\ \A c, n : output = Reply("result", n, Result(c)) =>
       Answer = [kind |-> "result", n |-> n, call |-> c]
  /\ \A kind \in {"none", "ticket", "direct", "INVALID COMMAND"} : \A n, d :
       output = Reply(kind, n, d) => Answer = Service!NoAnswer

LEMMA PhaseSeen == PhaseView
<1> SUFFICES ASSUME Inv PROVE PhaseView!2
  BY DEF PhaseView
<1>1. Len(asked) = id /\ id \in Nat /\ cur_id \in Nat
  BY TypeNumbers
<1>2. Running => cur_id \in DOMAIN tickets
  BY DEF Inv, Numbering, InHand, Running
<1>3. QED
  BY <1>1, <1>2 DEF Box, TicketPhase

LEMMA BusySeen == BusyView
BY DEF BusyView, Busy, Running, Service!Running, Service!Idle

LEMMA AnswerSeen == AnswerView
<1>1. \A c : ~Text(c).run /\ Result(c).run /\ Result(c).call = c
  BY DEF Text, Result, callExtension
<1>2. \A kind, n, d : output = Reply(kind, n, d) =>
         output.kind = kind /\ output.n = n /\ output.data = d
  BY DEF Reply
<1>3. ASSUME NEW kind \in {"EMPTY", "WAIT"}, NEW n, output = Word(kind, n)
      PROVE  Answer = [kind |-> kind, n |-> n, call |-> NoCall]
  BY <1>1, <1>2, <1>3 DEF Answer, Word
<1>4. ASSUME NEW c, NEW n, output = Reply("result", n, Result(c))
      PROVE  Answer = [kind |-> "result", n |-> n, call |-> c]
  BY <1>1, <1>2, <1>4 DEF Answer
<1>5. ASSUME NEW kind \in {"none", "ticket", "direct", "INVALID COMMAND"}, NEW n, NEW d,
             output = Reply(kind, n, d)
      PROVE  Answer = Service!NoAnswer
  BY <1>2, <1>5 DEF Answer, Service!NoAnswer
<1>6. QED
  BY <1>3, <1>4, <1>5 DEF AnswerView

LEMMA ViewAfter == PhaseView' /\ BusyView' /\ AnswerView'
BY PhaseSeen, BusySeen, AnswerSeen, PTL

(* A step that leaves the numbers, the calls asked, and for every ticket   *)
(* whether it is in the map and whether it is in hand, leaves the box.     *)
LEMMA BoxKept ==
  ASSUME Len(asked) \in Nat, cur_id' = cur_id, asked' = asked,
         \A n \in 1..Len(asked) : n \in DOMAIN tickets' <=> n \in DOMAIN tickets,
         Running' <=> Running
  PROVE  Box' = Box
BY DEF Box, TicketPhase

(* Threads step while the process is there. *)
LEMMA ProcessRuns ==
  ASSUME WorkerStep \/ CallContinues \/ CallBegins
  PROVE  gpc # "exited" /\ (gpc' # "exited" \/ ExitProcess)
<1> USE DEF game, WorkerGoes, GameGoes, NewCall
<1>1. CASE WorkerStep
  BY <1>1 DEF WorkerStep, Start, Loop, Peek, RunCommand, CheckId, TryLock, Fetch,
              Process, Lock, SaveReady, SaveData, PeekAgain, CheckIdAgain, LowPeek
<1>2. CASE CallBegins
  BY <1>2 DEF CallBegins, InitThreads, ExecuteHigh, ExecuteLow, CreateTicket,
              DirectCall, TicketExists, InvalidCommand, Stop, RconJoin, ExitProcess
<1>3. CASE CallContinues
  BY <1>3 DEF CallContinues, CreateLock, CreateInsert, TicketReady, ResultLock,
              ResultTake, DirectReturn, Join
<1>4. QED
  BY <1>1, <1>2, <1>3

(* The steps of the threads no script can see. *)
LEMMA Hidden ==
  ASSUME Inv,
         \/ Loop \/ CheckId \/ TryLock \/ Process \/ Lock \/ SaveData \/ PeekAgain
         \/ CheckIdAgain \/ InitThreads \/ ResultLock \/ Join \/ RconJoin
         \/ Terminated
         \/ TicketReady /\ gpc' = "resultLock"
         \/ (Peek \/ LowPeek) /\ wpc' \in {"checkId", "loop"}
         \/ UNCHANGED vars
  PROVE  UNCHANGED Service!vars
<1> USE DEF queues, locals, worker, args, game, history, shared, WorkerGoes,
            GameGoes, Running
<1>1. Len(asked) \in Nat
  BY TypeNumbers
<1>2. /\ wpc = "off" <=> ~worker_working
      /\ TicketReady => tickets' = tickets
      /\ SaveData => DOMAIN tickets' = DOMAIN tickets
  BY SaveDataEffect, TicketReadyEffect DEF Inv, Lifetime
<1>3. /\ cur_id' = cur_id /\ asked' = asked /\ DOMAIN tickets' = DOMAIN tickets
      /\ Running' <=> Running
      /\ output' = output /\ UNCHANGED <<commands, low_commands, run_flag>>
  BY <1>2 DEF Loop, CheckId, TryLock, Process, Lock, SaveData, PeekAgain, CheckIdAgain,
              InitThreads, ResultLock, Join, RconJoin, Terminated, TicketReady, Peek, LowPeek, vars
<1>. gpc' = "exited" <=> gpc = "exited"
  BY DEF Loop, CheckId, TryLock, Process, Lock, SaveData, PeekAgain, CheckIdAgain, NewCall,
         InitThreads, ResultLock, Join, RconJoin, Terminated, TicketReady, Peek, LowPeek, vars
<1>4. Busy' = Busy
  <2>1. Process => ticket'.data.call = ticket.data.call
    <3>1. ticket.data \in Strings
      BY SetMember DEF Inv, TypeOK
    <3>2. QED
      BY <3>1 DEF Process, callExtension, Strings
  <2>2. CASE Running
    <3>1. Running' /\ ticket'.data.call = ticket.data.call
      BY <1>3, <2>1, <2>2 DEF Loop, CheckId, TryLock, Lock, SaveData, PeekAgain,
         CheckIdAgain, InitThreads, ResultLock, Join, RconJoin, Terminated, TicketReady, Peek, LowPeek, vars
    <3>2. QED
      BY <2>2, <3>1, BusySeen, ViewAfter DEF BusyView
  <2>3. CASE ~Running
    <3>1. /\ (~Running' /\ wpc \notin {"command", "lowCommand"}) \/ UNCHANGED <<wpc, command>>
          /\ wpc' \notin {"command", "lowCommand"} \/ UNCHANGED <<wpc, command>>
      BY <1>2, <1>3, <2>3 DEF Loop, CheckId, TryLock, Process, Lock, SaveData, PeekAgain,
         CheckIdAgain, InitThreads, ResultLock, Join, RconJoin, Terminated, TicketReady, Peek, LowPeek, vars
    <3>2. QED
      BY <1>3, <2>3, <3>1, BusySeen, ViewAfter DEF BusyView, Service!Running
  <2>4. QED
    BY <2>2, <2>3
<1>5. Box' = Box
  BY <1>1, <1>3, BoxKept
<1>6. Answer' = Answer
  BY <1>3 DEF Answer
<1>7. QED
  BY <1>3, <1>4, <1>5, <1>6 DEF Service!vars

(* Commands are started and finished. *)
LEMMA CommandSteps ==
  ASSUME Inv, Inv', Peek \/ LowPeek \/ RunCommand
  PROVE  Service!Next \/ UNCHANGED Service!vars
<1> USE DEF queues, locals, game, history, shared, WorkerGoes, Running
<1> gpc # "exited" /\ gpc' # "exited"
  BY ProcessRuns DEF WorkerStep, Peek, LowPeek, RunCommand, ExitProcess, GameGoes
<1>1. CASE wpc' \in {"checkId", "loop"} /\ ~RunCommand
  BY <1>1, Hidden
<1>2. CASE RunCommand \/ wpc' \notin {"checkId", "loop"}
  <2>1. Box' = Box
    BY <1>2, TypeNumbers, BoxKept DEF Peek, LowPeek, RunCommand
  <2>2. Answer' = Answer
    BY <1>2 DEF Answer, Peek, LowPeek, RunCommand
  <2>3. CASE Peek /\ wpc' = "command"
    <3>1. Service!StartHigh
      BY <2>1, <2>2, <2>3, BusySeen, ViewAfter DEF Peek, BusyView, Service!StartHigh
    <3>2. QED
      BY <3>1 DEF Service!Next, Service!Start
  <2>4. CASE LowPeek /\ wpc' = "lowCommand"
    <3>1. Service!StartLow
      BY <2>1, <2>2, <2>4, BusySeen, ViewAfter DEF LowPeek, BusyView, Service!StartLow
    <3>2. QED
      BY <3>1 DEF Service!Next, Service!Start
  <2>5. CASE RunCommand
    <3>1. Service!FinishCommand
      BY <2>1, <2>2, <2>5, BusySeen, ViewAfter
         DEF RunCommand, BusyView, Service!FinishCommand, Service!Running
    <3>2. QED
      BY <3>1 DEF Service!Next, Service!Finish
  <2>6. QED
    BY <1>2, <2>3, <2>4, <2>5 DEF Peek, LowPeek
<1>3. QED
  BY <1>1, <1>2

(* A change of one ticket's phase. *)
LEMMA BoxChanged ==
  ASSUME Inv, Inv', PhaseView, PhaseView', NEW n \in 1..id,
         id' = id, asked' = asked,
         \A m \in (1..id) \ {n} : Box'[m].phase = Box[m].phase
  PROVE  Box' = [Box EXCEPT ![n].phase = Box'[n].phase]
<1>1. /\ DOMAIN Box = 1..id /\ DOMAIN Box' = 1..id
      /\ \A m \in 1..id : /\ Box[m] = [call |-> asked[m], phase |-> Box[m].phase]
                          /\ Box'[m] = [call |-> asked[m], phase |-> Box'[m].phase]
  BY DEF PhaseView
<1>2. DOMAIN Box' = DOMAIN [Box EXCEPT ![n].phase = Box'[n].phase]
  BY <1>1
<1>3. \A m \in 1..id : Box'[m] = [Box EXCEPT ![n].phase = Box'[n].phase][m]
  BY <1>1
<1>4. QED
  BY <1>1, <1>2, <1>3 DEF Box

(* A ticket is taken up. *)
LEMMA FetchStarts ==
  ASSUME Inv, Inv', Fetch
  PROVE  Service!StartTicket(cur_id + 1)
<1> DEFINE n == cur_id + 1
<1>1. n \in 1..id /\ ticket'.data = Text(asked[n]) /\ cur_id \in Nat /\ tickets' = tickets
  BY FetchEffect, TypeNumbers
<1>2. /\ cur_id' = n /\ asked' = asked /\ id' = id
      /\ wpc = "fetch" /\ wpc' = "process" /\ output' = output
      /\ UNCHANGED <<commands, low_commands, run_flag>>
      /\ gpc # "exited" /\ gpc' # "exited"
  BY DEF Fetch, WorkerGoes, game, queues, history
<1>3. ~Running /\ Running' /\ ticket'.data.call = asked[n]
  BY <1>1, <1>2 DEF Running, Text
<1>4. Busy = Service!Idle /\ Busy' = Service!Running("ticket", asked[n])
  BY <1>2, <1>3, BusySeen, ViewAfter DEF BusyView
<1>5. Box[n].phase = "queued" /\ Box[n].call = asked[n] /\ Box'[n].phase = "running"
  BY <1>1, <1>2, <1>3, PhaseSeen, ViewAfter DEF PhaseView
<1>6. \A m \in 1..(n - 1) : Box[m].phase # "queued"
  <2> TAKE m \in 1..(n - 1)
  <2>1. m \in 1..id /\ m <= cur_id /\ ~(m = cur_id /\ Running)
    BY <1>1, <1>3, TypeNumbers
  <2>2. Box[m].phase \in {"done", "taken"}
    BY <2>1, PhaseSeen DEF PhaseView
  <2>3. QED
    BY <2>2
<1>7. \A m \in (1..id) \ {n} : Box'[m].phase = Box[m].phase
  <2> TAKE m \in (1..id) \ {n}
  <2>1. CASE m > n
    BY <2>1, <1>1, <1>2, PhaseSeen, ViewAfter DEF PhaseView
  <2>2. CASE m < n
    BY <2>2, <1>1, <1>2, <1>3, PhaseSeen, ViewAfter DEF PhaseView
  <2>3. QED
    BY <2>1, <2>2, <1>1
<1>8. Box' = [Box EXCEPT ![n].phase = "running"]
  BY <1>1, <1>2, <1>5, <1>7, BoxChanged, PhaseSeen, ViewAfter
<1>9. Answer' = Answer /\ n \in DOMAIN Box
  BY <1>1, <1>2, PhaseSeen DEF Answer, PhaseView
<1> HIDE DEF n
<1>10. QED
  BY <1>2, <1>4, <1>5, <1>6, <1>8, <1>9 DEF Service!StartTicket, n

(* Its result is there to be collected. *)
LEMMA SaveFinishes ==
  ASSUME Inv, Inv', SaveReady
  PROVE  Service!FinishTicket(cur_id)
<1>1. cur_id \in DOMAIN tickets /\ DOMAIN tickets' = DOMAIN tickets
  BY SaveReadyEffect
<1>2. cur_id \in 1..id /\ cur_id \in Nat /\ id \in Nat
  BY <1>1, TypeNumbers DEF Inv, Numbering
<1>3. /\ cur_id' = cur_id /\ asked' = asked /\ id' = id
      /\ wpc = "saveReady" /\ wpc' = "saveData" /\ output' = output
      /\ UNCHANGED <<commands, low_commands, run_flag>>
      /\ gpc # "exited" /\ gpc' # "exited"
  BY DEF SaveReady, WorkerGoes, game, queues, history
<1>4. Running /\ ~Running'
  BY <1>3 DEF Running
<1>5. Busy.kind = "ticket" /\ Busy' = Service!Idle
  BY <1>3, <1>4, BusySeen, ViewAfter DEF BusyView, Service!Running
<1>6. Box[cur_id].phase = "running" /\ Box'[cur_id].phase = "done"
  BY <1>1, <1>2, <1>3, <1>4, PhaseSeen, ViewAfter DEF PhaseView
<1>7. \A m \in (1..id) \ {cur_id} : Box'[m].phase = Box[m].phase
  BY <1>1, <1>2, <1>3, PhaseSeen, ViewAfter DEF PhaseView
<1>8. Box' = [Box EXCEPT ![cur_id].phase = "done"]
  BY <1>2, <1>3, <1>6, <1>7, BoxChanged, PhaseSeen, ViewAfter
<1>9. Answer' = Answer /\ cur_id \in DOMAIN Box
  BY <1>2, <1>3, PhaseSeen DEF Answer, PhaseView
<1>10. QED
  BY <1>3, <1>5, <1>6, <1>8, <1>9 DEF Service!FinishTicket

(* A call that is not a poll: it wipes the last answer. *)
LEMMA OtherCalls ==
  ASSUME Inv, Inv', Fits, CallBegins, ~InitThreads, ~RconJoin,
         \A n \in Numbers : ~TicketExists(n)
  PROVE  Service!Next
<1> USE DEF queues, locals, worker, args, game, history, shared, GameGoes, NewCall
<1>1. /\ cur_id' = cur_id /\ asked' = asked /\ tickets' = tickets
      /\ wpc' = wpc /\ command' = command /\ ticket' = ticket
  BY DEF CallBegins, ExecuteHigh, ExecuteLow, CreateTicket, DirectCall, InvalidCommand,
         Stop, ExitProcess
<1>2. Box' = Box
  BY <1>1, TypeNumbers, BoxKept DEF Running
<1>. ~ExitProcess => Busy' = Busy
  BY <1>1, ProcessRuns DEF Busy, Running
<1>3. CASE Stop \/ ExitProcess
  <2>1. Stop => Service!Close
    BY <1>2 DEF Stop, ExitProcess, Answer, Service!Close
  <2>2. ExitProcess => Service!Exit
    <3>1. ExitProcess => gpc' = "exited"
      BY DEF ExitProcess
    <3>2. ExitProcess => Busy' = Service!Idle
      BY <3>1, ViewAfter DEF BusyView
    <3>3. QED
      BY <1>2, <3>2 DEF ExitProcess, Answer, Service!Exit
  <2>3. QED
    BY <1>3, <2>1, <2>2 DEF Service!Next
<1>4. CASE ~Stop /\ ~ExitProcess
  <2>1. output' = NoOutput \/ output' = Word("INVALID COMMAND", 0)
    BY <1>4 DEF CallBegins, ExecuteHigh, ExecuteLow, CreateTicket, DirectCall, InvalidCommand
  <2>2. Answer' = Service!NoAnswer
    BY <2>1, ViewAfter DEF AnswerView, NoOutput, Word
  <2>3. ASSUME NEW c \in Calls, ExecuteHigh(c)
        PROVE  Service!SubmitHigh(c)
    BY <1>2, <1>4, <2>2, <2>3 DEF ExecuteHigh, Service!SubmitHigh
  <2>4. ASSUME NEW c \in Calls, ExecuteLow(c)
        PROVE  Service!SubmitLow(c)
    BY <1>2, <1>4, <2>2, <2>4 DEF ExecuteLow, Service!SubmitLow
  <2>5. ASSUME NEW c \in Calls, CreateTicket(c) \/ DirectCall(c)
        PROVE  Service!Forget
    BY <1>2, <1>4, <2>2, <2>5 DEF CreateTicket, DirectCall, Service!Forget
  <2>6. InvalidCommand => Service!Forget
    BY <1>2, <1>4, <2>2 DEF InvalidCommand, Service!Forget
  <2>7. QED
    BY <1>4, <2>3, <2>4, <2>5, <2>6 DEF CallBegins, Service!Next
<1>5. QED
  BY <1>3, <1>4

(* The ticket is asked for when the mutex has been taken. *)
LEMMA CreateAsks ==
  ASSUME Inv, Inv', Fits, CreateLock
  PROVE  Service!Next
<1>1. /\ asked' \in Seq(Calls) /\ Len(asked') = id + 1 /\ id' = id + 1
      /\ cmd \in Calls /\ asked' = Append(asked, cmd)
      /\ asked'[id + 1] = cmd /\ \A n \in 1..id : asked'[n] = asked[n]
  BY AskedEffect DEF CreateLock
<1>2. /\ output' = output /\ output = NoOutput /\ cur_id' = cur_id /\ tickets' = tickets
      /\ UNCHANGED <<commands, low_commands, run_flag, wpc, command, ticket>>
      /\ gpc # "exited" /\ gpc' # "exited"
  BY DEF CreateLock, Fits, GameGoes, queues, worker, locals
<1>3. Answer' = Service!NoAnswer /\ Busy' = Busy
  BY <1>2, ViewAfter DEF AnswerView, NoOutput, Word, Busy, Running
<1>4. id \in Nat /\ cur_id \in Nat /\ cur_id <= id /\ Len(asked) = id
  BY TypeNumbers DEF Inv, Numbering
<1>5. Box' = Append(Box, [call |-> cmd, phase |-> "queued"])
  <2>1. Box \in Seq({[call |-> asked[n], phase |-> TicketPhase(n)] : n \in 1..id}) /\ Len(Box) = id
    BY <1>4 DEF Box
  <2>2. Box'[id + 1] = [call |-> cmd, phase |-> "queued"] /\ DOMAIN Box' = 1..(id + 1)
    BY <1>1, <1>2, <1>4 DEF Box, TicketPhase
  <2>3. \A n \in 1..id : Box'[n] = Box[n]
    BY <1>1, <1>2, <1>4 DEF Box, TicketPhase, Running
  <2>4. Box' = [n \in 1..(id + 1) |-> Box'[n]]
    BY <2>2 DEF Box
  <2>5. QED
    BY <1>4, <2>1, <2>2, <2>3, <2>4
<1>6. Service!Ask(cmd)
  BY <1>2, <1>3, <1>5 DEF Service!Ask
<1>7. QED
  BY <1>1, <1>6 DEF Service!Next

(* A poll is answered by what the service knows of the ticket. *)
LEMMA PollsExist ==
  ASSUME Inv, Inv', NEW n \in Numbers, TicketExists(n)
  PROVE  Service!Next
<1> USE DEF queues, locals, worker, args, game, history, shared, GameGoes, NewCall
<1>1. /\ cur_id' = cur_id /\ asked' = asked /\ tickets' = tickets
      /\ wpc' = wpc /\ command' = command /\ ticket' = ticket
      /\ UNCHANGED <<commands, low_commands, run_flag>> /\ gpc = "idle" /\ gpc' # "exited"
  BY DEF TicketExists
<1>2. Box' = Box /\ Busy' = Busy
  BY <1>1, TypeNumbers, BoxKept DEF Busy, Running
<1>3. CASE n \in DOMAIN tickets
  <2>1. Answer' = Service!NoAnswer
    BY <1>3, ViewAfter DEF TicketExists, AnswerView, NoOutput, Word
  <2>2. Service!Forget
    BY <1>1, <1>2, <2>1 DEF Service!Forget
  <2>3. QED
    BY <2>2 DEF Service!Next
<1>4. CASE n \notin DOMAIN tickets
  <2>1. Answer' = [kind |-> "EMPTY", n |-> n, call |-> NoCall]
    BY <1>4, ViewAfter DEF TicketExists, AnswerView
  <2>2. n \in 1..id => n <= cur_id
    BY <1>1, <1>4, TypeNumbers DEF Inv, Waiting
  <2>3. ~Service!Known(n)
    BY <1>4, <2>2, PhaseSeen DEF PhaseView, Service!Known
  <2>4. Service!ReplyEmpty(n)
    BY <1>1, <1>2, <2>1, <2>3 DEF Service!ReplyEmpty
  <2>5. QED
    BY <2>4 DEF Service!Next
<1>5. QED
  BY <1>3, <1>4

LEMMA PollsReady ==
  ASSUME Inv, Inv', Fits, TicketReady
  PROVE  Service!Next \/ UNCHANGED Service!vars
<1>1. num \in DOMAIN tickets /\ tickets' = tickets /\ At(num) = tickets[num]
  BY TicketReadyEffect
<1>2. CASE gpc' = "resultLock"
  BY <1>2, Hidden
<1>3. CASE gpc' # "resultLock"
  <2>1. /\ ~tickets[num].ready /\ output' = Word("WAIT", num)
        /\ cur_id' = cur_id /\ asked' = asked /\ wpc' = wpc /\ command' = command
        /\ ticket' = ticket /\ UNCHANGED <<commands, low_commands, run_flag>>
        /\ gpc # "exited" /\ gpc' # "exited"
    BY <1>1, <1>3 DEF TicketReady, GameGoes, queues, worker, locals, history
  <2>2. Box' = Box /\ Busy' = Busy
    BY <1>1, <2>1, TypeNumbers, BoxKept DEF Busy, Running
  <2>3. Answer' = [kind |-> "WAIT", n |-> num, call |-> NoCall]
    BY <2>1, ViewAfter DEF AnswerView
  <2>4. num \in 1..id /\ num \in Numbers
    BY <1>1, TypeNumbers, BoundsAssumption DEF Inv, Numbering, Fits, Numbers
  <2>5. num <= cur_id => num = cur_id /\ Running
    BY <1>1, <2>1 DEF Inv, Done, Taken, InHand, Running
  <2>6. Service!Known(num) /\ Box[num].phase # "done"
    BY <2>4, <2>5, TypeNumbers, PhaseSeen DEF PhaseView, Service!Known
  <2>7. Service!ReplyWait(num)
    BY <2>1, <2>2, <2>3, <2>6 DEF Service!ReplyWait
  <2>8. QED
    BY <2>4, <2>7 DEF Service!Next
<1>4. QED
  BY <1>2, <1>3

LEMMA PollsTake ==
  ASSUME Inv, Inv', Fits, ResultTake
  PROVE  Service!Next
<1>1. /\ num \in DOMAIN tickets /\ num \in 1..id /\ At(num).data = Result(asked[num])
      /\ DOMAIN tickets' = DOMAIN tickets \ {num}
      /\ num <= cur_id /\ (InHand => num # cur_id)
  BY ResultTakeEffect
<1>2. /\ output' = Reply("result", num, Result(asked[num]))
      /\ cur_id' = cur_id /\ asked' = asked /\ id' = id /\ wpc' = wpc /\ command' = command
      /\ ticket' = ticket /\ UNCHANGED <<commands, low_commands, run_flag>>
      /\ gpc # "exited" /\ gpc' # "exited"
  BY <1>1 DEF ResultTake, GameGoes, queues, worker, locals, history
<1>3. num \in Numbers
  BY <1>1, TypeNumbers, BoundsAssumption DEF Fits, Numbers
<1>4. Running => num # cur_id
  BY <1>1 DEF InHand, Running
<1>5. /\ Box[num].phase = "done" /\ Box[num].call = asked[num] /\ num \in DOMAIN Box
      /\ Box'[num].phase = "taken"
  BY <1>1, <1>2, <1>4, PhaseSeen, ViewAfter DEF PhaseView
<1>6. \A m \in (1..id) \ {num} : Box'[m].phase = Box[m].phase
  BY <1>1, <1>2, PhaseSeen, ViewAfter, TypeNumbers DEF PhaseView, Running
<1>7. Box' = [Box EXCEPT ![num].phase = "taken"]
  BY <1>1, <1>2, <1>5, <1>6, BoxChanged, PhaseSeen, ViewAfter
<1>8. Answer' = [kind |-> "result", n |-> num, call |-> asked[num]] /\ Busy' = Busy
  BY <1>2, ViewAfter DEF AnswerView, Busy, Running
<1>9. Service!ReplyResult(num)
  BY <1>2, <1>5, <1>7, <1>8 DEF Service!ReplyResult, Service!Known
<1>10. QED
  BY <1>3, <1>9 DEF Service!Next

(* Steps that change nothing but the flag or the last answer. *)
LEMMA BareSteps ==
  ASSUME Inv, Inv', Start \/ CreateInsert \/ DirectReturn
  PROVE  Service!Next
<1> USE DEF queues, locals, worker, args, game, history, WorkerGoes, GameGoes
<1>1. CASE Start
  <2>1. Box' = Box /\ Busy' = Busy /\ Answer' = Answer
    BY <1>1, TypeNumbers, BoxKept DEF Start, Busy, Running, Answer
  <2>2. Service!Open
    BY <1>1, <2>1 DEF Start, Service!Open
  <2>3. QED
    BY <2>2 DEF Service!Next
<1>2. CASE CreateInsert \/ DirectReturn
  <2>1. Answer' = Service!NoAnswer
    BY <1>2, ViewAfter DEF CreateInsert, DirectReturn, AnswerView, Word
  <2>2. \A n \in 1..id : TicketPhase(n)' = TicketPhase(n)
    BY <1>2, CreateInsertEffect, TypeNumbers
       DEF CreateInsert, DirectReturn, TicketPhase, Running, shared
  <2>3. Box' = Box /\ Busy' = Busy
    BY <1>2, <2>2, TypeNumbers DEF CreateInsert, DirectReturn, Box, Busy, Running
  <2>4. Service!Forget
    BY <1>2, <2>1, <2>3 DEF CreateInsert, DirectReturn, shared, Service!Forget
  <2>5. QED
    BY <2>4 DEF Service!Next
<1>3. QED
  BY <1>1, <1>2

LEMMA Simulation ==
  ASSUME Inv, Inv', Fits, [Next]_vars
  PROVE  [Service!Next]_(Service!vars)
<1>1. CASE WorkerStep
  <2>1. CASE Fetch
    <3>1. cur_id + 1 \in DOMAIN Box
      BY <2>1, FetchEffect, PhaseSeen DEF PhaseView
    <3>2. QED
      BY <2>1, <3>1, FetchStarts DEF Service!Next, Service!Start
  <2>2. CASE SaveReady
    <3>1. cur_id \in DOMAIN Box
      BY <2>2, SaveReadyEffect, PhaseSeen DEF PhaseView, Inv, Numbering
    <3>2. QED
      BY <2>2, <3>1, SaveFinishes DEF Service!Next, Service!Finish
  <2>3. QED
    BY <1>1, <2>1, <2>2, CommandSteps, BareSteps, Hidden DEF WorkerStep
<1>2. CASE CallBegins
  BY <1>2, OtherCalls, PollsExist, Hidden
<1>3. CASE CallContinues
  BY <1>3, CreateAsks, PollsReady, PollsTake, BareSteps, Hidden DEF CallContinues
<1>4. CASE Terminated \/ UNCHANGED vars
  BY <1>4, Hidden
<1>5. QED
  BY <1>1, <1>2, <1>3, <1>4 DEF Next

LEMMA StartsEmpty == Init => Service!Init
<1> SUFFICES ASSUME Init PROVE Service!Init
  OBVIOUS
<1>1. Box = <<>>
  BY DEF Init, Box
<1>2. Busy = Service!Idle
  BY BusySeen DEF Init, BusyView, Running
<1>3. Answer = Service!NoAnswer
  BY AnswerSeen DEF Init, AnswerView, NoOutput, Word
<1>4. QED
  BY <1>1, <1>2, <1>3 DEF Init, Service!Init

(* The threads, the mutex and the map implement the call service: every    *)
(* answer a script gets, and the order in which its calls are run, is one  *)
(* that CallService allows, for any calls, tickets and length of queues.   *)
THEOREM CallServiceImplemented == Spec => ImplementsCallService
<1>1. Init => Service!Init
  BY StartsEmpty
<1>2. Inv /\ Inv' /\ Fits /\ [Next]_vars => [Service!Next]_(Service!vars)
  BY Simulation
<1>3. QED
  BY <1>1, <1>2, Invariance, Fitting, PTL DEF Spec, ImplementsCallService, Service!Spec
=============================================================================
