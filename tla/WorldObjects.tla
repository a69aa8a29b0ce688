----------------------------- MODULE WorldObjects -----------------------------
(***************************************************************************)
(* The persistent world: the handlers of BreakingPointExt.cpp that publish, *)
(* save and remove objects, traps, houses and vehicles, the statements of  *)
(* Database.cpp they execute on tables shared with another instance, and   *)
(* what callExtension does when one fails.                                 *)
(*                                                                         *)
(* A THING is an object, a trap, a house or a vehicle of the mission.  The *)
(* scripts (external) publish, save and remove it, and use one prefix of   *)
(* RVExtension for all calls about one thing: "a" is not answered (nor is  *)
(* "z", another queue of the worker), "s" is by its ticket, "d" is         *)
(* executed by the game thread itself while the worker may be executing a  *)
(* call on the same session.  The worker may take the calls of different   *)
(* prefixes in any order.                                                  *)
(***************************************************************************)
EXTENDS Naturals, Sequences, FiniteSets, Functions

CONSTANTS Deployable, House, Vehicle,  \* the things; traps are deployables
          Unregistered,   \* deployables whose class the table does not know
          Nameless,       \* deployables whose unique_id is 0
          Casts,          \* the sets of things a mission may be made of
          MaxVersion,     \* bound on the states of a thing that are saved
          MaxIds,         \* bound on the rows inserted
          MaxCalls,       \* bound on the calls waiting for the worker
          MaxFailures,    \* bound on failed statements and lost connections
          MaxCrashes      \* bound on the ends of the process

Thing == Deployable \cup House \cup Vehicle
Prefix == {"a", "s", "d"}
Thread == {"worker", "game"}

ASSUME ThingsAssumption ==
  /\ Deployable \cap House = {} /\ Vehicle \cap (Deployable \cup House) = {}
  /\ Unregistered \cup Nameless \subseteq Deployable
  /\ Casts \subseteq SUBSET Thing
ASSUME BoundsAssumption ==
  {MaxVersion, MaxIds, MaxCalls, MaxFailures, MaxCrashes} \subseteq Nat

VARIABLES
  rows,       \* what the tables hold of things
  autoId,     \* the last automatic number given out, over all tables
  lastId,     \* the session's LAST_INSERT_ID()
  waiting,    \* the calls of each prefix that wait for the worker
  running,    \* the call of each thread
  cast,       \* the things of this mission
  prefix,     \* the prefix the scripts use for each thing
  known,      \* what the scripts know of each thing
  up,
  doubt,      \* history: things a call or a select failed about
  overlapped, \* history: the session inserted between a vehicle and its id
  failures, crashes

tables  == <<rows, autoId, lastId>>
calls   == <<waiting, running>>
history == <<doubt, overlapped>>
vars == <<tables, calls, cast, prefix, known, up, history, failures, crashes>>

----------------------------------------------------------------------------
(* Data.  A row is of a thing: it has its unique_id, its building_id, or   *)
(* is its vehicle.  id is the automatic number, uid the unique_id of a     *)
(* house, which is another one each time the house is built.               *)

Row(x, instance, id, uid, version) ==
  [thing |-> x, instance |-> instance, id |-> id, uid |-> uid, version |-> version]
RowsOf(x) == {r \in rows : r.thing = x}
Mine(x)   == {r \in RowsOf(x) : r.instance = "mine"}

(* ident is the unique_id of a house, the id of a vehicle. *)
Call(op, x, ident, version) ==
  [op |-> op, thing |-> x, ident |-> ident, version |-> version]
NoCall == Call("none", "none", 0, 0)

(* What a script knows; version 0 is a thing that is not there. *)
Known(ident, version) == [ident |-> ident, version |-> version]

Init == /\ cast \in Casts
        /\ rows = {Row(x, "other", 0, 1, 1) : x \in cast \ Vehicle}
        /\ autoId = 0 /\ lastId = 0
        /\ waiting = [p \in Prefix \ {"d"} |-> <<>>]
        /\ running = [t \in Thread |-> NoCall]
        /\ prefix \in {f \in [cast -> Prefix] :
                         \A x \in cast \cap Vehicle : f[x] \in {"s", "d"}}
        /\ known = [x \in cast |-> Known(0, 0)]
        /\ up = TRUE
        /\ doubt = {} /\ overlapped = FALSE
        /\ failures = 0 /\ crashes = 0

----------------------------------------------------------------------------
(* External: the scripts. *)

UnderWay == {running[t] : t \in Thread} \cup UNION {Range(waiting[p]) : p \in DOMAIN waiting}
Pending(x) == \E c \in UnderWay : c.thing = x

(* The game thread is not in a call, and makes one. *)
Submit(call) ==
  /\ up /\ running["game"] = NoCall
  /\ LET p == prefix[call.thing]
     IN IF p = "d"
          THEN running' = [running EXCEPT !["game"] = call] /\ UNCHANGED waiting
          ELSE /\ Cardinality(UnderWay) <= MaxCalls
               /\ waiting' = [waiting EXCEPT ![p] = Append(@, call)]
               /\ UNCHANGED running
  /\ UNCHANGED <<tables, cast, prefix, up, history, failures, crashes>>

(* A script knows a vehicle only by the answer, and does not ask twice. *)
Publish(x) ==
  /\ known[x].version = 0
  /\ IF x \in Vehicle
       THEN ~Pending(x) /\ Submit(Call("publish", x, 0, 1)) /\ UNCHANGED known
       ELSE LET ident == IF x \in House THEN known[x].ident + 1 ELSE 0
            IN /\ ident <= MaxVersion
               /\ Submit(Call("publish", x, ident, 1))
               /\ known' = [known EXCEPT ![x] = Known(ident, 1)]

Save(x) == /\ known[x].version \in 1..(MaxVersion - 1)
           /\ x \notin House
           /\ Submit(Call("save", x, known[x].ident, known[x].version + 1))
           /\ known' = [known EXCEPT ![x].version = @ + 1]

Remove(x) == /\ known[x].version > 0
             /\ Submit(Call("remove", x, known[x].ident, 0))
             /\ known' = [known EXCEPT ![x].version = 0]

----------------------------------------------------------------------------
(* The statements, each executed by a thread for its call c. *)

(* Fault: the row is looked up without the instance. *)
TargetAnywhere(c) ==
  {r \in rows : IF c.thing \in Vehicle THEN r.thing \in Vehicle /\ r.id = c.ident
                ELSE r.thing = c.thing}

(* The rows whose key and whose instance_id are those of the call; an      *)
(* identity of 0 is left alone by the handlers.                            *)
Target(c) ==
  {r \in rows : /\ r.instance = "mine"
                /\ IF c.thing \in Vehicle
                     THEN c.ident > 0 /\ r.thing \in Vehicle /\ r.id = c.ident
                     ELSE /\ r.thing = c.thing
                          /\ c.thing \notin Nameless
                          /\ c.thing \in House => r.uid = c.ident}

(* Each table has numbers of its own: what LAST_INSERT_ID() says after an  *)
(* insert into another one is any of them.                                 *)
Insert(x, uid) ==
  /\ autoId < MaxIds
  /\ autoId' = autoId + 1
  /\ IF x \in Vehicle THEN lastId' = autoId' ELSE lastId' \in 1..autoId'
  /\ rows' = rows \cup {Row(x, "mine", autoId', uid, 1)}

(* Fault: a house that stands is inserted once more. *)
PublishRowTwice(c) == IF c.thing \in Unregistered THEN UNCHANGED tables
                      ELSE Insert(c.thing, c.ident)

(* createObject selects from the known classes, and inserts nothing for    *)
(* another; createHouse replaces the row of the same building.             *)
PublishRow(c) ==
  CASE c.thing \in Unregistered -> UNCHANGED tables
    [] c.thing \in House /\ Mine(c.thing) # {} ->
         /\ rows' = (rows \ Mine(c.thing)) \cup
                    {[r EXCEPT !.uid = c.ident] : r \in Mine(c.thing)}
         /\ lastId' \in 0..autoId
         /\ UNCHANGED autoId
    [] OTHER -> Insert(c.thing, c.ident)

SaveRow(c) ==
  /\ rows' = (rows \ Target(c)) \cup {[r EXCEPT !.version = c.version] : r \in Target(c)}
  /\ UNCHANGED <<autoId, lastId>>

RemoveRow(c) == rows' = rows \ Target(c) /\ UNCHANGED <<autoId, lastId>>

Statement(c) == CASE c.op = "publish" -> PublishRow(c)
                  [] c.op = "save"    -> SaveRow(c)
                  [] c.op = "remove"  -> RemoveRow(c)

Other(t) == CHOOSE u \in Thread : u # t

(* The statement changes the last number while the other thread is between *)
(* the insert of a vehicle and the select of its number.                   *)
Overlap(t) == running[Other(t)].op = "select" /\ lastId' # lastId

----------------------------------------------------------------------------
(* The threads. *)

(* The worker takes the next call of one of its queues. *)
Take(p) ==
  /\ up /\ running["worker"] = NoCall /\ waiting[p] # <<>>
  /\ running' = [running EXCEPT !["worker"] = Head(waiting[p])]
  /\ waiting' = [waiting EXCEPT ![p] = Tail(@)]
  /\ UNCHANGED <<tables, cast, prefix, known, up, history, failures, crashes>>

(* The statement of a call is executed.  That of a new vehicle is followed *)
(* by a second one.  Building a house, or removing all that has the        *)
(* unique_id of a deployable, leaves no doubt about it.                    *)
Settles(c) == \/ c.thing \in House /\ c.op = "publish"
              \/ c.thing \in Deployable \ Nameless /\ c.op = "remove"

Execute(t) ==
  /\ running[t].op \in {"publish", "save", "remove"}
  /\ LET c == running[t]
     IN /\ Statement(c)
        /\ running' = [running EXCEPT ![t] =
                         IF c.op = "publish" /\ c.thing \in Vehicle
                           THEN [c EXCEPT !.op = "select"] ELSE NoCall]
        /\ doubt' = IF Settles(c) THEN doubt \ {c.thing} ELSE doubt
  /\ overlapped' = (overlapped \/ Overlap(t))
  /\ UNCHANGED <<waiting, cast, prefix, known, up, failures, crashes>>

(* Fault: the highest number of the table. *)
AnswerHighest == autoId

(* SELECT LAST_INSERT_ID() answers the vehicle's number to the script. *)
Answer == lastId

SelectId(t) ==
  /\ running[t].op = "select"
  /\ known' = [known EXCEPT ![running[t].thing] = Known(Answer, 1)]
  /\ running' = [running EXCEPT ![t] = NoCall]
  /\ UNCHANGED <<tables, waiting, cast, prefix, up, history, failures, crashes>>

----------------------------------------------------------------------------
(* Failures.  callExtension, or getLastInsertId, catches the exception: the *)
(* answer says nothing, or "ERROR", and the call is not made again.        *)

Failure(things) == /\ failures < MaxFailures /\ failures' = failures + 1
                   /\ doubt' = doubt \cup things

(* The call of thread t ends.  A statement fails, or its answer is lost    *)
(* with the connection after it was executed.                              *)
Fail(t) ==
  /\ running[t] # NoCall
  /\ LET c == running[t]
     IN /\ Failure({c.thing})
        /\ \/ UNCHANGED <<tables, overlapped>>
           \/ /\ c.op # "select" /\ Statement(c)
              /\ overlapped' = (overlapped \/ Overlap(t))
  /\ running' = [running EXCEPT ![t] = NoCall]
  /\ UNCHANGED <<waiting, cast, prefix, known, up, crashes>>

(* A lost connection is made again, and knows no last number. *)
Reconnect ==
  /\ up /\ Failure({running[t].thing : t \in {u \in Thread : running[u].op = "select"}})
  /\ lastId' = 0
  /\ UNCHANGED <<rows, autoId, calls, cast, prefix, known, up, overlapped, crashes>>

(* The process dies with its queues. *)
Crash ==
  /\ up /\ crashes < MaxCrashes
  /\ up' = FALSE /\ crashes' = crashes + 1
  /\ doubt' = doubt \cup {x \in cast : Pending(x)}
  /\ waiting' = [p \in DOMAIN waiting |-> <<>>]
  /\ running' = [t \in Thread |-> NoCall]
  /\ UNCHANGED <<tables, cast, prefix, known, overlapped, failures>>

(* serverShutdown, the last call of the mission, removes what has no name. *)
Shutdown ==
  /\ up /\ crashes < MaxCrashes /\ \A x \in cast : ~Pending(x)
  /\ up' = FALSE /\ crashes' = crashes + 1
  /\ rows' = {r \in rows : ~(r.thing \in Nameless /\ r.instance = "mine")}
  /\ known' = [x \in cast |-> IF x \in Nameless THEN Known(0, 0) ELSE known[x]]
  /\ UNCHANGED <<autoId, lastId, calls, cast, prefix, history, failures>>

(* The mission starts again from the streams of objects, houses and        *)
(* vehicles.  One whose select fails is an empty stream.                   *)
Loaded(x) == IF Mine(x) = {} THEN {Known(IF x \in House THEN known[x].ident ELSE 0, 0)}
             ELSE {Known(IF x \in House THEN r.uid ELSE IF x \in Vehicle THEN r.id ELSE 0,
                         r.version) : r \in Mine(x)}

Boot(blind) ==
  /\ ~up /\ up' = TRUE
  /\ known' \in {f \in [cast -> UNION {Loaded(x) : x \in cast} \cup {Known(0, 0)}] :
                   \A x \in cast : IF x \in UNION blind THEN f[x] = Known(0, 0)
                                   ELSE f[x] \in Loaded(x)}
  /\ failures + Cardinality(blind) <= MaxFailures
  /\ failures' = failures + Cardinality(blind)
  /\ doubt' = {x \in cast : x \in UNION blind \/ Cardinality(Mine(x)) > 1}
  /\ overlapped' = FALSE /\ lastId' = 0
  /\ UNCHANGED <<rows, autoId, calls, cast, prefix, crashes>>

(* External: the other instance makes a vehicle. *)
Neighbour(x) ==
  /\ autoId < MaxIds /\ autoId' = autoId + 1
  /\ rows' = rows \cup {Row(x, "other", autoId', 0, 1)}
  /\ UNCHANGED <<lastId, calls, cast, prefix, known, up, history, failures, crashes>>

(* The scripts owe no call, and the bounds may have been reached. *)
Quiet == (UnderWay = {NoCall} \/ autoId = MaxIds) /\ UNCHANGED vars

Next == \/ \E x \in cast : Publish(x) \/ Save(x) \/ Remove(x)
        \/ \E p \in DOMAIN waiting : Take(p)
        \/ \E t \in Thread : Execute(t) \/ SelectId(t) \/ Fail(t)
        \/ Reconnect \/ Crash \/ Shutdown
        \/ \E blind \in SUBSET {Deployable, House, Vehicle} : Boot(blind)
        \/ \E x \in cast \cap Vehicle : Neighbour(x)
        \/ Quiet

Spec == Init /\ [][Next]_vars

----------------------------------------------------------------------------
(* Properties. *)

RowSet  == [thing : cast, instance : {"mine", "other"}, id : Nat, uid : Nat, version : Nat]
CallSet == [op : {"publish", "save", "remove", "select"}, thing : cast, ident : Nat,
            version : Nat]

(* The variables have their types. *)
TypeOK ==
  /\ cast \subseteq Thing
  /\ rows \subseteq RowSet /\ autoId \in 0..MaxIds /\ lastId \in 0..autoId
  /\ waiting \in [Prefix \ {"d"} -> Seq(CallSet)]
  /\ running \in [Thread -> CallSet \cup {NoCall}]
  /\ prefix \in [cast -> Prefix]
  /\ known \in [cast -> [ident : Nat, version : Nat]]
  /\ up \in BOOLEAN /\ doubt \subseteq cast /\ overlapped \in BOOLEAN
  /\ failures \in 0..MaxFailures /\ crashes \in 0..MaxCrashes

(* What the scripts know of a thing is what the tables hold, across        *)
(* crashes and restarts, once all calls about it have been executed and    *)
(* nothing failed about it: one row with its state and identity, or none   *)
(* if it is not there.  A class the table does not know is not kept        *)
(* (createObject answers PASS), a thing without a name is not saved.       *)
Kept(x) == IF known[x].version = 0 \/ x \in Unregistered
             THEN Mine(x) = {}
             ELSE /\ Cardinality(Mine(x)) = 1
                  /\ \A r \in Mine(x) : /\ r.version = known[x].version
                                        /\ x \in House => r.uid = known[x].ident
                                        /\ x \in Vehicle => r.id = known[x].ident
TableFollowsScript ==
  ~overlapped => \A x \in cast \ (doubt \cup Nameless) : ~Pending(x) => Kept(x)

(* The number a script has been given for a vehicle is that of no other    *)
(* vehicle of any instance: a save or a remove never hits another row.     *)
IdsAreTheirs ==
  ~overlapped => \A x \in cast \cap Vehicle, r \in rows :
                   (known[x].ident > 0 /\ r.thing \in Vehicle /\ r.id = known[x].ident)
                     => (r.thing = x /\ r.instance = "mine")

(* No step of this instance changes or removes a row of the other one. *)
NeighboursUntouched ==
  [][\A r \in rows : r.instance = "other" => r \in rows']_rows

=============================================================================
