----------------------------- MODULE ObjectStream -----------------------------
(***************************************************************************)
(* The streams through which the mission loads the persistent world: the   *)
(* handlers 101 to 104 and 900 of BreakingPointExt.cpp, the queue they     *)
(* share, and the populate functions of Database.cpp.                      *)
(*                                                                         *)
(* A call that finds the queue empty fills it from a table and answers     *)
(* with a header; any other call takes a row, whatever stream it asked     *)
(* for.  A call is one step, as the worker executes calls one by one.      *)
(* External: the scripts, which ask for a header and then for as many rows *)
(* as it says, and give a stream up when the answer is not what they wait  *)
(* for.                                                                    *)
(***************************************************************************)
EXTENDS Naturals, Sequences

CONSTANTS Script,       \* the scripts that load something
          streams,      \* the streams each loads, in order
          rows,         \* the number of rows of each table
          MaxFailures   \* bound on the statements that fail

Kind == {"Object", "Vehicle", "House", "Trap", "Custom"}

ASSUME StreamsAssumption == streams \in [Script -> Seq(Kind)]
ASSUME RowsAssumption == rows \in [Kind -> Nat]
ASSUME FailuresAssumption == MaxFailures \in Nat

VARIABLES
  objectQueue,
  todo,       \* the streams each script has still to load
  left, got,  \* the rows it waits for, those of this stream it has
  header,     \* history: the kind and size of the last header...
  since,      \* ... and the rows answered since
  whole,      \* history: that stream was filled without a failure
  mixed,      \* history: a script called while another was under way
  failures    \* history

vars == <<objectQueue, todo, left, got, header, since, whole, mixed, failures>>

(* The first rows of a table, in its order. *)
Rows(kind, size) == [n \in 1..size |-> [kind |-> kind, n |-> n]]
Header(kind, size) == [kind |-> kind, size |-> size]

Init == /\ objectQueue = <<>>
        /\ todo = streams
        /\ left = [s \in Script |-> 0] /\ got = [s \in Script |-> <<>>]
        /\ header = Header("Custom", 0) /\ since = <<>>
        /\ whole = FALSE /\ mixed = FALSE /\ failures = 0

----------------------------------------------------------------------------
(* External: what a script does with an answer. *)

GivesUp(s) == /\ todo' = [todo EXCEPT ![s] = Tail(@)]
              /\ left' = [left EXCEPT ![s] = 0]
              /\ got' = [got EXCEPT ![s] = <<>>]

TakesHeader(s, size) ==
  IF left[s] = 0 /\ size > 0
    THEN /\ left' = [left EXCEPT ![s] = size]
         /\ got' = [got EXCEPT ![s] = <<>>]
         /\ UNCHANGED todo
    ELSE GivesUp(s)

TakesRow(s, row) ==
  IF left[s] > 1
    THEN /\ left' = [left EXCEPT ![s] = @ - 1]
         /\ got' = [got EXCEPT ![s] = Append(@, row)]
         /\ UNCHANGED todo
    ELSE GivesUp(s)

(* Script s calls. *)
UnderWay(s) == left[s] > 0 \/ todo[s] \notin {<<>>, streams[s]}

Turn(s) == /\ todo[s] # <<>>
           /\ mixed' = (mixed \/ \E t \in Script \ {s} : UnderWay(t))

----------------------------------------------------------------------------
(* The populate functions.  They catch a failure, of the statement or of a *)
(* row in the middle, and leave in the queue what they have put there.     *)

Populate(kind) ==
  \/ /\ objectQueue' = objectQueue \o Rows(kind, rows[kind])
     /\ whole' = TRUE
     /\ UNCHANGED failures
  \/ /\ failures < MaxFailures /\ failures' = failures + 1
     /\ \E size \in 0..rows[kind] : objectQueue' = objectQueue \o Rows(kind, size)
     /\ whole' = FALSE

(* The handlers: the queue is empty. *)
Begin(s) == /\ Turn(s) /\ Head(todo[s]) # "Custom"
            /\ objectQueue = <<>>
            /\ Populate(Head(todo[s]))
            /\ header' = Header(Head(todo[s]), Len(objectQueue'))
            /\ since' = <<>>
            /\ TakesHeader(s, Len(objectQueue'))

(* populateHackData asks for tables that are not in the schema, and lets   *)
(* the failure through: the script gets no answer.                         *)
BeginCustom(s) == /\ Turn(s) /\ Head(todo[s]) = "Custom"
                  /\ objectQueue = <<>>
                  /\ GivesUp(s)
                  /\ UNCHANGED <<objectQueue, header, since, whole, failures>>

(* Fault: the row stays in the queue. *)
NextRowKeep(s) == /\ Turn(s)
                  /\ objectQueue # <<>>
                  /\ since' = Append(since, Head(objectQueue))
                  /\ TakesRow(s, Head(objectQueue))
                  /\ UNCHANGED <<objectQueue, header, whole, failures>>

(* The queue is not empty. *)
NextRow(s) == /\ Turn(s)
              /\ objectQueue # <<>>
              /\ objectQueue' = Tail(objectQueue)
              /\ since' = Append(since, Head(objectQueue))
              /\ TakesRow(s, Head(objectQueue))
              /\ UNCHANGED <<header, whole, failures>>

Done == (\A s \in Script : todo[s] = <<>>) /\ UNCHANGED vars

Next == (\E s \in Script : Begin(s) \/ BeginCustom(s) \/ NextRow(s)) \/ Done

Spec == Init /\ [][Next]_vars

----------------------------------------------------------------------------
(* Properties. *)

(* The queue holds rows of one table only, and no more than it has. *)
TypeOK == /\ objectQueue \in Seq([kind : {header.kind}, n : 1..rows[header.kind]])
          /\ Len(objectQueue) <= rows[header.kind]
          /\ todo \in [Script -> Seq(Kind)]
          /\ left \in [Script -> Nat]
          /\ got \in [Script -> Seq([kind : Kind, n : Nat])]
          /\ header \in [kind : Kind, size : Nat]
          /\ since \in Seq([kind : Kind, n : Nat])
          /\ whole \in BOOLEAN /\ mixed \in BOOLEAN /\ failures \in 0..MaxFailures

(* However the calls of the scripts interleave, a header is followed by as *)
(* many rows as it says, and they are the first rows of its table, each    *)
(* once and in order: all of them, unless filling the queue failed.  As    *)
(* long as the scripts load one after the other they get their own         *)
(* streams: the header is of the table one asked for, the rows one has are *)
(* those answered since, and nothing is left for the next.                 *)
StreamsKeepApart ==
  /\ header.size = Len(since) + Len(objectQueue)
  /\ since \o objectQueue = Rows(header.kind, header.size)
  /\ whole => header.size = rows[header.kind]
  /\ ~mixed =>
       /\ \A s \in Script : left[s] > 0 =>
            /\ left[s] = Len(objectQueue)
            /\ header.kind = Head(todo[s]) /\ got[s] = since
       /\ (\A s \in Script : left[s] = 0) => objectQueue = <<>>
=============================================================================
