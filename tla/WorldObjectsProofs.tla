-------------------------- MODULE WorldObjectsProofs --------------------------
(***************************************************************************)
(* Proofs about WorldObjects, for any missions, any number of calls, rows, *)
(* failures and restarts: no statement of this instance touches a row of   *)
(* another, the number a script has for a vehicle is that of no other, and *)
(* the tables hold what the scripts know.                                  *)
(***************************************************************************)
EXTENDS WorldObjects, FiniteSetTheorems, TLAPS

Calling == CallSet \cup {NoCall}

LEMMA CallIs ==
  /\ \A c \in CallSet : /\ c # NoCall /\ c.thing \in cast /\ c.ident \in Nat /\ c.version \in Nat
                        /\ c.op \in {"publish", "save", "remove", "select"}
  /\ NoCall.op = "none"
BY DEF CallSet, NoCall, Call

LEMMA CallTyped ==
  ASSUME NEW op \in {"publish", "save", "remove", "select"}, NEW x \in cast,
         NEW ident \in Nat, NEW version \in Nat
  PROVE  /\ Call(op, x, ident, version) \in CallSet
         /\ Call(op, x, ident, version).op = op /\ Call(op, x, ident, version).thing = x
BY DEF Call, CallSet

LEMMA RunningIs ==
  ASSUME TypeOK, NEW t \in Thread, running[t] # NoCall
  PROVE  running[t] \in CallSet
BY DEF TypeOK

----------------------------------------------------------------------------
(* What a statement does to the tables: it inserts a row with the next     *)
(* number, or leaves every row its thing, number and instance, or removes  *)
(* it; and it touches no row of another instance.                          *)
RowsKept == \A r \in rows' : \E q \in rows :
  q.thing = r.thing /\ q.id = r.id /\ q.instance = r.instance

OthersKept == \A r \in rows : r.instance = "other" => r \in rows'

TablesTyped == rows' \subseteq RowSet /\ autoId' \in 0..MaxIds /\ lastId' \in 0..autoId'

LEMMA InsertEffect ==
  ASSUME TypeOK, UNCHANGED cast, NEW x \in cast, NEW uid \in Nat, Insert(x, uid)
  PROVE  TablesTyped /\ OthersKept
<1>1. autoId \in 0..MaxIds /\ MaxIds \in Nat /\ rows \subseteq RowSet
  BY BoundsAssumption DEF TypeOK
<1>2. autoId' = autoId + 1 /\ autoId' \in 0..MaxIds /\ autoId' \in Nat
  BY <1>1 DEF Insert
<1>3. lastId' \in 0..autoId'
  BY <1>1, <1>2 DEF Insert
<1>4. Row(x, "mine", autoId', uid, 1) \in RowSet
  BY <1>2 DEF Row, RowSet
<1>5. RowSet' = RowSet
  BY DEF RowSet
<1>6. rows' = rows \cup {Row(x, "mine", autoId', uid, 1)}
  BY DEF Insert
<1> QED
  BY <1>1, <1>2, <1>3, <1>4, <1>6 DEF TablesTyped, OthersKept

LEMMA Updated ==
  ASSUME NEW r \in RowSet, NEW v \in Nat
  PROVE  LET q == [r EXCEPT !.version = v]
             u == [r EXCEPT !.uid = v]
         IN /\ q \in RowSet /\ q.thing = r.thing /\ q.id = r.id /\ q.instance = r.instance
            /\ u \in RowSet /\ u.thing = r.thing /\ u.id = r.id /\ u.instance = r.instance
BY DEF RowSet

LEMMA TargetIs ==
  ASSUME NEW c
  PROVE  Target(c) \subseteq {r \in rows : r.instance = "mine"}
BY DEF Target

LEMMA StatementEffect ==
  ASSUME TypeOK, UNCHANGED cast, NEW c \in CallSet, c.op # "select", Statement(c)
  PROVE  /\ TablesTyped /\ OthersKept
         /\ \/ RowsKept /\ UNCHANGED autoId
            \/ Insert(c.thing, c.ident)
<1>0. /\ c.thing \in cast /\ c.ident \in Nat /\ c.version \in Nat
      /\ c.op \in {"publish", "save", "remove"}
      /\ rows \subseteq RowSet /\ autoId \in 0..MaxIds /\ lastId \in 0..autoId
  BY CallIs DEF TypeOK
<1>1. CASE c.op = "publish"
  <2>1. PublishRow(c)
    BY <1>1 DEF Statement
  <2>2. CASE c.thing \in Unregistered
    <3>0. c.thing \notin House
      BY <2>2, ThingsAssumption
    <3>1. UNCHANGED tables
      BY <2>1, <2>2, <3>0 DEF PublishRow
    <3> QED
      BY <1>0, <3>1 DEF tables, TablesTyped, OthersKept, RowsKept
  <2>3. CASE c.thing \notin Unregistered /\ c.thing \in House /\ Mine(c.thing) # {}
    <3>1. /\ rows' = (rows \ Mine(c.thing)) \cup {[r EXCEPT !.uid = c.ident] : r \in Mine(c.thing)}
          /\ lastId' \in 0..autoId /\ UNCHANGED autoId
      BY <2>1, <2>3 DEF PublishRow
    <3>2. Mine(c.thing) \subseteq {r \in rows : r.instance = "mine"}
      BY DEF Mine, RowsOf
    <3>3. \A r \in Mine(c.thing) : LET q == [r EXCEPT !.uid = c.ident] IN
            q \in RowSet /\ q.thing = r.thing /\ q.id = r.id /\ q.instance = r.instance
      BY <1>0, <3>2, Updated
    <3>4. TablesTyped
      BY <1>0, <3>1, <3>3 DEF TablesTyped
    <3>5. OthersKept
      BY <3>1, <3>2 DEF OthersKept
    <3>6. RowsKept
      <4>1. ASSUME NEW r \in rows', r \notin rows
            PROVE  \E q \in rows : q.thing = r.thing /\ q.id = r.id /\ q.instance = r.instance
        BY <3>1, <3>2, <3>3, <4>1
      <4> QED
        BY <4>1 DEF RowsKept
    <3> QED
      BY <3>1, <3>4, <3>5, <3>6
  <2>4. CASE c.thing \notin Unregistered /\ ~(c.thing \in House /\ Mine(c.thing) # {})
    <3>1. Insert(c.thing, c.ident)
      BY <2>1, <2>4 DEF PublishRow
    <3> QED
      BY <1>0, <3>1, InsertEffect
  <2> QED
    BY <2>2, <2>3, <2>4
<1>2. CASE c.op = "save"
  <2>1. /\ rows' = (rows \ Target(c)) \cup {[r EXCEPT !.version = c.version] : r \in Target(c)}
        /\ UNCHANGED <<autoId, lastId>>
    BY <1>2 DEF Statement, SaveRow
  <2>2. \A r \in Target(c) : LET q == [r EXCEPT !.version = c.version] IN
            q \in RowSet /\ q.thing = r.thing /\ q.id = r.id /\ q.instance = r.instance
    BY <1>0, TargetIs, Updated
  <2>3. TablesTyped
    BY <1>0, <2>1, <2>2 DEF TablesTyped
  <2>4. OthersKept
    BY <2>1, TargetIs DEF OthersKept
  <2>5. RowsKept
    <3>1. ASSUME NEW r \in rows', r \notin rows
          PROVE  \E q \in rows : q.thing = r.thing /\ q.id = r.id /\ q.instance = r.instance
      <4>1. PICK q \in Target(c) : r = [q EXCEPT !.version = c.version]
        BY <2>1, <3>1
      <4>2. q \in rows
        BY TargetIs
      <4> QED
        BY <2>2, <4>1, <4>2
    <3> QED
      BY <3>1 DEF RowsKept
  <2> QED
    BY <2>1, <2>3, <2>4, <2>5
<1>3. CASE c.op = "remove"
  <2>1. rows' = rows \ Target(c) /\ UNCHANGED <<autoId, lastId>>
    BY <1>3 DEF Statement, RemoveRow
  <2> QED
    BY <1>0, <2>1, TargetIs DEF TablesTyped, OthersKept, RowsKept
<1> QED
  BY <1>0, <1>1, <1>2, <1>3
----------------------------------------------------------------------------
(* The variables keep their types. *)
KnownSet == [ident : Nat, version : Nat]

CallsTyped == /\ waiting' \in [Prefix \ {"d"} -> Seq(CallSet)]
              /\ running' \in [Thread -> Calling]

LEMMA KnownTyped ==
  ASSUME NEW ident \in Nat, NEW version \in Nat
  PROVE  /\ Known(ident, version) \in KnownSet
         /\ Known(ident, version).ident = ident /\ Known(ident, version).version = version
BY DEF Known, KnownSet

LEMMA KnownIs ==
  ASSUME TypeOK
  PROVE  /\ \A x \in cast : known[x] \in KnownSet /\ known[x].ident \in Nat /\ known[x].version \in Nat
         /\ known \in [cast -> KnownSet]
BY DEF TypeOK, KnownSet

LEMMA SubmitTyped ==
  ASSUME TypeOK, NEW call \in CallSet, Submit(call)
  PROVE  /\ CallsTyped
         /\ UNCHANGED <<rows, autoId, lastId, cast, prefix, up, doubt, overlapped, failures, crashes>>
<1>0. waiting \in [Prefix \ {"d"} -> Seq(CallSet)] /\ running \in [Thread -> Calling] /\ call \in Calling
  BY DEF TypeOK, Calling
<1>1. UNCHANGED <<rows, autoId, lastId, cast, prefix, up, doubt, overlapped, failures, crashes>>
  BY DEF Submit, tables, history
<1>2. prefix[call.thing] \in Prefix
  BY CallIs DEF TypeOK
<1>3. CASE prefix[call.thing] = "d"
  <2>1. running' = [running EXCEPT !["game"] = call] /\ UNCHANGED waiting
    BY <1>3 DEF Submit
  <2>2. running' \in [Thread -> Calling]
    BY <1>0, <2>1
  <2> QED
    BY <1>0, <1>1, <2>1, <2>2 DEF CallsTyped
<1>4. CASE prefix[call.thing] # "d"
  <2> DEFINE p == prefix[call.thing]
  <2>1. p \in Prefix \ {"d"}
    BY <1>2, <1>4
  <2>2. waiting' = [waiting EXCEPT ![p] = Append(@, call)] /\ UNCHANGED running
    BY <1>4 DEF Submit
  <2> HIDE DEF p
  <2>3. waiting \in [Prefix \ {"d"} -> Seq(CallSet)] /\ waiting[p] \in Seq(CallSet)
    BY <2>1 DEF TypeOK
  <2>4. Append(waiting[p], call) \in Seq(CallSet)
    BY <2>3
  <2>5. waiting' \in [Prefix \ {"d"} -> Seq(CallSet)]
    BY <2>2, <2>3, <2>4
  <2> QED
    BY <1>0, <1>1, <2>2, <2>5 DEF CallsTyped
<1> QED
  BY <1>1, <1>3, <1>4

(* What the scripts do: a call about x is made, and known of x changes. *)
Scripted(x) ==
  /\ \E call \in CallSet : call.op # "select" /\ call.thing = x /\ Submit(call)
  /\ known' \in [cast -> KnownSet]
  /\ \A y \in cast : y # x \/ x \in Vehicle => known'[y].ident = known[y].ident

LEMMA ScriptEffect ==
  ASSUME TypeOK, NEW x \in cast, Publish(x) \/ Save(x) \/ Remove(x)
  PROVE  Scripted(x)
<1>0. known \in [cast -> KnownSet] /\ known[x].ident \in Nat /\ known[x].version \in Nat
  BY KnownIs
<1>1. CASE Publish(x)
  <2>1. CASE x \in Vehicle
    <3>1. Submit(Call("publish", x, 0, 1)) /\ UNCHANGED known
      BY <1>1, <2>1 DEF Publish
    <3> QED
      BY <1>0, <3>1, CallTyped DEF Scripted
  <2>2. CASE x \notin Vehicle
    <3>1. PICK ident \in Nat : /\ Submit(Call("publish", x, ident, 1))
                               /\ known' = [known EXCEPT ![x] = Known(ident, 1)]
      <4> DEFINE n == IF x \in House THEN known[x].ident + 1 ELSE 0
      <4>1. n \in Nat
        BY <1>0
      <4>2. Submit(Call("publish", x, n, 1)) /\ known' = [known EXCEPT ![x] = Known(n, 1)]
        BY <1>1, <2>2 DEF Publish
      <4> QED
        BY <4>1, <4>2
    <3>2. Known(ident, 1) \in KnownSet
      BY KnownTyped
    <3>3. known' \in [cast -> KnownSet] /\ \A y \in cast : y # x => known'[y].ident = known[y].ident
      BY <1>0, <3>1, <3>2
    <3> QED
      BY <2>2, <3>1, <3>3, CallTyped DEF Scripted
  <2> QED
    BY <2>1, <2>2
<1>2. CASE Save(x)
  <2>1. /\ Submit(Call("save", x, known[x].ident, known[x].version + 1))
        /\ known' = [known EXCEPT ![x].version = @ + 1]
    BY <1>2 DEF Save
  <2>2. known' \in [cast -> KnownSet] /\ \A y \in cast : known'[y].ident = known[y].ident
    BY <1>0, <2>1 DEF KnownSet
  <2>3. known[x].version + 1 \in Nat
    BY <1>0
  <2> QED
    BY <1>0, <2>1, <2>2, <2>3, CallTyped DEF Scripted
<1>3. CASE Remove(x)
  <2>1. /\ Submit(Call("remove", x, known[x].ident, 0))
        /\ known' = [known EXCEPT ![x].version = 0]
    BY <1>3 DEF Remove
  <2>2. known' \in [cast -> KnownSet] /\ \A y \in cast : known'[y].ident = known[y].ident
    BY <1>0, <2>1 DEF KnownSet
  <2> QED
    BY <1>0, <2>1, <2>2, CallTyped DEF Scripted
<1> QED
  BY <1>1, <1>2, <1>3

LEMMA LoadedIs ==
  ASSUME TypeOK, NEW x \in cast, NEW k \in Loaded(x)
  PROVE  /\ k \in KnownSet
         /\ x \in Vehicle => k.ident = 0 \/ \E r \in Mine(x) : k.ident = r.id
<1>1. Mine(x) \subseteq rows /\ rows \subseteq RowSet
  BY DEF Mine, RowsOf, TypeOK
<1>2. \A r \in Mine(x) : r.id \in Nat /\ r.uid \in Nat /\ r.version \in Nat
  BY <1>1 DEF RowSet
<1>3. CASE Mine(x) = {}
  <2> DEFINE n == IF x \in House THEN known[x].ident ELSE 0
  <2>1. k = Known(n, 0)
    BY <1>3 DEF Loaded
  <2>2. n \in Nat
    BY KnownIs
  <2>3. x \in Vehicle => n = 0
    BY ThingsAssumption
  <2> QED
    BY <2>1, <2>2, <2>3, KnownTyped
<1>4. CASE Mine(x) # {}
  <2>1. PICK r \in Mine(x) :
          k = Known(IF x \in House THEN r.uid ELSE IF x \in Vehicle THEN r.id ELSE 0, r.version)
    BY <1>4 DEF Loaded
  <2> DEFINE n == IF x \in House THEN r.uid ELSE IF x \in Vehicle THEN r.id ELSE 0
  <2>2. n \in Nat /\ r.version \in Nat
    BY <1>2
  <2>3. x \in Vehicle => n = r.id
    BY ThingsAssumption
  <2> QED
    BY <2>1, <2>2, <2>3, KnownTyped
<1> QED
  BY <1>3, <1>4

LEMMA BootEffect ==
  ASSUME TypeOK, NEW blind \in SUBSET {Deployable, House, Vehicle}, Boot(blind)
  PROVE  /\ known' \in [cast -> KnownSet]
         /\ \A x \in cast \cap Vehicle : known'[x].ident = 0 \/ \E r \in Mine(x) : known'[x].ident = r.id
<1>1. PICK f \in [cast -> UNION {Loaded(x) : x \in cast} \cup {Known(0, 0)}] :
        /\ known' = f
        /\ \A x \in cast : IF x \in UNION blind THEN f[x] = Known(0, 0) ELSE f[x] \in Loaded(x)
  BY DEF Boot
<1>2. Known(0, 0) \in KnownSet /\ Known(0, 0).ident = 0
  BY KnownTyped
<1>3. \A x \in cast : f[x] \in KnownSet
  BY <1>1, <1>2, LoadedIs
<1>4. known' \in [cast -> KnownSet]
  BY <1>1, <1>3
<1>5. ASSUME NEW x \in cast \cap Vehicle
      PROVE  known'[x].ident = 0 \/ \E r \in Mine(x) : known'[x].ident = r.id
  BY <1>1, <1>2, LoadedIs
<1> QED
  BY <1>4, <1>5

OtherTyped ==
  /\ up' \in BOOLEAN /\ doubt' \subseteq cast /\ overlapped' \in BOOLEAN
  /\ failures' \in 0..MaxFailures /\ crashes' \in 0..MaxCrashes

LEMMA TypeNext ==
  ASSUME TypeOK, UNCHANGED <<cast, prefix>>, TablesTyped, CallsTyped, known' \in [cast -> KnownSet],
         OtherTyped
  PROVE  TypeOK'
<1>1. CallSet' = CallSet /\ RowSet' = RowSet /\ cast' = cast /\ prefix' = prefix
  BY DEF CallSet, RowSet
<1>2. rows' \subseteq RowSet' /\ autoId' \in 0..MaxIds /\ lastId' \in 0..autoId'
  BY <1>1 DEF TablesTyped
<1>3. /\ waiting' \in [Prefix \ {"d"} -> Seq(CallSet')]
      /\ running' \in [Thread -> CallSet' \cup {NoCall}]
  BY <1>1 DEF CallsTyped, Calling
<1>4. cast' \subseteq Thing /\ prefix' \in [cast' -> Prefix]
  BY <1>1 DEF TypeOK
<1>5. known' \in [cast' -> [ident : Nat, version : Nat]]
  BY <1>1 DEF KnownSet
<1>6. /\ up' \in BOOLEAN /\ doubt' \subseteq cast' /\ overlapped' \in BOOLEAN
      /\ failures' \in 0..MaxFailures /\ crashes' \in 0..MaxCrashes
  BY <1>1 DEF OtherTyped
<1> QED
  BY <1>2, <1>3, <1>4, <1>5, <1>6, Zenon DEF TypeOK

LEMMA TypeParts ==
  ASSUME TypeOK
  PROVE  /\ rows \subseteq RowSet /\ autoId \in 0..MaxIds /\ lastId \in 0..autoId
         /\ waiting \in [Prefix \ {"d"} -> Seq(CallSet)] /\ running \in [Thread -> Calling]
         /\ known \in [cast -> KnownSet]
         /\ up \in BOOLEAN /\ doubt \subseteq cast /\ overlapped \in BOOLEAN
         /\ failures \in 0..MaxFailures /\ crashes \in 0..MaxCrashes
BY Zenon DEF TypeOK, Calling, KnownSet

LEMMA TypedStays ==
  ASSUME TypeOK
  PROVE  /\ UNCHANGED tables => TablesTyped
         /\ UNCHANGED calls => CallsTyped
         /\ UNCHANGED known => known' \in [cast -> KnownSet]
         /\ UNCHANGED <<up, doubt, overlapped, failures, crashes>> => OtherTyped
<1>1. UNCHANGED tables => TablesTyped
  BY TypeParts DEF tables, TablesTyped
<1>2. UNCHANGED calls => CallsTyped
  BY TypeParts DEF calls, CallsTyped
<1>3. UNCHANGED known => known' \in [cast -> KnownSet]
  BY TypeParts
<1>4. ASSUME UNCHANGED <<up, doubt, overlapped, failures, crashes>> PROVE OtherTyped
  <2>1. up' = up /\ doubt' = doubt /\ overlapped' = overlapped /\ failures' = failures /\ crashes' = crashes
    BY <1>4
  <2> QED
    BY <2>1, TypeParts, Zenon DEF OtherTyped
<1> QED
  BY <1>1, <1>2, <1>3, <1>4

LEMMA FailuresTyped ==
  ASSUME TypeOK
  PROVE  /\ failures < MaxFailures => failures + 1 \in 0..MaxFailures
         /\ crashes < MaxCrashes => crashes + 1 \in 0..MaxCrashes
<1>1. MaxFailures \in Nat /\ MaxCrashes \in Nat /\ failures \in 0..MaxFailures /\ crashes \in 0..MaxCrashes
  BY BoundsAssumption, TypeParts
<1> QED
  BY <1>1

LEMMA TakeTyped ==
  ASSUME TypeOK, NEW p \in DOMAIN waiting, Take(p)
  PROVE  CallsTyped
<1>1. /\ waiting \in [Prefix \ {"d"} -> Seq(CallSet)] /\ running \in [Thread -> Calling]
      /\ p \in Prefix \ {"d"}
  BY TypeParts
<1>2. waiting[p] \in Seq(CallSet) /\ waiting[p] # <<>>
  BY <1>1 DEF Take
<1>3. Head(waiting[p]) \in CallSet /\ Tail(waiting[p]) \in Seq(CallSet)
  BY <1>2
<1>4. /\ running' = [running EXCEPT !["worker"] = Head(waiting[p])]
      /\ waiting' = [waiting EXCEPT ![p] = Tail(@)]
  BY DEF Take
<1>5. running' \in [Thread -> Calling]
  BY <1>1, <1>3, <1>4 DEF Calling
<1>6. waiting' \in [Prefix \ {"d"} -> Seq(CallSet)]
  BY <1>1, <1>3, <1>4
<1> QED
  BY <1>5, <1>6 DEF CallsTyped

LEMMA ExecuteTyped ==
  ASSUME TypeOK, NEW t \in Thread, Execute(t)
  PROVE  CallsTyped /\ TablesTyped /\ OtherTyped
<1>1. running[t] \in CallSet /\ running[t].op # "select"
  BY RunningIs, CallIs DEF Execute
<1> DEFINE c == running[t]
           n == IF c.op = "publish" /\ c.thing \in Vehicle THEN [c EXCEPT !.op = "select"] ELSE NoCall
<1>2. n \in Calling
  BY <1>1 DEF CallSet, Calling
<1>3. /\ Statement(c) /\ running' = [running EXCEPT ![t] = n] /\ UNCHANGED <<waiting, cast, up, failures, crashes>>
      /\ doubt' = IF Settles(c) THEN doubt \ {c.thing} ELSE doubt
      /\ overlapped' = (overlapped \/ Overlap(t))
  BY DEF Execute
<1>4. CallsTyped
  <2> HIDE DEF n
  <2> QED
    BY <1>2, <1>3, TypeParts DEF CallsTyped
<1>5. TablesTyped
  BY <1>1, <1>3, StatementEffect
<1>6. doubt' \subseteq cast
  BY <1>3, TypeParts
<1>7. overlapped' \in BOOLEAN
  BY <1>3, Zenon
<1> QED
  BY <1>3, <1>4, <1>5, <1>6, <1>7, TypeParts DEF OtherTyped

LEMMA FailTyped ==
  ASSUME TypeOK, NEW t \in Thread, Fail(t)
  PROVE  CallsTyped /\ TablesTyped /\ OtherTyped
<1>1. running[t] \in CallSet
  BY RunningIs DEF Fail
<1>2. /\ running' = [running EXCEPT ![t] = NoCall] /\ UNCHANGED <<waiting, cast, up, crashes>>
      /\ failures < MaxFailures /\ failures' = failures + 1 /\ doubt' = doubt \cup {running[t].thing}
      /\ \/ UNCHANGED <<tables, overlapped>>
         \/ /\ running[t].op # "select" /\ Statement(running[t])
            /\ overlapped' = (overlapped \/ Overlap(t))
  BY DEF Fail, Failure
<1>3. CallsTyped
  BY <1>2, TypeParts DEF CallsTyped, Calling
<1>4. TablesTyped
  BY <1>1, <1>2, StatementEffect, TypedStays
<1>5. doubt' \subseteq cast
  BY <1>1, <1>2, TypeParts, CallIs
<1>6. overlapped' \in BOOLEAN
  BY <1>2, TypeParts, Zenon
<1>7. failures' \in 0..MaxFailures
  BY <1>2, FailuresTyped
<1> QED
  BY <1>2, <1>3, <1>4, <1>5, <1>6, <1>7, TypeParts DEF OtherTyped

LEMMA ReconnectTyped ==
  ASSUME TypeOK, Reconnect
  PROVE  TablesTyped /\ OtherTyped
<1>1. /\ failures < MaxFailures /\ failures' = failures + 1
      /\ doubt' = doubt \cup {running[t].thing : t \in {u \in Thread : running[u].op = "select"}}
      /\ lastId' = 0 /\ UNCHANGED <<rows, autoId, up, overlapped, crashes>>
  BY DEF Reconnect, Failure
<1>2. \A t \in Thread : running[t].op = "select" => running[t].thing \in cast
  BY RunningIs, CallIs
<1>3. doubt' \subseteq cast
  BY <1>1, <1>2, TypeParts
<1>4. autoId \in Nat /\ autoId \in 0..MaxIds
  BY TypeParts
<1>5. TablesTyped
  BY <1>1, <1>4, TypeParts DEF TablesTyped
<1>6. failures' \in 0..MaxFailures
  BY <1>1, FailuresTyped
<1>7. overlapped' \in BOOLEAN /\ up' \in BOOLEAN
  BY <1>1, TypeParts, Zenon
<1> QED
  BY <1>1, <1>3, <1>5, <1>6, <1>7, TypeParts DEF OtherTyped

LEMMA CrashTyped ==
  ASSUME TypeOK, Crash
  PROVE  CallsTyped /\ OtherTyped
<1>1. /\ crashes < MaxCrashes /\ crashes' = crashes + 1 /\ up' = FALSE
      /\ doubt' = doubt \cup {x \in cast : Pending(x)}
      /\ waiting' = [p \in DOMAIN waiting |-> <<>>]
      /\ running' = [t \in Thread |-> NoCall] /\ UNCHANGED <<overlapped, failures>>
  BY DEF Crash
<1>2. CallsTyped
  BY <1>1, TypeParts DEF CallsTyped, Calling
<1>3. doubt' \subseteq cast
  BY <1>1, TypeParts
<1>4. crashes' \in 0..MaxCrashes
  BY <1>1, FailuresTyped
<1>5. overlapped' \in BOOLEAN /\ up' \in BOOLEAN
  BY <1>1, TypeParts, Zenon
<1> QED
  BY <1>1, <1>2, <1>3, <1>4, <1>5, TypeParts DEF OtherTyped

LEMMA ShutdownTyped ==
  ASSUME TypeOK, Shutdown
  PROVE  /\ TablesTyped /\ OtherTyped /\ known' \in [cast -> KnownSet]
         /\ \A x \in cast : x \notin Nameless => known'[x] = known[x]
<1>1. /\ crashes < MaxCrashes /\ crashes' = crashes + 1 /\ up' = FALSE
      /\ rows' \subseteq rows
      /\ known' = [x \in cast |-> IF x \in Nameless THEN Known(0, 0) ELSE known[x]]
      /\ UNCHANGED <<autoId, lastId, doubt, overlapped, failures>>
  BY DEF Shutdown, history
<1>2. TablesTyped
  BY <1>1, TypeParts DEF TablesTyped
<1>3. /\ known' \in [cast -> KnownSet]
      /\ \A x \in cast : x \notin Nameless => known'[x] = known[x]
  BY <1>1, KnownTyped, KnownIs
<1>4. crashes' \in 0..MaxCrashes
  BY <1>1, FailuresTyped
<1>5. overlapped' \in BOOLEAN /\ up' \in BOOLEAN
  BY <1>1, TypeParts, Zenon
<1> QED
  BY <1>1, <1>2, <1>3, <1>4, <1>5, TypeParts DEF OtherTyped

LEMMA BootTyped ==
  ASSUME TypeOK, NEW blind \in SUBSET {Deployable, House, Vehicle}, Boot(blind)
  PROVE  TablesTyped /\ OtherTyped
<1>1. /\ up' = TRUE /\ overlapped' = FALSE /\ lastId' = 0
      /\ failures + Cardinality(blind) <= MaxFailures /\ failures' = failures + Cardinality(blind)
      /\ doubt' \subseteq cast
      /\ UNCHANGED <<rows, autoId, crashes>>
  BY DEF Boot
<1>2. IsFiniteSet({Deployable, House, Vehicle})
  <2>1. IsFiniteSet({}) /\ {Deployable, House, Vehicle} = (({} \cup {Deployable}) \cup {House}) \cup {Vehicle}
    BY FS_EmptySet
  <2>2. IsFiniteSet({} \cup {Deployable})
    BY <2>1, FS_AddElement
  <2>3. IsFiniteSet(({} \cup {Deployable}) \cup {House})
    BY <2>2, FS_AddElement
  <2> QED
    BY <2>1, <2>3, FS_AddElement
<1>3. Cardinality(blind) \in Nat
  BY <1>2, FS_Subset, FS_CardinalityType
<1>4. MaxFailures \in Nat /\ failures \in 0..MaxFailures
  BY BoundsAssumption, TypeParts
<1>5. failures' \in 0..MaxFailures
  BY <1>1, <1>3, <1>4
<1>6. autoId \in Nat /\ autoId \in 0..MaxIds
  BY TypeParts
<1>7. TablesTyped
  BY <1>1, <1>6, TypeParts DEF TablesTyped
<1>8. overlapped' \in BOOLEAN /\ up' \in BOOLEAN
  BY <1>1, Zenon
<1> QED
  BY <1>1, <1>5, <1>7, <1>8, TypeParts DEF OtherTyped

LEMMA NeighbourTyped ==
  ASSUME TypeOK, NEW x \in cast, Neighbour(x)
  PROVE  TablesTyped /\ OthersKept
<1>1. /\ autoId < MaxIds /\ autoId' = autoId + 1 /\ UNCHANGED lastId
      /\ rows' = rows \cup {Row(x, "other", autoId', 0, 1)}
  BY DEF Neighbour
<1>2. /\ autoId \in 0..MaxIds /\ MaxIds \in Nat /\ lastId \in 0..autoId /\ rows \subseteq RowSet
  BY BoundsAssumption, TypeParts
<1>3. autoId' \in 0..MaxIds /\ lastId' \in 0..autoId' /\ autoId' \in Nat
  BY <1>1, <1>2
<1>4. Row(x, "other", autoId', 0, 1) \in RowSet
  BY <1>3 DEF Row, RowSet
<1> QED
  BY <1>1, <1>2, <1>3, <1>4 DEF TablesTyped, OthersKept

LEMMA NextCases ==
  ASSUME [Next]_vars
  PROVE  \/ \E x \in cast : Publish(x) \/ Save(x) \/ Remove(x)
         \/ \E p \in DOMAIN waiting : Take(p)
         \/ \E t \in Thread : Execute(t) \/ SelectId(t) \/ Fail(t)
         \/ Reconnect \/ Crash \/ Shutdown
         \/ \E blind \in SUBSET {Deployable, House, Vehicle} : Boot(blind)
         \/ \E x \in cast \cap Vehicle : Neighbour(x)
         \/ UNCHANGED vars
BY DEF Next, Quiet

(* What a step leaves alone. *)
LEMMA StepStays ==
  /\ \A p : Take(p) => UNCHANGED <<rows, autoId, lastId, cast, prefix, known, up, doubt, overlapped, failures, crashes>>
  /\ \A t : Execute(t) => UNCHANGED <<waiting, cast, prefix, known, up, failures, crashes>>
  /\ \A t : SelectId(t) => UNCHANGED <<rows, autoId, lastId, waiting, cast, prefix, up, doubt, overlapped, failures, crashes>>
  /\ \A t : Fail(t) => UNCHANGED <<waiting, cast, prefix, known, up, crashes>>
  /\ Reconnect => UNCHANGED <<rows, autoId, waiting, running, cast, prefix, known, up, overlapped, crashes>>
  /\ Crash => UNCHANGED <<rows, autoId, lastId, cast, prefix, known, overlapped, failures>>
  /\ Shutdown => UNCHANGED <<autoId, lastId, waiting, running, cast, prefix, doubt, overlapped, failures>>
  /\ \A blind : Boot(blind) => UNCHANGED <<rows, autoId, waiting, running, cast, prefix, crashes>>
  /\ \A x : Neighbour(x) => UNCHANGED <<lastId, waiting, running, cast, prefix, known, up, doubt, overlapped, failures, crashes>>
  /\ UNCHANGED vars => UNCHANGED <<rows, autoId, lastId, waiting, running, cast, prefix, known, up, doubt, overlapped, failures, crashes>>
BY DEF Take, Execute, SelectId, Fail, Reconnect, Failure, Crash, Shutdown, Boot, Neighbour, vars, tables, calls, history

LEMMA SelectTyped ==
  ASSUME TypeOK, NEW t \in Thread, SelectId(t)
  PROVE  /\ running[t] \in CallSet /\ running[t].op = "select"
         /\ CallsTyped /\ known' \in [cast -> KnownSet]
         /\ known' = [known EXCEPT ![running[t].thing] = Known(lastId, 1)]
<1>1. running[t] \in CallSet /\ running[t].op = "select" /\ running[t].thing \in cast
  BY RunningIs, CallIs DEF SelectId
<1>2. /\ known' = [known EXCEPT ![running[t].thing] = Known(lastId, 1)]
      /\ running' = [running EXCEPT ![t] = NoCall] /\ UNCHANGED waiting
  BY DEF SelectId, Answer
<1>3. CallsTyped
  BY <1>2, TypeParts DEF CallsTyped, Calling
<1>4. lastId \in Nat /\ autoId \in Nat
  BY TypeParts
<1>5. Known(lastId, 1) \in KnownSet
  BY <1>4, KnownTyped
<1>6. known' \in [cast -> KnownSet]
  BY <1>2, <1>5, TypeParts
<1> QED
  BY <1>1, <1>2, <1>3, <1>6

LEMMA TypesKept == TypeOK /\ [Next]_vars => TypeOK'
<1> SUFFICES ASSUME TypeOK, [Next]_vars PROVE TypeOK'
  OBVIOUS
<1>1. ASSUME NEW x \in cast, Publish(x) \/ Save(x) \/ Remove(x) PROVE TypeOK'
  <2>1. PICK call \in CallSet : Submit(call)
    BY <1>1, ScriptEffect DEF Scripted
  <2>2. known' \in [cast -> KnownSet]
    BY <1>1, ScriptEffect DEF Scripted
  <2>3. /\ CallsTyped
        /\ UNCHANGED <<rows, autoId, lastId, cast, prefix, up, doubt, overlapped, failures, crashes>>
    BY <2>1, SubmitTyped
  <2> QED
    BY <2>2, <2>3, TypedStays, TypeNext DEF tables
<1>2. ASSUME NEW p \in DOMAIN waiting, Take(p) PROVE TypeOK'
  BY <1>2, StepStays, TakeTyped, TypedStays, TypeNext DEF tables
<1>3. ASSUME NEW t \in Thread, Execute(t) PROVE TypeOK'
  BY <1>3, StepStays, ExecuteTyped, TypedStays, TypeNext
<1>4. ASSUME NEW t \in Thread, SelectId(t) PROVE TypeOK'
  BY <1>4, StepStays, SelectTyped, TypedStays, TypeNext DEF tables
<1>5. ASSUME NEW t \in Thread, Fail(t) PROVE TypeOK'
  BY <1>5, StepStays, FailTyped, TypedStays, TypeNext
<1>6. CASE Reconnect
  BY <1>6, StepStays, ReconnectTyped, TypedStays, TypeNext DEF calls
<1>7. CASE Crash
  BY <1>7, StepStays, CrashTyped, TypedStays, TypeNext DEF tables
<1>8. CASE Shutdown
  BY <1>8, StepStays, ShutdownTyped, TypedStays, TypeNext DEF calls
<1>9. ASSUME NEW blind \in SUBSET {Deployable, House, Vehicle}, Boot(blind) PROVE TypeOK'
  BY <1>9, StepStays, BootTyped, BootEffect, TypedStays, TypeNext DEF calls
<1>10. ASSUME NEW x \in cast \cap Vehicle, Neighbour(x) PROVE TypeOK'
  BY <1>10, StepStays, NeighbourTyped, TypedStays, TypeNext DEF calls
<1>11. CASE UNCHANGED vars
  BY <1>11, StepStays, TypedStays, TypeNext DEF calls, tables
<1> QED
  BY <1>1, <1>2, <1>3, <1>4, <1>5, <1>6, <1>7, <1>8, <1>9, <1>10, <1>11, NextCases

LEMMA InitTyped == Init => TypeOK
<1> SUFFICES ASSUME Init PROVE TypeOK
  OBVIOUS
<1>1. cast \subseteq Thing
  BY ThingsAssumption DEF Init
<1>2. rows \subseteq RowSet
  BY DEF Init, Row, RowSet
<1>3. MaxIds \in Nat /\ MaxFailures \in Nat /\ MaxCrashes \in Nat
  BY BoundsAssumption
<1>4. autoId = 0 /\ lastId = 0 /\ failures = 0 /\ crashes = 0
  BY DEF Init
<1>5. autoId \in 0..MaxIds /\ lastId \in 0..autoId /\ failures \in 0..MaxFailures /\ crashes \in 0..MaxCrashes
  BY <1>3, <1>4
<1>6. waiting \in [Prefix \ {"d"} -> Seq(CallSet)]
  BY DEF Init
<1>7. running \in [Thread -> CallSet \cup {NoCall}]
  BY DEF Init
<1>8. prefix \in [cast -> Prefix]
  BY DEF Init
<1>9. known \in [cast -> [ident : Nat, version : Nat]]
  BY KnownTyped DEF Init, KnownSet
<1>10. up \in BOOLEAN /\ doubt \subseteq cast /\ overlapped \in BOOLEAN
  BY Zenon DEF Init
<1> QED
  BY <1>1, <1>2, <1>5, <1>6, <1>7, <1>8, <1>9, <1>10, Zenon DEF TypeOK
----------------------------------------------------------------------------
(* What a step does to the rows: it leaves them their keys, or adds one    *)
(* with the next number.                                                   *)
Added == /\ autoId' = autoId + 1
         /\ \E r \in RowSet : r.id = autoId' /\ rows' = rows \cup {r}

LEMMA RowsStep ==
  ASSUME TypeOK, [Next]_vars
  PROVE  /\ (RowsKept /\ UNCHANGED autoId) \/ Added
         /\ OthersKept
<1>0. autoId \in Nat /\ rows \subseteq RowSet
  BY TypeParts
<1>1. UNCHANGED rows => RowsKept /\ OthersKept
  BY DEF RowsKept, OthersKept
<1>2. ASSUME NEW c \in CallSet, c.op # "select", Statement(c), UNCHANGED cast
      PROVE  ((RowsKept /\ UNCHANGED autoId) \/ Added) /\ OthersKept
  <2>1. Insert(c.thing, c.ident) => Added
    <3> SUFFICES ASSUME Insert(c.thing, c.ident) PROVE Added
      OBVIOUS
    <3>1. autoId' = autoId + 1 /\ rows' = rows \cup {Row(c.thing, "mine", autoId', c.ident, 1)}
      BY DEF Insert
    <3>2. LET r == Row(c.thing, "mine", autoId', c.ident, 1) IN r \in RowSet /\ r.id = autoId'
      BY <1>0, <3>1, CallIs DEF Row, RowSet
    <3> QED
      BY <3>1, <3>2 DEF Added
  <2> QED
    BY <1>2, <2>1, StatementEffect
<1>3. ASSUME NEW x \in cast, Publish(x) \/ Save(x) \/ Remove(x)
      PROVE  UNCHANGED <<rows, autoId>>
  BY <1>3, ScriptEffect, SubmitTyped DEF Scripted
<1>4. ASSUME NEW t \in Thread, Execute(t)
      PROVE  ((RowsKept /\ UNCHANGED autoId) \/ Added) /\ OthersKept
  <2>1. running[t] \in CallSet /\ running[t].op # "select" /\ Statement(running[t]) /\ UNCHANGED cast
    BY <1>4, RunningIs, CallIs DEF Execute
  <2> QED
    BY <1>2, <2>1
<1>5. ASSUME NEW t \in Thread, Fail(t)
      PROVE  ((RowsKept /\ UNCHANGED autoId) \/ Added) /\ OthersKept
  <2>1. running[t] \in CallSet /\ UNCHANGED cast
    BY <1>5, RunningIs DEF Fail
  <2>2. UNCHANGED <<rows, autoId>> \/ (running[t].op # "select" /\ Statement(running[t]))
    BY <1>5 DEF Fail, tables
  <2> QED
    BY <1>1, <1>2, <2>1, <2>2
<1>6. CASE Shutdown
  <2>1. rows' = {r \in rows : ~(r.thing \in Nameless /\ r.instance = "mine")} /\ UNCHANGED autoId
    BY <1>6 DEF Shutdown
  <2> QED
    BY <2>1 DEF RowsKept, OthersKept
<1>7. ASSUME NEW x \in cast \cap Vehicle, Neighbour(x) PROVE Added /\ OthersKept
  <2>1. autoId' = autoId + 1 /\ rows' = rows \cup {Row(x, "other", autoId', 0, 1)}
    BY <1>7 DEF Neighbour
  <2>2. LET r == Row(x, "other", autoId', 0, 1) IN r \in RowSet /\ r.id = autoId'
    BY <1>0, <2>1 DEF Row, RowSet
  <2> QED
    BY <1>7, <2>1, <2>2, NeighbourTyped DEF Added
<1> QED
  BY <1>1, <1>3, <1>4, <1>5, <1>6, <1>7, StepStays, NextCases

----------------------------------------------------------------------------
(* The numbers: they are given out once, over all instances; what a script *)
(* knows was given out; and, unless the session has inserted in between,   *)
(* the last number is that of the vehicle whose number is being asked for. *)
Theirs(n, x) == \A r \in rows :
  r.thing \in Vehicle /\ r.id = n /\ n > 0 => r.thing = x /\ r.instance = "mine"

Numbers ==
  /\ \A r \in rows : r.id <= autoId
  /\ \A r, q \in rows : r.thing \in Vehicle /\ q.thing \in Vehicle /\ r.id = q.id
       => r.thing = q.thing /\ r.instance = q.instance
  /\ \A x \in cast \cap Vehicle : known[x].ident <= autoId

Selected == ~overlapped => \A t \in Thread :
  running[t].op = "select" => Theirs(lastId, running[t].thing)

(* Only the worker asks for a number, after an insert. *)
Waiting == \A p \in DOMAIN waiting : \A i \in DOMAIN waiting[p] : waiting[p][i].op # "select"

Inv == TypeOK /\ Numbers /\ Selected /\ Waiting /\ IdsAreTheirs

LEMMA IdsAre == IdsAreTheirs <=>
  (~overlapped => \A x \in cast \cap Vehicle : Theirs(known[x].ident, x))
BY DEF IdsAreTheirs, Theirs

LEMMA IdsAreNext == IdsAreTheirs' <=>
  (~overlapped => \A x \in cast \cap Vehicle : Theirs(known[x].ident, x))'
BY IdsAre, PTL

LEMMA TheirsStays ==
  ASSUME TypeOK, [Next]_vars, NEW n \in Nat, n <= autoId, NEW x, Theirs(n, x)
  PROVE  Theirs(n, x)'
<1>0. autoId \in Nat
  BY TypeParts
<1>1. ASSUME NEW r \in rows', r.thing \in Vehicle, r.id = n, n > 0
      PROVE  r.thing = x /\ r.instance = "mine"
  <2>1. CASE RowsKept
    BY <1>1, <2>1 DEF RowsKept, Theirs
  <2>2. CASE Added
    <3>1. r.id # autoId'
      BY <1>0, <1>1, <2>2 DEF Added
    <3>2. r \in rows
      BY <2>2, <3>1 DEF Added
    <3> QED
      BY <1>1, <3>2 DEF Theirs
  <2> QED
    BY <2>1, <2>2, RowsStep
<1> QED
  BY <1>1 DEF Theirs

LEMMA NumbersKept == Inv /\ [Next]_vars =>
  /\ (\A r \in rows : r.id <= autoId)'
  /\ (\A r, q \in rows : r.thing \in Vehicle /\ q.thing \in Vehicle /\ r.id = q.id
       => r.thing = q.thing /\ r.instance = q.instance)'
<1> SUFFICES ASSUME Inv, [Next]_vars
             PROVE  /\ \A r \in rows' : r.id <= autoId'
                    /\ \A r, q \in rows' : r.thing \in Vehicle /\ q.thing \in Vehicle /\ r.id = q.id
                         => r.thing = q.thing /\ r.instance = q.instance
  OBVIOUS
<1>0. /\ TypeOK /\ autoId \in Nat
      /\ \A r \in rows : r.id \in Nat /\ r.id <= autoId
      /\ \A r, q \in rows : r.thing \in Vehicle /\ q.thing \in Vehicle /\ r.id = q.id
           => r.thing = q.thing /\ r.instance = q.instance
  BY TypeParts DEF Inv, Numbers, RowSet
<1>1. CASE RowsKept /\ UNCHANGED autoId
  BY <1>0, <1>1 DEF RowsKept
<1>2. CASE Added
  <2>1. PICK n \in RowSet : n.id = autoId' /\ rows' = rows \cup {n}
    BY <1>2 DEF Added
  <2>2. autoId' = autoId + 1
    BY <1>2 DEF Added
  <2>3. \A r \in rows : r.id # n.id
    BY <1>0, <2>1, <2>2
  <2> QED
    BY <1>0, <2>1, <2>2, <2>3
<1> QED
  BY <1>0, <1>1, <1>2, RowsStep

(* What the script knows of a vehicle changes with the answer, or when the *)
(* mission starts.                                                         *)
LEMMA KnownStep ==
  ASSUME TypeOK, [Next]_vars, NEW x \in cast \cap Vehicle
  PROVE  \/ known'[x].ident = known[x].ident /\ (overlapped => overlapped')
         \/ /\ known'[x].ident = lastId /\ UNCHANGED <<rows, autoId, overlapped>>
            /\ \E t \in Thread : running[t].op = "select" /\ running[t].thing = x
         \/ known'[x].ident = 0
         \/ /\ UNCHANGED <<rows, autoId>>
            /\ \E r \in Mine(x) : known'[x].ident = r.id
<1>1. ASSUME NEW y \in cast, Publish(y) \/ Save(y) \/ Remove(y)
      PROVE  known'[x].ident = known[x].ident /\ UNCHANGED overlapped
  <2>1. Scripted(y)
    BY <1>1, ScriptEffect
  <2> QED
    BY <2>1, SubmitTyped DEF Scripted
<1>2. ASSUME NEW t \in Thread, SelectId(t)
      PROVE  \/ known'[x].ident = known[x].ident /\ UNCHANGED overlapped
             \/ /\ known'[x].ident = lastId /\ UNCHANGED <<rows, autoId, overlapped>>
                /\ running[t].op = "select" /\ running[t].thing = x
  <2>1. /\ running[t] \in CallSet /\ running[t].op = "select"
        /\ known' = [known EXCEPT ![running[t].thing] = Known(lastId, 1)]
    BY <1>2, SelectTyped
  <2>2. UNCHANGED <<rows, autoId, overlapped>>
    BY <1>2, StepStays
  <2>3. lastId \in Nat
    BY TypeParts
  <2>4. CASE running[t].thing = x
    BY <2>1, <2>2, <2>3, <2>4, KnownTyped, TypeParts
  <2>5. CASE running[t].thing # x
    BY <2>1, <2>2, <2>5, TypeParts
  <2> QED
    BY <2>4, <2>5
<1>3. ASSUME NEW t \in Thread, Execute(t) \/ Fail(t)
      PROVE  UNCHANGED known /\ (overlapped => overlapped')
  <2>1. UNCHANGED known
    BY <1>3, StepStays
  <2>2. overlapped => overlapped'
    BY <1>3 DEF Execute, Fail
  <2> QED
    BY <2>1, <2>2
<1>4. CASE Shutdown
  <2>1. x \notin Nameless
    BY ThingsAssumption
  <2> QED
    BY <1>4, <2>1, ShutdownTyped, StepStays
<1>5. ASSUME NEW blind \in SUBSET {Deployable, House, Vehicle}, Boot(blind)
      PROVE  \/ known'[x].ident = 0
             \/ /\ UNCHANGED <<rows, autoId>>
                /\ \E r \in Mine(x) : known'[x].ident = r.id
  BY <1>5, BootEffect, StepStays
<1> QED
  BY <1>1, <1>2, <1>3, <1>4, <1>5, StepStays, NextCases

LEMMA KnownNumbered == Inv /\ [Next]_vars => (\A x \in cast \cap Vehicle : known[x].ident <= autoId)'
<1> SUFFICES ASSUME Inv, [Next]_vars, NEW x \in cast' \cap Vehicle PROVE known'[x].ident <= autoId'
  OBVIOUS
<1>0. TypeOK /\ autoId \in Nat /\ lastId \in 0..autoId /\ cast' = cast
  <2>1. TypeOK
    BY DEF Inv
  <2>2. UNCHANGED cast
    BY <2>1, ScriptEffect, SubmitTyped, StepStays, NextCases DEF Scripted
  <2> QED
    BY <2>1, <2>2, TypeParts
<1>1. x \in cast \cap Vehicle /\ known[x].ident \in Nat /\ known[x].ident <= autoId
  BY <1>0, KnownIs DEF Inv, Numbers
<1>2. autoId' \in Nat /\ autoId <= autoId'
  <2>1. autoId' = autoId \/ autoId' = autoId + 1
    BY <1>0, RowsStep DEF Added
  <2> QED
    BY <1>0, <2>1
<1>3. \A r \in Mine(x) : r.id \in Nat /\ r.id <= autoId
  BY <1>0, TypeParts DEF Mine, RowsOf, Inv, Numbers, RowSet
<1>4. \/ known'[x].ident = known[x].ident
      \/ known'[x].ident = lastId
      \/ known'[x].ident = 0
      \/ \E r \in Mine(x) : known'[x].ident = r.id
  BY <1>0, <1>1, KnownStep
<1> QED
  BY <1>0, <1>1, <1>2, <1>3, <1>4

LEMMA IdsKept == Inv /\ [Next]_vars => IdsAreTheirs'
<1> SUFFICES ASSUME Inv, [Next]_vars, ~overlapped', NEW x \in cast' \cap Vehicle,
                    NEW n, n = known'[x].ident
             PROVE  Theirs(n, x)'
  BY IdsAreNext
<1>0. /\ TypeOK /\ autoId \in Nat /\ lastId \in 0..autoId /\ cast' = cast
  <2>1. TypeOK
    BY DEF Inv
  <2>2. UNCHANGED cast
    BY <2>1, ScriptEffect, SubmitTyped, StepStays, NextCases DEF Scripted
  <2> QED
    BY <2>1, <2>2, TypeParts
<1>1. x \in cast \cap Vehicle /\ known[x].ident \in Nat /\ known[x].ident <= autoId
  BY <1>0, KnownIs DEF Inv, Numbers
<1>2. CASE n = known[x].ident /\ (overlapped => overlapped')
  <2>1. Theirs(n, x)
    BY <1>1, <1>2, IdsAre DEF Inv
  <2> QED
    BY <1>0, <1>1, <1>2, <2>1, TheirsStays
<1>3. CASE /\ n = lastId /\ UNCHANGED <<rows, autoId, overlapped>>
           /\ \E t \in Thread : running[t].op = "select" /\ running[t].thing = x
  <2>1. Theirs(n, x)
    BY <1>3 DEF Inv, Selected
  <2> QED
    BY <1>3, <2>1 DEF Theirs
<1>4. CASE n = 0
  BY <1>4 DEF Theirs
<1>5. CASE UNCHANGED <<rows, autoId>> /\ \E r \in Mine(x) : n = r.id
  <2>1. PICK q \in rows : q.thing = x /\ q.instance = "mine" /\ n = q.id
    BY <1>5 DEF Mine, RowsOf
  <2>2. Theirs(n, x)
    BY <1>1, <2>1 DEF Theirs, Inv, Numbers
  <2> QED
    BY <1>5, <2>2 DEF Theirs
<1> QED
  BY <1>0, <1>1, <1>2, <1>3, <1>4, <1>5, KnownStep

(* How a thread comes to ask for the last number, and what becomes of that *)
(* number while it does.                                                   *)
LEMMA OtherIs == \A t, u \in Thread : t # u => Other(t) = u
BY DEF Other, Thread

LEMMA SelectStep ==
  ASSUME Inv, [Next]_vars, ~overlapped', NEW t \in Thread, running'[t].op = "select"
  PROVE  \/ lastId' = 0
         \/ /\ ~overlapped /\ running[t].op = "select" /\ running'[t].thing = running[t].thing
            /\ lastId' = lastId
         \/ \E x \in Vehicle : \E uid : running'[t].thing = x /\ Insert(x, uid)
<1>0. TypeOK /\ running \in [Thread -> Calling]
  BY TypeParts DEF Inv
<1> DEFINE Same == ~overlapped /\ running'[t] = running[t] /\ lastId' = lastId
<1>1. ASSUME NEW x \in cast, Publish(x) \/ Save(x) \/ Remove(x) PROVE Same
  <2>1. PICK call \in CallSet : call.op # "select" /\ Submit(call)
    BY <1>0, <1>1, ScriptEffect DEF Scripted
  <2>2. UNCHANGED <<lastId, overlapped>>
    BY <1>0, <2>1, SubmitTyped
  <2>3. UNCHANGED running \/ running' = [running EXCEPT !["game"] = call]
    BY <2>1 DEF Submit
  <2>4. running'[t] = running[t]
    BY <1>0, <2>1, <2>3
  <2> QED
    BY <2>2, <2>4
<1>2. ASSUME NEW p \in DOMAIN waiting, Take(p) PROVE Same
  <2>1. UNCHANGED <<lastId, overlapped>>
    BY <1>2, StepStays
  <2>2. running' = [running EXCEPT !["worker"] = Head(waiting[p])] /\ waiting[p] # <<>>
    BY <1>2 DEF Take
  <2>3. waiting[p] \in Seq(CallSet)
    BY <1>0, TypeParts
  <2>4. Head(waiting[p]).op # "select"
    BY <2>2, <2>3 DEF Inv, Waiting
  <2>5. running'[t] = running[t]
    BY <1>0, <2>2, <2>4
  <2> QED
    BY <2>1, <2>5
<1>3. ASSUME NEW u \in Thread, SelectId(u) PROVE Same
  <2>1. UNCHANGED <<lastId, overlapped>>
    BY <1>3, StepStays
  <2>2. running' = [running EXCEPT ![u] = NoCall]
    BY <1>3 DEF SelectId
  <2>3. running'[t] = running[t]
    BY <1>0, <2>2, CallIs
  <2> QED
    BY <2>1, <2>3
<1>4. ASSUME NEW u \in Thread, u # t,
             running'[t] = running[t],
             UNCHANGED <<lastId, overlapped>> \/ overlapped' = (overlapped \/ Overlap(u))
      PROVE  Same
  <2>1. ~overlapped
    BY <1>4
  <2>2. CASE UNCHANGED <<lastId, overlapped>>
    BY <1>4, <2>1, <2>2
  <2>3. CASE overlapped' = (overlapped \/ Overlap(u))
    <3>1. ~Overlap(u)
      BY <2>3
    <3>2. Other(u) = t
      BY <1>4, OtherIs
    <3>3. lastId' = lastId
      BY <1>4, <3>1, <3>2 DEF Overlap
    <3> QED
      BY <1>4, <2>1, <3>3
  <2> QED
    BY <1>4, <2>2, <2>3
<1>5. ASSUME NEW u \in Thread, Fail(u) PROVE Same
  <2>1. running' = [running EXCEPT ![u] = NoCall]
    BY <1>5 DEF Fail
  <2>2. u # t /\ running'[t] = running[t]
    BY <1>0, <2>1, CallIs
  <2>3. UNCHANGED <<lastId, overlapped>> \/ overlapped' = (overlapped \/ Overlap(u))
    BY <1>5 DEF Fail, tables
  <2> QED
    BY <1>4, <2>2, <2>3
<1>6. ASSUME NEW u \in Thread, Execute(u)
      PROVE  Same \/ \E x \in Vehicle : \E uid : running'[t].thing = x /\ Insert(x, uid)
  <2>1. running[u] \in CallSet /\ running[u].op # "select" /\ Statement(running[u])
        /\ overlapped' = (overlapped \/ Overlap(u))
    BY <1>0, <1>6, RunningIs, CallIs DEF Execute
  <2>2. running' = [running EXCEPT ![u] =
                      IF running[u].op = "publish" /\ running[u].thing \in Vehicle
                        THEN [running[u] EXCEPT !.op = "select"] ELSE NoCall]
    BY <1>6 DEF Execute
  <2>3. CASE u # t
    <3>1. running'[t] = running[t]
      BY <1>0, <2>2, <2>3
    <3> QED
      BY <1>4, <2>1, <2>3, <3>1
  <2>4. CASE u = t
    <3>1. running[t].op = "publish" /\ running[t].thing \in Vehicle
      BY <1>0, <2>2, <2>4, CallIs
    <3>2. running'[t] = [running[t] EXCEPT !.op = "select"]
      BY <1>0, <2>2, <2>4, <3>1
    <3>3. running'[t].thing = running[t].thing
      BY <2>1, <2>4, <3>2 DEF CallSet
    <3>4. PublishRow(running[t])
      BY <2>1, <2>4, <3>1 DEF Statement
    <3>5. running[t].thing \notin Unregistered /\ running[t].thing \notin House
      BY <3>1, ThingsAssumption
    <3>6. Insert(running[t].thing, running[t].ident)
      BY <3>4, <3>5 DEF PublishRow
    <3> QED
      BY <3>1, <3>3, <3>6
  <2> QED
    BY <2>3, <2>4
<1>7. CASE Reconnect
  BY <1>7 DEF Reconnect
<1>8. CASE Crash
  <2>1. running' = [u \in Thread |-> NoCall]
    BY <1>8 DEF Crash
  <2> QED
    BY <2>1, CallIs
<1>9. ASSUME NEW blind \in SUBSET {Deployable, House, Vehicle}, Boot(blind) PROVE lastId' = 0
  BY <1>9 DEF Boot
<1>10. CASE Shutdown \/ UNCHANGED vars \/ \E x \in cast \cap Vehicle : Neighbour(x)
  BY <1>10, StepStays
<1> QED
  BY <1>1, <1>2, <1>3, <1>5, <1>6, <1>7, <1>8, <1>9, <1>10, NextCases

LEMMA SelectedKept == Inv /\ [Next]_vars => Selected'
<1> SUFFICES ASSUME Inv, [Next]_vars, ~overlapped', NEW t \in Thread, running'[t].op = "select",
                    NEW n, n = lastId', NEW x, x = running'[t].thing
             PROVE  Theirs(n, x)'
  BY DEF Selected
<1>0. TypeOK /\ autoId \in Nat /\ lastId \in 0..autoId
  BY TypeParts DEF Inv
<1>1. CASE n = 0
  BY <1>1 DEF Theirs
<1>2. CASE ~overlapped /\ running[t].op = "select" /\ x = running[t].thing /\ n = lastId
  <2>1. Theirs(n, x)
    BY <1>2 DEF Inv, Selected
  <2> QED
    BY <1>0, <1>2, <2>1, TheirsStays
<1>3. ASSUME x \in Vehicle, NEW uid, Insert(x, uid) PROVE Theirs(n, x)'
  <2>1. n = autoId' /\ autoId' = autoId + 1 /\ rows' = rows \cup {Row(x, "mine", autoId', uid, 1)}
    BY <1>3 DEF Insert
  <2>2. \A r \in rows : r.id \in Nat /\ r.id <= autoId
    BY <1>0, TypeParts DEF Inv, Numbers, RowSet
  <2>3. \A r \in rows : r.id # n
    BY <1>0, <2>1, <2>2
  <2>4. LET r == Row(x, "mine", autoId', uid, 1) IN r.thing = x /\ r.instance = "mine"
    BY DEF Row
  <2> QED
    BY <2>1, <2>3, <2>4 DEF Theirs
<1> QED
  BY <1>1, <1>2, <1>3, SelectStep

LEMMA WaitingKept == Inv /\ [Next]_vars => Waiting'
<1> SUFFICES ASSUME Inv, [Next]_vars PROVE Waiting'
  OBVIOUS
<1>0. /\ TypeOK /\ waiting \in [Prefix \ {"d"} -> Seq(CallSet)] /\ Waiting
  BY TypeParts DEF Inv
<1>1. ASSUME NEW x \in cast, Publish(x) \/ Save(x) \/ Remove(x) PROVE Waiting'
  <2>1. PICK call \in CallSet : call.op # "select" /\ call.thing = x /\ Submit(call)
    BY <1>0, <1>1, ScriptEffect DEF Scripted
  <2>2. CASE UNCHANGED waiting
    BY <1>0, <2>2 DEF Waiting
  <2>3. ASSUME NEW p \in Prefix \ {"d"}, waiting' = [waiting EXCEPT ![p] = Append(@, call)]
        PROVE  Waiting'
    <3>1. waiting[p] \in Seq(CallSet)
      BY <1>0
    <3>2. \A i \in DOMAIN Append(waiting[p], call) :
            \/ i \in DOMAIN waiting[p] /\ Append(waiting[p], call)[i] = waiting[p][i]
            \/ Append(waiting[p], call)[i] = call
      BY <3>1
    <3>3. DOMAIN waiting' = DOMAIN waiting /\ waiting'[p] = Append(waiting[p], call)
          /\ \A q \in DOMAIN waiting : q # p => waiting'[q] = waiting[q]
      BY <1>0, <2>3
    <3> QED
      BY <1>0, <2>1, <3>2, <3>3 DEF Waiting
  <2>4. prefix[x] \in Prefix
    BY <1>0 DEF TypeOK
  <2>5. UNCHANGED waiting \/ (prefix[x] # "d" /\ waiting' = [waiting EXCEPT ![prefix[x]] = Append(@, call)])
    BY <2>1 DEF Submit
  <2> QED
    BY <2>2, <2>3, <2>4, <2>5
<1>2. ASSUME NEW p \in DOMAIN waiting, Take(p) PROVE Waiting'
  <2>1. waiting' = [waiting EXCEPT ![p] = Tail(@)] /\ waiting[p] # <<>>
    BY <1>2 DEF Take
  <2>2. waiting[p] \in Seq(CallSet)
    BY <1>0
  <2>3. \A i \in DOMAIN Tail(waiting[p]) :
          i + 1 \in DOMAIN waiting[p] /\ Tail(waiting[p])[i] = waiting[p][i + 1]
    BY <2>1, <2>2
  <2>4. DOMAIN waiting' = DOMAIN waiting /\ waiting'[p] = Tail(waiting[p])
        /\ \A q \in DOMAIN waiting : q # p => waiting'[q] = waiting[q]
    BY <1>0, <2>1
  <2>5. ASSUME NEW i \in DOMAIN waiting'[p] PROVE waiting'[p][i].op # "select"
    <3>1. i + 1 \in DOMAIN waiting[p] /\ waiting'[p][i] = waiting[p][i + 1]
      BY <2>3, <2>4
    <3> QED
      BY <1>0, <3>1 DEF Waiting
  <2> QED
    BY <1>0, <2>4, <2>5 DEF Waiting
<1>3. CASE Crash
  <2>1. waiting' = [p \in DOMAIN waiting |-> <<>>]
    BY <1>3 DEF Crash
  <2> QED
    BY <2>1 DEF Waiting
<1>4. CASE UNCHANGED waiting
  BY <1>0, <1>4 DEF Waiting
<1> QED
  BY <1>1, <1>2, <1>3, <1>4, StepStays, NextCases

LEMMA InitInv == Init => Inv
<1> SUFFICES ASSUME Init PROVE Inv
  OBVIOUS
<1>1. TypeOK
  BY InitTyped
<1>2. /\ \A r \in rows : r.thing \notin Vehicle /\ r.id = 0
      /\ \A x \in cast : known[x].ident = 0
      /\ autoId = 0
  <2>1. \A r \in rows : r.thing \notin Vehicle /\ r.id = 0
    <3>1. rows = {Row(x, "other", 0, 1, 1) : x \in cast \ Vehicle}
      BY DEF Init
    <3>2. \A x : Row(x, "other", 0, 1, 1).thing = x /\ Row(x, "other", 0, 1, 1).id = 0
      BY DEF Row
    <3> QED
      BY <3>1, <3>2
  <2>2. known = [x \in cast |-> Known(0, 0)] /\ autoId = 0
    BY DEF Init
  <2>3. Known(0, 0).ident = 0
    BY KnownTyped
  <2> QED
    BY <2>1, <2>2, <2>3
<1>3. Numbers /\ IdsAreTheirs
  BY <1>2 DEF Numbers, IdsAreTheirs
<1>4. Selected
  BY CallIs DEF Init, Selected
<1>5. Waiting
  BY DEF Init, Waiting
<1> QED
  BY <1>1, <1>3, <1>4, <1>5 DEF Inv

LEMMA InvKept == Inv /\ [Next]_vars => Inv'
<1> SUFFICES ASSUME Inv, [Next]_vars PROVE Inv'
  OBVIOUS
<1>1. TypeOK'
  BY TypesKept DEF Inv
<1>2. Numbers'
  BY NumbersKept, KnownNumbered DEF Numbers
<1> QED
  BY <1>1, <1>2, SelectedKept, WaitingKept, IdsKept DEF Inv

(* Every variable of the world keeps its type, whatever the mission is     *)
(* made of and however often it starts again.                              *)
THEOREM WorldTypeCorrect == Spec => []TypeOK
<1>1. Inv => TypeOK
  BY DEF Inv
<1> QED
  BY <1>1, InitInv, InvKept, PTL DEF Spec

(* createVehicle inserts a row and selects LAST_INSERT_ID() in another     *)
(* statement of the same session: unless the other thread has inserted in  *)
(* between, the number the script gets, and keeps over a restart, is that  *)
(* of its own vehicle and of no other of any instance.                     *)
THEOREM IdsAreOfTheVehicle == Spec => []IdsAreTheirs
<1>1. Inv => IdsAreTheirs
  BY DEF Inv
<1> QED
  BY <1>1, InitInv, InvKept, PTL DEF Spec

(* No update, delete or replacement of this instance changes or removes a  *)
(* row of the other, nor does its shutdown.                                *)
THEOREM NeighboursAreLeftAlone == Spec => NeighboursUntouched
<1>1. Inv /\ [Next]_vars => [\A r \in rows : r.instance = "other" => r \in rows']_rows
  BY RowsStep DEF Inv, OthersKept
<1> QED
  BY <1>1, InitInv, InvKept, PTL DEF Spec, NeighboursUntouched

----------------------------------------------------------------------------
(* The calls about a thing, in their order: one may be executed, by the    *)
(* thread of the thing's prefix, and others wait behind it.                *)
Lane(x) == IF prefix[x] = "d" THEN "game" ELSE "worker"
Places(x) == IF prefix[x] = "d" THEN {0} ELSE 0..Len(waiting[prefix[x]])
CallAt(x, n) == IF n = 0 THEN running[Lane(x)] ELSE waiting[prefix[x]][n]
Concerns(x, c) == c # NoCall /\ c.thing = x

InLine(x, s) ==
  /\ s \in Seq(CallSet)
  /\ \E g \in [1..Len(s) -> Places(x)] :
       /\ \A i, j \in 1..Len(s) : i < j => g[i] < g[j]
       /\ \A i \in 1..Len(s) : s[i] = CallAt(x, g[i]) /\ Concerns(x, s[i])
       /\ \A n \in Places(x) : Concerns(x, CallAt(x, n)) => \E i \in 1..Len(s) : g[i] = n

LEMMA PlacesAre ==
  ASSUME TypeOK, NEW x \in cast
  PROVE  /\ Places(x) \subseteq Nat /\ 0 \in Places(x)
         /\ Lane(x) \in Thread
         /\ prefix[x] # "d" => prefix[x] \in DOMAIN waiting /\ waiting[prefix[x]] \in Seq(CallSet)
<1>1. prefix[x] \in Prefix /\ waiting \in [Prefix \ {"d"} -> Seq(CallSet)]
  BY DEF TypeOK
<1>2. CASE prefix[x] = "d"
  BY <1>2 DEF Places, Lane, Thread
<1>3. CASE prefix[x] # "d"
  <2>1. waiting[prefix[x]] \in Seq(CallSet) /\ prefix[x] \in DOMAIN waiting
    BY <1>1, <1>3
  <2>2. Len(waiting[prefix[x]]) \in Nat
    BY <2>1
  <2> QED
    BY <1>3, <2>1, <2>2 DEF Places, Lane, Thread
<1> QED
  BY <1>2, <1>3

LEMMA PlacesNext ==
  ASSUME TypeOK', UNCHANGED cast, NEW x \in cast
  PROVE  /\ Places(x)' \subseteq Nat /\ 0 \in Places(x)'
<1>1. prefix'[x] \in Prefix /\ waiting' \in [Prefix \ {"d"} -> Seq(CallSet')]
  BY DEF TypeOK
<1>2. CASE prefix'[x] = "d"
  BY <1>2 DEF Places
<1>3. CASE prefix'[x] # "d"
  <2>1. waiting'[prefix'[x]] \in Seq(CallSet')
    BY <1>1, <1>3
  <2>2. Len(waiting'[prefix'[x]]) \in Nat
    BY <2>1
  <2> QED
    BY <1>3, <2>1, <2>2 DEF Places
<1> QED
  BY <1>2, <1>3

(* The calls about x are the same, and may have moved on by a place. *)
LEMMA LineMoves ==
  ASSUME TypeOK, TypeOK', UNCHANGED cast, NEW x \in cast, NEW s, InLine(x, s), NEW d \in {0, 1},
         \A n \in Places(x)' : Concerns(x, CallAt(x, n)') =>
           n + d \in Places(x) /\ CallAt(x, n + d) = CallAt(x, n)',
         \A n \in Places(x) : Concerns(x, CallAt(x, n)) =>
           n - d \in Places(x)' /\ CallAt(x, n - d)' = CallAt(x, n)
  PROVE  InLine(x, s)'
<1>1. PICK g \in [1..Len(s) -> Places(x)] :
       /\ \A i, j \in 1..Len(s) : i < j => g[i] < g[j]
       /\ \A i \in 1..Len(s) : s[i] = CallAt(x, g[i]) /\ Concerns(x, s[i])
       /\ \A n \in Places(x) : Concerns(x, CallAt(x, n)) => \E i \in 1..Len(s) : g[i] = n
  BY DEF InLine
<1>2. Places(x) \subseteq Nat /\ Places(x)' \subseteq Nat /\ s \in Seq(CallSet')
  BY PlacesAre, PlacesNext DEF InLine, CallSet
<1> DEFINE h == [i \in 1..Len(s) |-> g[i] - d]
<1>3. \A i \in 1..Len(s) : h[i] = g[i] - d /\ h[i] \in Places(x)' /\ CallAt(x, h[i])' = s[i]
  BY <1>1
<1>4. h \in [1..Len(s) -> Places(x)']
  BY <1>3
<1> HIDE DEF h
<1>5. \A i, j \in 1..Len(s) : i < j => h[i] < h[j]
  <2>1. \A i \in 1..Len(s) : g[i] \in Nat
    BY <1>1, <1>2
  <2> QED
    BY <1>1, <1>3, <2>1
<1>6. \A n \in Places(x)' : Concerns(x, CallAt(x, n)') => \E i \in 1..Len(s) : h[i] = n
  <2> SUFFICES ASSUME NEW n \in Places(x)', Concerns(x, CallAt(x, n)') PROVE \E i \in 1..Len(s) : h[i] = n
    OBVIOUS
  <2>1. n + d \in Places(x) /\ Concerns(x, CallAt(x, n + d))
    OBVIOUS
  <2>2. PICK i \in 1..Len(s) : g[i] = n + d
    BY <1>1, <2>1
  <2>3. n \in Nat
    BY <1>2
  <2>4. h[i] = (n + d) - d
    BY <1>3, <2>2
  <2> QED
    BY <2>3, <2>4
<1>7. \A i \in 1..Len(s) : s[i] = CallAt(x, h[i])' /\ Concerns(x, s[i])
  BY <1>1, <1>3
<1> QED
  BY <1>2, <1>4, <1>5, <1>6, <1>7 DEF InLine, Concerns

(* The call that was executed has ended, or has become another about x. *)
LEMMA LineEnds ==
  ASSUME TypeOK, TypeOK', UNCHANGED cast, NEW x \in cast, NEW s, InLine(x, s),
         Concerns(x, CallAt(x, 0)), Places(x)' = Places(x),
         \A n \in Places(x) : n # 0 => CallAt(x, n)' = CallAt(x, n)
  PROVE  /\ s # <<>> /\ s[1] = CallAt(x, 0)
         /\ CallAt(x, 0)' = NoCall => InLine(x, Tail(s))'
         /\ \A c : CallAt(x, 0)' = c /\ Concerns(x, c) /\ Len(s) = 1 => InLine(x, <<c>>)'
<1>1. PICK g \in [1..Len(s) -> Places(x)] :
       /\ \A i, j \in 1..Len(s) : i < j => g[i] < g[j]
       /\ \A i \in 1..Len(s) : s[i] = CallAt(x, g[i]) /\ Concerns(x, s[i])
       /\ \A n \in Places(x) : Concerns(x, CallAt(x, n)) => \E i \in 1..Len(s) : g[i] = n
  BY DEF InLine
<1>2. Places(x) \subseteq Nat /\ 0 \in Places(x) /\ s \in Seq(CallSet) /\ CallSet' = CallSet /\ Len(s) \in Nat
  BY PlacesAre DEF InLine, CallSet
<1>3. PICK k \in 1..Len(s) : g[k] = 0
  BY <1>1, <1>2
<1>4. k = 1
  <2>1. g[1] \in Nat /\ 1 \in 1..Len(s)
    BY <1>1, <1>2, <1>3
  <2> QED
    BY <1>1, <1>3, <2>1
<1>5. \A i \in 1..Len(s) : i # 1 => g[i] # 0
  <2>1. \A i \in 1..Len(s) : g[i] \in Nat
    BY <1>1, <1>2
  <2> QED
    BY <1>1, <1>3, <1>4, <2>1
<1>6. s # <<>> /\ s[1] = CallAt(x, 0)
  BY <1>1, <1>2, <1>3, <1>4
<1>7. ASSUME CallAt(x, 0)' = NoCall PROVE InLine(x, Tail(s))'
  <2>1. /\ Tail(s) \in Seq(CallSet) /\ Len(Tail(s)) = Len(s) - 1
        /\ \A i \in 1..(Len(s) - 1) : Tail(s)[i] = s[i + 1] /\ i + 1 \in 1..Len(s) /\ i + 1 # 1
    BY <1>2, <1>6
  <2> DEFINE h == [i \in 1..(Len(s) - 1) |-> g[i + 1]]
  <2>2. h \in [1..Len(Tail(s)) -> Places(x)'] /\ \A i \in 1..(Len(s) - 1) : h[i] = g[i + 1]
    BY <1>1, <2>1
  <2> HIDE DEF h
  <2>3. \A i, j \in 1..Len(Tail(s)) : i < j => h[i] < h[j]
    BY <1>1, <2>1, <2>2
  <2>4. \A i \in 1..Len(Tail(s)) : Tail(s)[i] = CallAt(x, h[i])' /\ Concerns(x, Tail(s)[i])
    BY <1>1, <1>5, <2>1, <2>2
  <2>5. ASSUME NEW n \in Places(x)', Concerns(x, CallAt(x, n)') PROVE \E i \in 1..Len(Tail(s)) : h[i] = n
    <3>1. n # 0
      BY <1>7, <2>5 DEF Concerns
    <3>2. PICK i \in 1..Len(s) : g[i] = n
      BY <1>1, <2>5, <3>1
    <3>3. i # 1
      BY <1>3, <1>4, <3>1, <3>2
    <3>4. i - 1 \in 1..(Len(s) - 1) /\ (i - 1) + 1 = i
      BY <1>2, <3>3
    <3> QED
      BY <2>1, <2>2, <3>2, <3>4
  <2> QED
    BY <1>2, <2>1, <2>2, <2>3, <2>4, <2>5 DEF InLine, Concerns
<1>8. ASSUME NEW c, CallAt(x, 0)' = c, Concerns(x, c), Len(s) = 1 PROVE InLine(x, <<c>>)'
  <2>1. c \in CallSet
    <3>1. prefix'[x] \in Prefix /\ running' \in [Thread -> CallSet' \cup {NoCall}]
      BY DEF TypeOK
    <3>2. c = running'[Lane(x)'] /\ Lane(x)' \in Thread
      BY <1>8, <3>1 DEF CallAt, Lane, Thread
    <3> QED
      BY <1>2, <1>8, <3>1, <3>2 DEF Concerns
  <2>2. \A n \in Places(x) : n # 0 => ~Concerns(x, CallAt(x, n)')
    <3> SUFFICES ASSUME NEW n \in Places(x), n # 0, Concerns(x, CallAt(x, n)) PROVE FALSE
      OBVIOUS
    <3>1. PICK i \in 1..Len(s) : g[i] = n
      BY <1>1
    <3> QED
      BY <1>3, <1>4, <1>8, <3>1
  <2> DEFINE h == [i \in 1..1 |-> 0]
  <2>3. h \in [1..1 -> Places(x)'] /\ h[1] = 0
    BY <1>2
  <2> HIDE DEF h
  <2>5. <<c>> \in Seq(CallSet') /\ Len(<<c>>) = 1 /\ <<c>>[1] = c
    BY <1>2, <2>1
  <2>6. \A i \in 1..1 : i = 1
    OBVIOUS
  <2> QED
    BY <1>8, <2>2, <2>3, <2>5, <2>6 DEF InLine, Concerns
<1> QED
  BY <1>6, <1>7, <1>8

(* A call about x joins at the end. *)
LEMMA LineGrows ==
  ASSUME TypeOK, TypeOK', UNCHANGED cast, NEW x \in cast, NEW s, InLine(x, s),
         NEW m \in Places(x)', NEW c, CallAt(x, m)' = c, Concerns(x, c),
         Places(x)' = Places(x) \cup {m},
         \A n \in Places(x) : n # m => CallAt(x, n)' = CallAt(x, n),
         \A n \in Places(x) : Concerns(x, CallAt(x, n)) => n < m
  PROVE  InLine(x, Append(s, c))'
<1>1. PICK g \in [1..Len(s) -> Places(x)] :
       /\ \A i, j \in 1..Len(s) : i < j => g[i] < g[j]
       /\ \A i \in 1..Len(s) : s[i] = CallAt(x, g[i]) /\ Concerns(x, s[i])
       /\ \A n \in Places(x) : Concerns(x, CallAt(x, n)) => \E i \in 1..Len(s) : g[i] = n
  BY DEF InLine
<1>2. Places(x) \subseteq Nat /\ m \in Nat /\ s \in Seq(CallSet) /\ CallSet' = CallSet /\ Len(s) \in Nat
  BY PlacesAre, PlacesNext DEF InLine, CallSet
<1>3. c \in CallSet
  <2>1. /\ prefix'[x] \in Prefix /\ running' \in [Thread -> CallSet' \cup {NoCall}]
        /\ waiting' \in [Prefix \ {"d"} -> Seq(CallSet')]
    BY DEF TypeOK
  <2>2. CASE m = 0
    <3>1. c = running'[Lane(x)'] /\ Lane(x)' \in Thread
      BY <2>1, <2>2 DEF CallAt, Lane, Thread
    <3> QED
      BY <1>2, <2>1, <3>1 DEF Concerns
  <2>3. CASE m # 0
    <3>1. prefix'[x] # "d" /\ m \in 1..Len(waiting'[prefix'[x]])
      BY <1>2, <2>3 DEF Places
    <3>2. waiting'[prefix'[x]] \in Seq(CallSet') /\ c = waiting'[prefix'[x]][m]
      BY <2>1, <2>3, <3>1 DEF CallAt
    <3> QED
      BY <1>2, <3>1, <3>2
  <2> QED
    BY <2>2, <2>3
<1> DEFINE q == Append(s, c)
           h == [i \in 1..(Len(s) + 1) |-> IF i = Len(s) + 1 THEN m ELSE g[i]]
<1>4. /\ q \in Seq(CallSet) /\ Len(q) = Len(s) + 1 /\ q[Len(s) + 1] = c
      /\ \A i \in 1..Len(s) : q[i] = s[i] /\ i # Len(s) + 1
      /\ \A i \in 1..Len(q) : i \in 1..Len(s) \/ i = Len(s) + 1
      /\ Len(s) + 1 \in 1..Len(q) /\ \A i \in 1..Len(s) : i \in 1..Len(q)
  BY <1>2, <1>3
<1>5. /\ h \in [1..Len(q) -> Places(x)'] /\ h[Len(s) + 1] = m
      /\ \A i \in 1..Len(s) : h[i] = g[i]
  BY <1>1, <1>2, <1>4
<1> HIDE DEF q, h
<1>6. \A i \in 1..Len(s) : g[i] \in Nat /\ g[i] < m /\ g[i] # m
  BY <1>1, <1>2
<1>7. ASSUME NEW i \in 1..Len(q), NEW j \in 1..Len(q), i < j PROVE h[i] < h[j]
  <2>1. i \in 1..Len(s)
    BY <1>2, <1>4, <1>7
  <2> QED
    BY <1>1, <1>4, <1>5, <1>6, <1>7, <2>1
<1>8. ASSUME NEW i \in 1..Len(q) PROVE q[i] = CallAt(x, h[i])' /\ Concerns(x, q[i])
  <2>1. CASE i \in 1..Len(s)
    BY <1>1, <1>4, <1>5, <1>6, <2>1
  <2>2. CASE i = Len(s) + 1
    BY <1>4, <1>5, <2>2
  <2> QED
    BY <1>4, <2>1, <2>2
<1>9. ASSUME NEW n \in Places(x)', Concerns(x, CallAt(x, n)') PROVE \E i \in 1..Len(q) : h[i] = n
  <2>1. CASE n = m
    BY <1>4, <1>5, <2>1
  <2>2. CASE n # m
    <3>1. n \in Places(x) /\ Concerns(x, CallAt(x, n))
      BY <1>9, <2>2
    <3>2. PICK i \in 1..Len(s) : g[i] = n
      BY <1>1, <3>1
    <3> QED
      BY <1>4, <1>5, <3>2
  <2> QED
    BY <2>1, <2>2
<1>10. InLine(x, q)'
  BY <1>2, <1>4, <1>5, <1>7, <1>8, <1>9 DEF InLine, Concerns
<1> QED
  BY <1>10 DEF q

----------------------------------------------------------------------------
(* Calls are as the scripts make them, and are where their prefix says.    *)
Formed(c) ==
  /\ c.op = "remove" <=> c.version = 0
  /\ c.op \in {"publish", "select"} => c.version = 1
  /\ c.op = "save" => c.thing \notin House
  /\ c.op = "select" => c.thing \in Vehicle

WaitsWhere(w) == \A p \in DOMAIN w : \A i \in 1..Len(w[p]) :
                   prefix[w[p][i].thing] = p /\ Formed(w[p][i])
RunsWhere(r)  == \A t \in Thread : r[t] # NoCall =>
                   Lane(r[t].thing) = t /\ Formed(r[t])
Placed == WaitsWhere(waiting) /\ RunsWhere(running)

(* A server that is down makes no calls. *)
Down == ~up => /\ \A p \in DOMAIN waiting : waiting[p] = <<>>
               /\ \A t \in Thread : running[t] = NoCall

(* What the scripts do to the calls about x and to what they know of it.   *)
Asks(x, c) ==
  \/ /\ c.op = "publish" /\ x \in Vehicle /\ known[x].version = 0 /\ ~Pending(x)
     /\ known'[x] = known[x]
  \/ /\ c.op = "publish" /\ x \notin Vehicle /\ known[x].version = 0
     /\ known'[x].version = 1 /\ known'[x].ident = c.ident
  \/ /\ c.op \in {"save", "remove"} /\ known[x].version > 0 /\ c.ident = known[x].ident
     /\ known'[x].version = c.version /\ known'[x].ident = known[x].ident

LEMMA Asked ==
  ASSUME TypeOK, NEW x \in cast, Publish(x) \/ Save(x) \/ Remove(x)
  PROVE  \E c \in CallSet : /\ c.thing = x /\ Formed(c) /\ Submit(c) /\ Asks(x, c)
                            /\ \A y \in cast : y # x => known'[y] = known[y]
<1>0. known \in [cast -> KnownSet] /\ known[x].ident \in Nat /\ known[x].version \in Nat /\ x \in Thing
  BY KnownIs DEF TypeOK
<1>1. CASE Publish(x)
  <2>1. CASE x \in Vehicle
    <3> DEFINE c == Call("publish", x, 0, 1)
    <3>1. Submit(c) /\ UNCHANGED known /\ known[x].version = 0 /\ ~Pending(x)
      BY <1>1, <2>1 DEF Publish
    <3>2. c \in CallSet /\ c.thing = x /\ c.op = "publish" /\ Formed(c)
      BY <1>0, CallTyped DEF Formed, Call
    <3> QED
      BY <2>1, <3>1, <3>2 DEF Asks
  <2>2. CASE x \notin Vehicle
    <3>1. PICK ident \in Nat : /\ Submit(Call("publish", x, ident, 1))
                               /\ known' = [known EXCEPT ![x] = Known(ident, 1)]
      <4> DEFINE n == IF x \in House THEN known[x].ident + 1 ELSE 0
      <4>1. n \in Nat
        BY <1>0
      <4>2. Submit(Call("publish", x, n, 1)) /\ known' = [known EXCEPT ![x] = Known(n, 1)]
        BY <1>1, <2>2 DEF Publish
      <4> QED
        BY <4>1, <4>2
    <3> DEFINE c == Call("publish", x, ident, 1)
    <3>2. c \in CallSet /\ c.thing = x /\ c.op = "publish" /\ c.ident = ident /\ Formed(c)
      BY <1>0, CallTyped DEF Formed, Call
    <3>3. known'[x].version = 1 /\ known'[x].ident = ident /\ \A y \in cast : y # x => known'[y] = known[y]
      BY <1>0, <3>1, KnownTyped
    <3>4. known[x].version = 0
      BY <1>1 DEF Publish
    <3> HIDE DEF c
    <3>5. Submit(c)
      BY <3>1 DEF c
    <3> QED
      BY <2>2, <3>2, <3>3, <3>4, <3>5 DEF Asks
  <2> QED
    BY <2>1, <2>2
<1>2. CASE Save(x)
  <2> DEFINE c == Call("save", x, known[x].ident, known[x].version + 1)
  <2>1. Submit(c) /\ known' = [known EXCEPT ![x].version = @ + 1] /\ x \notin House /\ known[x].version > 0
    BY <1>2 DEF Save
  <2>2. /\ known'[x].ident = known[x].ident /\ known'[x].version = known[x].version + 1
        /\ \A y \in cast : y # x => known'[y] = known[y]
    BY <1>0, <2>1 DEF KnownSet
  <2>3. known[x].version + 1 \in Nat /\ known[x].version + 1 # 0
    BY <1>0
  <2>4. /\ c \in CallSet /\ c.thing = x /\ c.op = "save" /\ c.ident = known[x].ident
        /\ c.version = known[x].version + 1 /\ Formed(c)
    BY <1>0, <2>1, <2>3, CallTyped DEF Formed, Call
  <2> HIDE DEF c
  <2> QED
    BY <2>1, <2>2, <2>4 DEF Asks
<1>3. CASE Remove(x)
  <2> DEFINE c == Call("remove", x, known[x].ident, 0)
  <2>1. Submit(c) /\ known' = [known EXCEPT ![x].version = 0] /\ known[x].version > 0
    BY <1>3 DEF Remove
  <2>2. /\ known'[x].ident = known[x].ident /\ known'[x].version = 0
        /\ \A y \in cast : y # x => known'[y] = known[y]
    BY <1>0, <2>1 DEF KnownSet
  <2>3. /\ c \in CallSet /\ c.thing = x /\ c.op = "remove" /\ c.ident = known[x].ident
        /\ c.version = 0 /\ Formed(c)
    BY <1>0, CallTyped DEF Formed, Call
  <2> HIDE DEF c
  <2> QED
    BY <2>1, <2>2, <2>3 DEF Asks
<1> QED
  BY <1>1, <1>2, <1>3

----------------------------------------------------------------------------
(* What the steps do to the calls that wait and run. *)
Ended(t)    == running' = [running EXCEPT ![t] = NoCall] /\ UNCHANGED waiting
Selects(t)  == /\ running' = [running EXCEPT ![t] = [running[t] EXCEPT !.op = "select"]]
               /\ running[t].op = "publish" /\ running[t].thing \in Vehicle /\ UNCHANGED waiting
Emptied     == /\ waiting' = [p \in DOMAIN waiting |-> <<>>]
               /\ running' = [t \in Thread |-> NoCall]

LEMMA CallsStep ==
  ASSUME [Next]_vars
  PROVE  \/ \E x \in cast : Publish(x) \/ Save(x) \/ Remove(x)
         \/ \E p \in DOMAIN waiting : Take(p)
         \/ \E t \in Thread : Execute(t) /\ (Ended(t) \/ Selects(t))
         \/ \E t \in Thread : (SelectId(t) \/ Fail(t)) /\ Ended(t)
         \/ Crash /\ Emptied
         \/ /\ Reconnect \/ Shutdown \/ (\E blind \in SUBSET {Deployable, House, Vehicle} : Boot(blind))
               \/ (\E x \in cast \cap Vehicle : Neighbour(x)) \/ UNCHANGED vars
            /\ UNCHANGED <<waiting, running>>
<1>1. ASSUME NEW t \in Thread, Execute(t) PROVE Ended(t) \/ Selects(t)
  BY <1>1 DEF Execute, Ended, Selects
<1>2. ASSUME NEW t \in Thread, SelectId(t) \/ Fail(t) PROVE Ended(t)
  BY <1>2 DEF SelectId, Fail, Ended
<1>3. Crash => Emptied
  BY DEF Crash, Emptied
<1> QED
  BY <1>1, <1>2, <1>3, NextCases, StepStays

LEMMA PrefixStays == TypeOK /\ [Next]_vars => UNCHANGED <<cast, prefix>>
<1> SUFFICES ASSUME TypeOK, [Next]_vars PROVE UNCHANGED <<cast, prefix>>
  OBVIOUS
<1>1. ASSUME NEW x \in cast, Publish(x) \/ Save(x) \/ Remove(x) PROVE UNCHANGED <<cast, prefix>>
  BY <1>1, ScriptEffect, SubmitTyped DEF Scripted
<1> QED
  BY <1>1, StepStays, NextCases

LEMMA Made ==
  ASSUME TypeOK, NEW c \in CallSet, Submit(c)
  PROVE  /\ up /\ prefix[c.thing] \in Prefix
         /\ prefix[c.thing] = "d" =>
              /\ running["game"] = NoCall
              /\ running' = [running EXCEPT !["game"] = c] /\ UNCHANGED waiting
         /\ prefix[c.thing] # "d" =>
              /\ waiting' = [waiting EXCEPT ![prefix[c.thing]] = Append(@, c)]
              /\ UNCHANGED running
BY CallIs DEF Submit, TypeOK

LEMMA Taken ==
  ASSUME TypeOK, NEW p \in DOMAIN waiting, Take(p)
  PROVE  /\ up /\ p # "d" /\ waiting[p] \in Seq(CallSet) /\ waiting[p] # <<>>
         /\ running["worker"] = NoCall
         /\ running' = [running EXCEPT !["worker"] = waiting[p][1]]
         /\ waiting' = [waiting EXCEPT ![p] = Tail(waiting[p])]
<1>1. p \in Prefix \ {"d"} /\ waiting[p] \in Seq(CallSet)
  BY DEF TypeOK
<1> QED
  BY <1>1 DEF Take

LEMMA PlacedNext ==
  ASSUME UNCHANGED prefix, WaitsWhere(waiting'), RunsWhere(running')
  PROVE  Placed'
<1>1. WaitsWhere(waiting)'
  BY DEF WaitsWhere, Formed
<1>2. RunsWhere(running)'
  BY DEF RunsWhere, Lane, Formed
<1> QED
  BY <1>1, <1>2 DEF Placed

LEMMA RunsOn ==
  ASSUME TypeOK, RunsWhere(running), NEW t \in Thread, NEW c,
         running' = [running EXCEPT ![t] = c],
         c # NoCall => Lane(c.thing) = t /\ Formed(c)
  PROVE  RunsWhere(running')
<1>0. running \in [Thread -> Calling]
  BY TypeParts
<1>1. ASSUME NEW u \in Thread PROVE (running'[u] = c /\ u = t) \/ running'[u] = running[u]
  BY <1>0
<1> QED
  BY <1>1 DEF RunsWhere

LEMMA PlacedKept == TypeOK /\ Placed /\ [Next]_vars => Placed'
<1> SUFFICES ASSUME TypeOK, Placed, [Next]_vars PROVE Placed'
  OBVIOUS
<1>0. /\ UNCHANGED prefix /\ waiting \in [Prefix \ {"d"} -> Seq(CallSet)]
      /\ running \in [Thread -> Calling] /\ "worker" \in Thread /\ "game" \in Thread
      /\ WaitsWhere(waiting) /\ RunsWhere(running)
  BY PrefixStays, TypeParts DEF Thread, Placed
<1>6. ASSUME NEW x \in cast, Publish(x) \/ Save(x) \/ Remove(x)
      PROVE  WaitsWhere(waiting') /\ RunsWhere(running')
  <2>1. PICK c \in CallSet : c.thing = x /\ Formed(c) /\ Submit(c)
    BY <1>6, Asked
  <2>2. CASE prefix[x] = "d"
    <3>1. running' = [running EXCEPT !["game"] = c] /\ UNCHANGED waiting
      BY <2>1, <2>2, Made
    <3>2. Lane(x) = "game"
      BY <2>2 DEF Lane
    <3> QED
      BY <1>0, <2>1, <3>1, <3>2, RunsOn
  <2>3. CASE prefix[x] # "d"
    <3>1. PICK p \in DOMAIN waiting : /\ waiting' = [waiting EXCEPT ![p] = Append(waiting[p], c)]
                                      /\ p = prefix[x] /\ UNCHANGED running
      BY <1>0, <2>1, <2>3, Made
    <3>2. /\ waiting[p] \in Seq(CallSet) /\ waiting'[p] = Append(waiting[p], c)
          /\ DOMAIN waiting' = DOMAIN waiting /\ \A q \in DOMAIN waiting : q # p => waiting'[q] = waiting[q]
      BY <1>0, <3>1
    <3>3. \A i \in 1..Len(waiting'[p]) :
            \/ i \in 1..Len(waiting[p]) /\ waiting'[p][i] = waiting[p][i]
            \/ waiting'[p][i] = c
      BY <3>2
    <3>4. prefix[c.thing] = p
      BY <2>1, <3>1
    <3>5. ASSUME NEW q \in DOMAIN waiting, NEW i \in 1..Len(waiting'[q])
          PROVE  prefix[waiting'[q][i].thing] = q /\ Formed(waiting'[q][i])
      <4>1. CASE q = p
        <5>1. CASE waiting'[q][i] = c
          BY <2>1, <3>4, <4>1, <5>1
        <5>2. CASE i \in 1..Len(waiting[p]) /\ waiting'[q][i] = waiting[p][i]
          BY <1>0, <4>1, <5>2 DEF WaitsWhere
        <5> QED
          BY <3>3, <3>5, <4>1, <5>1, <5>2
      <4>2. CASE q # p
        BY <1>0, <3>2, <3>5, <4>2 DEF WaitsWhere
      <4> QED
        BY <4>1, <4>2
    <3>6. WaitsWhere(waiting')
      BY <3>2, <3>5 DEF WaitsWhere
    <3> QED
      BY <1>0, <3>1, <3>6
  <2> QED
    BY <2>2, <2>3
<1>7. ASSUME NEW p \in DOMAIN waiting, Take(p) PROVE WaitsWhere(waiting') /\ RunsWhere(running')
  <2>1. /\ p # "d" /\ waiting[p] \in Seq(CallSet) /\ waiting[p] # <<>>
        /\ running' = [running EXCEPT !["worker"] = waiting[p][1]]
        /\ waiting' = [waiting EXCEPT ![p] = Tail(waiting[p])]
    BY <1>7, Taken
  <2>2. waiting[p][1] \in CallSet /\ 1 \in 1..Len(waiting[p])
    BY <2>1
  <2>3. prefix[waiting[p][1].thing] = p /\ Formed(waiting[p][1])
    BY <1>0, <2>2 DEF WaitsWhere
  <2>4. Lane(waiting[p][1].thing) = "worker"
    BY <2>1, <2>3 DEF Lane
  <2>5. RunsWhere(running')
    BY <1>0, <2>1, <2>3, <2>4, RunsOn
  <2>6. \A i \in 1..Len(Tail(waiting[p])) : i + 1 \in 1..Len(waiting[p]) /\ Tail(waiting[p])[i] = waiting[p][i + 1]
    BY <2>1
  <2>7. /\ waiting'[p] = Tail(waiting[p]) /\ DOMAIN waiting' = DOMAIN waiting
        /\ \A q \in DOMAIN waiting : q # p => waiting'[q] = waiting[q]
    BY <1>0, <2>1
  <2>8. ASSUME NEW q \in DOMAIN waiting, NEW i \in 1..Len(waiting'[q])
        PROVE  prefix[waiting'[q][i].thing] = q /\ Formed(waiting'[q][i])
    <3>1. CASE q = p
      <4>1. i + 1 \in 1..Len(waiting[p]) /\ waiting'[q][i] = waiting[p][i + 1]
        BY <2>6, <2>7, <2>8, <3>1
      <4> QED
        BY <1>0, <3>1, <4>1 DEF WaitsWhere
    <3>2. CASE q # p
      BY <1>0, <2>7, <2>8, <3>2 DEF WaitsWhere
    <3> QED
      BY <3>1, <3>2
  <2> QED
    BY <2>5, <2>7, <2>8 DEF WaitsWhere
<1>8. ASSUME NEW t \in Thread, Ended(t) PROVE WaitsWhere(waiting') /\ RunsWhere(running')
  <2>1. running' = [running EXCEPT ![t] = NoCall] /\ UNCHANGED waiting
    BY <1>8 DEF Ended
  <2> QED
    BY <1>0, <2>1, RunsOn
<1>9. ASSUME NEW t \in Thread, Selects(t) PROVE WaitsWhere(waiting') /\ RunsWhere(running')
  <2>1. running[t] \in CallSet /\ running[t] # NoCall
    <3>1. running[t].op = "publish"
      BY <1>9 DEF Selects
    <3>2. running[t] # NoCall
      BY <3>1, CallIs
    <3> QED
      BY <3>2, RunningIs
  <2>2. PICK c : c = [running[t] EXCEPT !.op = "select"]
    OBVIOUS
  <2>3. c.thing = running[t].thing /\ c.op = "select" /\ c.version = running[t].version
    BY <2>1, <2>2 DEF CallSet
  <2>4. Lane(running[t].thing) = t /\ Formed(running[t])
    BY <1>0, <2>1 DEF RunsWhere
  <2>5. Formed(c)
    <3>1. running[t].op = "publish" /\ running[t].thing \in Vehicle
      BY <1>9 DEF Selects
    <3>2. running[t].version = 1
      BY <2>4, <3>1 DEF Formed
    <3> QED
      BY <2>3, <3>1, <3>2 DEF Formed
  <2>6. running' = [running EXCEPT ![t] = c] /\ UNCHANGED waiting
    BY <1>9, <2>2 DEF Selects
  <2> QED
    BY <1>0, <2>3, <2>4, <2>5, <2>6, RunsOn
<1>10. ASSUME Emptied PROVE WaitsWhere(waiting') /\ RunsWhere(running')
  <2>1. \A p \in DOMAIN waiting' : waiting'[p] = <<>>
    BY <1>10 DEF Emptied
  <2>2. \A t \in Thread : running'[t] = NoCall
    BY <1>10 DEF Emptied
  <2>3. \A i \in 1..Len(<<>>) : FALSE
    OBVIOUS
  <2> QED
    BY <2>1, <2>2, <2>3 DEF WaitsWhere, RunsWhere
<1>11. ASSUME UNCHANGED <<waiting, running>> PROVE WaitsWhere(waiting') /\ RunsWhere(running')
  <2>1. waiting' = waiting /\ running' = running
    BY <1>11
  <2> QED
    BY <1>0, <2>1 DEF WaitsWhere, RunsWhere
<1> DEFINE G == WaitsWhere(waiting') /\ RunsWhere(running')
<1>12. G
  <2> HIDE DEF G
  <2>1. /\ \A x \in cast : Publish(x) \/ Save(x) \/ Remove(x) => G
        /\ \A p \in DOMAIN waiting : Take(p) => G
        /\ \A t \in Thread : Ended(t) \/ Selects(t) => G
        /\ Emptied => G
        /\ UNCHANGED <<waiting, running>> => G
    BY <1>6, <1>7, <1>8, <1>9, <1>10, <1>11 DEF G
  <2> QED
    BY <2>1, CallsStep
<1> QED
  BY <1>0, <1>12, PlacedNext

LEMMA DownKept == TypeOK /\ Down /\ [Next]_vars => Down'
<1> SUFFICES ASSUME TypeOK, Down, [Next]_vars PROVE Down'
  OBVIOUS
<1>0. waiting \in [Prefix \ {"d"} -> Seq(CallSet)] /\ running \in [Thread -> Calling]
  BY TypeParts
<1>1. ASSUME NEW x \in cast, Publish(x) \/ Save(x) \/ Remove(x) PROVE up'
  <2>1. PICK c \in CallSet : Submit(c)
    BY <1>1, Asked
  <2> QED
    BY <2>1 DEF Submit
<1>2. ASSUME NEW p \in DOMAIN waiting, Take(p) PROVE up'
  BY <1>2 DEF Take
<1>3. ASSUME NEW t \in Thread, Ended(t) PROVE Down' \/ ~UNCHANGED up
  <2>1. \A u \in Thread : running[u] = NoCall => running'[u] = NoCall
    BY <1>0, <1>3 DEF Ended
  <2> QED
    BY <1>3, <2>1 DEF Ended, Down
<1>4. ASSUME NEW t \in Thread, Selects(t), UNCHANGED up PROVE Down'
  BY <1>4 DEF Selects, Down, NoCall, Call
<1>5. CASE Emptied
  BY <1>5 DEF Emptied, Down
<1>6. CASE UNCHANGED <<waiting, running, up>>
  BY <1>6 DEF Down
<1>7. ASSUME NEW blind, Boot(blind) PROVE up'
  BY <1>7 DEF Boot
<1>8. CASE Shutdown
  <2>1. \A x \in cast : ~Pending(x)
    BY <1>8 DEF Shutdown
  <2>2. ASSUME NEW t \in Thread PROVE running[t] = NoCall
    <3>1. running[t] \in UnderWay
      BY DEF UnderWay
    <3> QED
      BY <1>0, <2>1, <3>1, CallIs DEF Pending, Calling
  <2>3. ASSUME NEW p \in DOMAIN waiting PROVE waiting[p] = <<>>
    <3> SUFFICES ASSUME waiting[p] # <<>> PROVE FALSE
      OBVIOUS
    <3>1. waiting[p] \in Seq(CallSet)
      BY <1>0
    <3>2. waiting[p][1] \in CallSet /\ 1 \in DOMAIN waiting[p]
      BY <3>1
    <3>3. waiting[p][1] \in UnderWay
      BY <3>2 DEF UnderWay, Range
    <3> QED
      BY <2>1, <3>2, <3>3, CallIs DEF Pending
  <2> QED
    BY <1>8, <2>2, <2>3, StepStays DEF Down
<1> QED
  BY <1>1, <1>2, <1>3, <1>4, <1>5, <1>6, <1>7, <1>8, CallsStep, StepStays DEF Down

----------------------------------------------------------------------------
(* What the steps do to the line of a thing. *)
LEMMA PlacesAfter ==
  ASSUME UNCHANGED prefix, NEW x
  PROVE  /\ Lane(x)' = Lane(x)
         /\ prefix[x] = "d" => Places(x)' = {0}
         /\ prefix[x] # "d" => Places(x)' = 0..Len(waiting'[prefix[x]])
         /\ \A n : n = 0 => CallAt(x, n)' = running'[Lane(x)] /\ CallAt(x, n) = running[Lane(x)]
         /\ \A n : n # 0 => CallAt(x, n)' = waiting'[prefix[x]][n] /\ CallAt(x, n) = waiting[prefix[x]][n]
BY DEF Lane, Places, CallAt

Still == UNCHANGED <<cast, prefix>> /\ TypeOK /\ TypeOK'

(* A call of another thing ends, begins or joins where x is not.           *)
LEMMA LineStays ==
  ASSUME Still, NEW x \in cast, NEW s, InLine(x, s),
         UNCHANGED waiting \/ prefix[x] = "d",
         \/ running'[Lane(x)] = running[Lane(x)]
         \/ ~Concerns(x, running[Lane(x)]) /\ ~Concerns(x, running'[Lane(x)])
  PROVE  InLine(x, s)'
<1>0. TypeOK /\ TypeOK' /\ UNCHANGED cast /\ UNCHANGED prefix
  BY DEF Still
<1>1. Places(x)' = Places(x)
  BY <1>0 DEF Places
<1>2. \A n \in Places(x) : n # 0 => CallAt(x, n)' = CallAt(x, n)
  <2>1. CASE prefix[x] = "d"
    BY <2>1 DEF Places
  <2>2. CASE UNCHANGED waiting
    BY <1>0, <2>2, PlacesAfter
  <2> QED
    BY <2>1, <2>2
<1>3. \A n : n = 0 => CallAt(x, n)' = running'[Lane(x)] /\ CallAt(x, n) = running[Lane(x)]
  BY <1>0, PlacesAfter
<1>4. Places(x) \subseteq Nat
  BY <1>0, PlacesAre
<1>5. \A n \in Places(x) : n + 0 = n /\ n - 0 = n
  BY <1>4
<1>6. \A n \in Places(x)' : Concerns(x, CallAt(x, n)') =>
           n + 0 \in Places(x) /\ CallAt(x, n + 0) = CallAt(x, n)'
  <2> SUFFICES ASSUME NEW n \in Places(x), Concerns(x, CallAt(x, n)') PROVE CallAt(x, n) = CallAt(x, n)'
    BY <1>1, <1>5
  <2> QED
    BY <1>2, <1>3
<1>7. \A n \in Places(x) : Concerns(x, CallAt(x, n)) =>
           n - 0 \in Places(x)' /\ CallAt(x, n - 0)' = CallAt(x, n)
  <2> SUFFICES ASSUME NEW n \in Places(x), Concerns(x, CallAt(x, n)) PROVE CallAt(x, n)' = CallAt(x, n)
    BY <1>1, <1>5
  <2> QED
    BY <1>2, <1>3
<1> QED
  BY <1>0, <1>6, <1>7, LineMoves

LEMMA LineSubmits ==
  ASSUME Still, NEW x \in cast, NEW s, InLine(x, s), NEW c \in CallSet, Submit(c)
  PROVE  /\ c.thing = x => InLine(x, Append(s, c))'
         /\ c.thing # x => InLine(x, s)'
<1>0. TypeOK /\ TypeOK' /\ UNCHANGED cast /\ UNCHANGED prefix
      /\ waiting \in [Prefix \ {"d"} -> Seq(CallSet)] /\ running \in [Thread -> Calling]
      /\ prefix[x] \in Prefix /\ c # NoCall /\ Lane(x) \in Thread
  BY TypeParts, CallIs, PlacesAre DEF Still, TypeOK
<1>1. CASE prefix[c.thing] = "d"
  <2>1. running["game"] = NoCall /\ running' = [running EXCEPT !["game"] = c] /\ UNCHANGED waiting
    BY <1>0, <1>1, Made
  <2>2. running'["game"] = c /\ running'["worker"] = running["worker"]
    BY <1>0, <2>1 DEF Thread
  <2>3. ASSUME c.thing # x PROVE InLine(x, s)'
    <3>1. ~Concerns(x, NoCall) /\ ~Concerns(x, c)
      BY <2>3 DEF Concerns
    <3>2. CASE Lane(x) = "game"
      BY <2>1, <2>2, <3>1, <3>2, LineStays
    <3>3. CASE Lane(x) = "worker"
      BY <2>1, <2>2, <3>3, LineStays
    <3> QED
      BY <1>0, <3>2, <3>3 DEF Thread
  <2>4. ASSUME c.thing = x PROVE InLine(x, Append(s, c))'
    <3>1. prefix[x] = "d" /\ Lane(x) = "game" /\ Places(x) = {0} /\ Places(x)' = {0}
      BY <1>0, <1>1, <2>4 DEF Lane, Places
    <3>2. PICK m \in {0} : m = 0
      OBVIOUS
    <3>3. CallAt(x, m)' = c /\ CallAt(x, m) = NoCall
      BY <1>0, <2>1, <2>2, <3>1, <3>2, PlacesAfter
    <3>4. Concerns(x, c) /\ ~Concerns(x, NoCall)
      BY <1>0, <2>4 DEF Concerns
    <3>5. \A n \in Places(x) : n = m
      BY <3>1, <3>2
    <3>6. m \in Places(x)' /\ Places(x)' = Places(x) \cup {m}
      BY <3>1
    <3>7. \A n \in Places(x) : Concerns(x, CallAt(x, n)) => n < m
      BY <3>3, <3>4, <3>5
    <3>8. \A n \in Places(x) : n # m => CallAt(x, n)' = CallAt(x, n)
      BY <3>5
    <3> QED
      BY <1>0, <3>3, <3>4, <3>6, <3>7, <3>8, LineGrows
  <2> QED
    BY <2>3, <2>4
<1>2. CASE prefix[c.thing] # "d"
  <2>1. PICK p \in Prefix \ {"d"} : /\ p = prefix[c.thing]
                                    /\ waiting' = [waiting EXCEPT ![p] = Append(waiting[p], c)]
                                    /\ UNCHANGED running
    BY <1>0, <1>2, Made
  <2>2. waiting[p] \in Seq(CallSet)
    BY <1>0
  <2>3. /\ waiting'[p] = Append(waiting[p], c)
        /\ \A q \in Prefix \ {"d"} : q # p => waiting'[q] = waiting[q]
    BY <1>0, <2>1
  <2>4. PICK l \in Nat : l = Len(waiting[p])
    BY <2>2
  <2>5. /\ Len(waiting'[p]) = l + 1 /\ waiting'[p][l + 1] = c
        /\ \A n \in 1..l : waiting'[p][n] = waiting[p][n]
    BY <2>2, <2>3, <2>4
  <2>6. CASE prefix[x] = p
    <3>1. Places(x) = 0..l /\ Places(x)' = 0..(l + 1)
      BY <1>0, <2>1, <2>4, <2>5, <2>6, PlacesAfter DEF Places
    <3>2. PICK m \in Nat : m = l + 1 /\ m # 0
      BY <2>4
    <3>3. CallAt(x, m)' = c
      BY <1>0, <2>5, <2>6, <3>2, PlacesAfter
    <3>4. \A n \in Places(x) : CallAt(x, n)' = CallAt(x, n)
      <4> SUFFICES ASSUME NEW n \in Places(x) PROVE CallAt(x, n)' = CallAt(x, n)
        OBVIOUS
      <4>1. CASE n = 0
        BY <1>0, <2>1, <4>1, PlacesAfter
      <4>2. CASE n # 0
        <5>1. n \in 1..l
          BY <3>1, <4>2
        <5> QED
          BY <1>0, <2>5, <2>6, <4>2, <5>1, PlacesAfter
      <4> QED
        BY <4>1, <4>2
    <3>5. m \in Places(x)' /\ Places(x)' = Places(x) \cup {m} /\ \A n \in Places(x) : n < m /\ n \in Places(x)'
      BY <2>4, <3>1, <3>2
    <3>6. ASSUME c.thing = x PROVE InLine(x, Append(s, c))'
      <4>1. Concerns(x, c)
        BY <1>0, <3>6 DEF Concerns
      <4> QED
        BY <1>0, <3>3, <3>4, <3>5, <4>1, LineGrows
    <3>7. ASSUME c.thing # x PROVE InLine(x, s)'
      <4>1. Places(x) \subseteq Nat
        BY <3>1
      <4>2. \A n \in Places(x) : n + 0 = n /\ n - 0 = n
        BY <4>1
      <4>3. \A n \in Places(x)' : Concerns(x, CallAt(x, n)') =>
                n + 0 \in Places(x) /\ CallAt(x, n + 0) = CallAt(x, n)'
        <5> SUFFICES ASSUME NEW n \in Places(x)', Concerns(x, CallAt(x, n)')
                     PROVE  n \in Places(x) /\ CallAt(x, n) = CallAt(x, n)'
          BY <4>2
        <5>1. n # m
          BY <3>3, <3>7 DEF Concerns
        <5> QED
          BY <3>4, <3>5, <5>1
      <4>4. \A n \in Places(x) : Concerns(x, CallAt(x, n)) =>
                n - 0 \in Places(x)' /\ CallAt(x, n - 0)' = CallAt(x, n)
        BY <3>4, <3>5, <4>2
      <4> QED
        BY <1>0, <4>3, <4>4, LineMoves
    <3> QED
      BY <3>6, <3>7
  <2>7. CASE prefix[x] # p
    <3>1. c.thing # x
      BY <2>1, <2>7
    <3>2. CASE prefix[x] = "d"
      BY <2>1, <3>1, <3>2, LineStays
    <3>3. CASE prefix[x] # "d"
      <4>1. waiting'[prefix[x]] = waiting[prefix[x]]
        BY <1>0, <2>3, <2>7, <3>3
      <4>2. Places(x)' = Places(x) /\ Places(x) \subseteq Nat
        BY <1>0, <3>3, <4>1, PlacesAfter, PlacesAre DEF Places
      <4>3. ASSUME NEW n \in Places(x) PROVE CallAt(x, n)' = CallAt(x, n)
        <5>1. CASE n = 0
          BY <1>0, <2>1, <5>1, PlacesAfter
        <5>2. CASE n # 0
          BY <1>0, <4>1, <5>2, PlacesAfter
        <5> QED
          BY <5>1, <5>2
      <4>4. \A n \in Places(x) : n + 0 = n /\ n - 0 = n
        BY <4>2
      <4>5. \A n \in Places(x)' : n + 0 \in Places(x) /\ CallAt(x, n + 0) = CallAt(x, n)'
        BY <4>2, <4>3, <4>4
      <4>6. \A n \in Places(x) : n - 0 \in Places(x)' /\ CallAt(x, n - 0)' = CallAt(x, n)
        BY <4>2, <4>3, <4>4
      <4> QED
        BY <1>0, <3>1, <4>5, <4>6, LineMoves
    <3> QED
      BY <3>2, <3>3
  <2> QED
    BY <2>6, <2>7
<1> QED
  BY <1>1, <1>2

LEMMA LineTaken ==
  ASSUME Still, WaitsWhere(waiting), NEW x \in cast, NEW s, InLine(x, s),
         NEW p \in DOMAIN waiting, Take(p)
  PROVE  InLine(x, s)'
<1>0. TypeOK /\ TypeOK' /\ UNCHANGED cast /\ UNCHANGED prefix
      /\ waiting \in [Prefix \ {"d"} -> Seq(CallSet)] /\ running \in [Thread -> Calling]
      /\ prefix[x] \in Prefix /\ "worker" \in Thread /\ Lane(x) \in Thread
  BY TypeParts, PlacesAre DEF Still, TypeOK, Thread
<1>1. /\ p # "d" /\ waiting[p] \in Seq(CallSet) /\ waiting[p] # <<>> /\ running["worker"] = NoCall
      /\ running' = [running EXCEPT !["worker"] = waiting[p][1]]
      /\ waiting' = [waiting EXCEPT ![p] = Tail(waiting[p])]
  BY <1>0, Taken
<1>2. /\ waiting'[p] = Tail(waiting[p])
      /\ \A q \in DOMAIN waiting : q # p => waiting'[q] = waiting[q]
      /\ running'["worker"] = waiting[p][1] /\ (Lane(x) # "worker" => running'[Lane(x)] = running[Lane(x)])
  BY <1>0, <1>1
<1>3. ~Concerns(x, NoCall)
  BY DEF Concerns
<1>4. PICK l \in Nat : l = Len(waiting[p]) /\ l > 0
  BY <1>1
<1>5. /\ Len(waiting'[p]) = l - 1
      /\ \A n \in 1..(l - 1) : waiting'[p][n] = waiting[p][n + 1]
  BY <1>1, <1>2, <1>4
<1>6. CASE prefix[x] = p
  <2>1. Lane(x) = "worker"
    BY <1>1, <1>6 DEF Lane
  <2>2. Places(x) = 0..l /\ Places(x)' = 0..(l - 1)
    BY <1>0, <1>1, <1>4, <1>5, <1>6, PlacesAfter DEF Places
  <2>3. ASSUME NEW n \in 0..(l - 1), NEW m, m = n + 1 PROVE m \in Places(x) /\ CallAt(x, m) = CallAt(x, n)'
    <3>1. m # 0 /\ m \in Places(x)
      BY <1>4, <2>2, <2>3
    <3>2. CallAt(x, m) = waiting[p][m]
      BY <1>0, <1>6, <3>1, PlacesAfter
    <3>3. CASE n = 0
      <4>1. CallAt(x, n)' = waiting[p][1] /\ m = 1
        BY <1>0, <1>2, <2>1, <2>3, <3>3, PlacesAfter
      <4> QED
        BY <3>1, <3>2, <4>1
    <3>4. CASE n # 0
      <4>1. CallAt(x, n)' = waiting'[p][n] /\ n \in 1..(l - 1)
        BY <1>0, <1>4, <1>6, <2>3, <3>4, PlacesAfter
      <4> QED
        BY <1>5, <2>3, <3>1, <3>2, <4>1
    <3> QED
      BY <3>3, <3>4
  <2>4. ASSUME NEW n \in Places(x), Concerns(x, CallAt(x, n))
        PROVE  n - 1 \in Places(x)' /\ CallAt(x, n - 1)' = CallAt(x, n)
    <3>1. n # 0
      BY <1>0, <1>1, <1>3, <2>1, <2>4, PlacesAfter
    <3>2. PICK m \in 0..(l - 1) : m = n - 1 /\ n = m + 1
      BY <1>4, <2>2, <3>1
    <3>3. CallAt(x, n) = CallAt(x, m)' /\ m \in Places(x)'
      BY <2>2, <2>3, <3>2
    <3> QED
      BY <3>2, <3>3
  <2>5. \A n \in Places(x)' : Concerns(x, CallAt(x, n)') =>
           n + 1 \in Places(x) /\ CallAt(x, n + 1) = CallAt(x, n)'
    BY <2>2, <2>3
  <2>6. 1 \in {0, 1}
    OBVIOUS
  <2> QED
    BY <1>0, <2>4, <2>5, <2>6, LineMoves
<1>7. CASE prefix[x] # p /\ prefix[x] = "d"
  <2>1. Lane(x) = "game"
    BY <1>7 DEF Lane
  <2> QED
    BY <1>2, <1>7, <2>1, LineStays
<1>8. CASE prefix[x] # p /\ prefix[x] # "d"
  <2>1. Lane(x) = "worker" /\ waiting'[prefix[x]] = waiting[prefix[x]]
    BY <1>0, <1>2, <1>8 DEF Lane
  <2>2. Places(x)' = Places(x) /\ Places(x) \subseteq Nat
    BY <1>0, <1>8, <2>1, PlacesAfter, PlacesAre DEF Places
  <2>3. \A n : n # 0 => CallAt(x, n)' = CallAt(x, n)
    BY <1>0, <2>1, PlacesAfter
  <2>4. \A n : n = 0 => ~Concerns(x, CallAt(x, n)) /\ ~Concerns(x, CallAt(x, n)')
    <3>1. \A n : n = 0 => CallAt(x, n) = NoCall /\ CallAt(x, n)' = waiting[p][1]
      BY <1>0, <1>1, <1>2, <2>1, PlacesAfter
    <3>2. 1 \in 1..Len(waiting[p])
      BY <1>1
    <3>3. prefix[waiting[p][1].thing] = p
      BY <3>2 DEF WaitsWhere
    <3>4. ~Concerns(x, waiting[p][1])
      BY <1>8, <3>3 DEF Concerns
    <3> QED
      BY <1>3, <3>1, <3>4
  <2>5. \A n \in Places(x) : n + 0 = n /\ n - 0 = n
    BY <2>2
  <2>6. \A n \in Places(x)' : Concerns(x, CallAt(x, n)') =>
           n + 0 \in Places(x) /\ CallAt(x, n + 0) = CallAt(x, n)'
    <3> SUFFICES ASSUME NEW n \in Places(x)', Concerns(x, CallAt(x, n)')
                 PROVE  n \in Places(x) /\ CallAt(x, n) = CallAt(x, n)'
      BY <2>2, <2>5
    <3> QED
      BY <2>2, <2>3, <2>4
  <2>7. \A n \in Places(x) : Concerns(x, CallAt(x, n)) =>
           n - 0 \in Places(x)' /\ CallAt(x, n - 0)' = CallAt(x, n)
    <3> SUFFICES ASSUME NEW n \in Places(x), Concerns(x, CallAt(x, n))
                 PROVE  n \in Places(x)' /\ CallAt(x, n)' = CallAt(x, n)
      BY <2>5
    <3> QED
      BY <2>2, <2>3, <2>4
  <2> QED
    BY <1>0, <2>6, <2>7, LineMoves
<1> QED
  BY <1>6, <1>7, <1>8

(* The call of thread t ends, or becomes the select of a vehicle's number. *)
Turns(t, c) == running' = [running EXCEPT ![t] = c] /\ UNCHANGED waiting

LEMMA LineGoesOn ==
  ASSUME Still, RunsWhere(running), NEW x \in cast, NEW s, InLine(x, s),
         NEW t \in Thread, running[t] # NoCall, NEW c, Turns(t, c),
         c = NoCall \/ c.thing = running[t].thing
  PROVE  /\ running[t].thing # x => InLine(x, s)'
         /\ running[t].thing = x =>
              /\ s # <<>> /\ s[1] = running[t]
              /\ c = NoCall => InLine(x, Tail(s))'
              /\ c # NoCall /\ Len(s) = 1 => InLine(x, <<c>>)'
<1>0. TypeOK /\ TypeOK' /\ UNCHANGED cast /\ UNCHANGED prefix /\ running \in [Thread -> Calling]
      /\ Lane(x) \in Thread /\ Lane(running[t].thing) = t
  BY TypeParts, PlacesAre DEF Still, RunsWhere
<1>1. /\ \A u \in Thread : running'[u] = (IF u = t THEN c ELSE running[u])
      /\ UNCHANGED waiting
  BY <1>0 DEF Turns
<1>2. ~Concerns(x, NoCall)
  BY DEF Concerns
<1>3. ASSUME running[t].thing # x PROVE InLine(x, s)'
  <2>1. CASE Lane(x) = t
    <3>1. ~Concerns(x, running[t]) /\ ~Concerns(x, c)
      BY <1>2, <1>3 DEF Concerns
    <3> QED
      BY <1>0, <1>1, <2>1, <3>1, LineStays
  <2>2. CASE Lane(x) # t
    BY <1>0, <1>1, <2>2, LineStays
  <2> QED
    BY <2>1, <2>2
<1>4. ASSUME running[t].thing = x
      PROVE  /\ s # <<>> /\ s[1] = running[t]
             /\ c = NoCall => InLine(x, Tail(s))'
             /\ c # NoCall /\ Len(s) = 1 => InLine(x, <<c>>)'
  <2>1. Lane(x) = t /\ CallAt(x, 0) = running[t]
    BY <1>0, <1>4 DEF CallAt
  <2>2. Concerns(x, CallAt(x, 0))
    BY <1>4, <2>1 DEF Concerns
  <2>3. Places(x)' = Places(x)
    BY <1>0, <1>1 DEF Places
  <2>4. \A n \in Places(x) : n # 0 => CallAt(x, n)' = CallAt(x, n)
    BY <1>0, <1>1, PlacesAfter
  <2>5. CallAt(x, 0)' = c
    BY <1>0, <1>1, <2>1 DEF CallAt, Lane
  <2>6. c # NoCall => Concerns(x, c)
    BY <1>4 DEF Concerns
  <2> QED
    BY <1>0, <2>1, <2>2, <2>3, <2>4, <2>5, <2>6, LineEnds
<1> QED
  BY <1>3, <1>4

LEMMA LineHere ==
  ASSUME Still, RunsWhere(running), NEW x \in cast, NEW s, InLine(x, s), NEW t \in Thread,
         NEW c, c = running[t], c # NoCall, c.thing = x, NEW n, Turns(t, n),
         n = NoCall \/ n.thing = x
  PROVE  /\ s # <<>> /\ s[1] = c
         /\ n = NoCall => InLine(x, Tail(s))'
         /\ n # NoCall /\ Len(s) = 1 => InLine(x, <<n>>)'
<1>1. /\ running[t].thing # x => InLine(x, s)'
      /\ running[t].thing = x =>
           /\ s # <<>> /\ s[1] = running[t]
           /\ n = NoCall => InLine(x, Tail(s))'
           /\ n # NoCall /\ Len(s) = 1 => InLine(x, <<n>>)'
  BY LineGoesOn
<1> QED
  BY <1>1

(* A thing has an empty line exactly if no call about it is pending.       *)
LEMMA LineEmpty ==
  ASSUME TypeOK, NEW x \in cast
  PROVE  /\ \A s : InLine(x, s) /\ s # <<>> => Pending(x)
         /\ ~Pending(x) => InLine(x, <<>>)
<1>0. /\ waiting \in [Prefix \ {"d"} -> Seq(CallSet)] /\ running \in [Thread -> Calling]
      /\ prefix[x] \in Prefix /\ Lane(x) \in Thread
  BY TypeParts, PlacesAre DEF TypeOK
<1>1. ASSUME NEW n \in Places(x) PROVE CallAt(x, n) \in UnderWay
  <2>1. CASE n = 0
    BY <1>0, <2>1 DEF CallAt, UnderWay
  <2>2. CASE n # 0
    <3>1. prefix[x] # "d" /\ n \in 1..Len(waiting[prefix[x]]) /\ prefix[x] \in DOMAIN waiting
      BY <1>0, <1>1, <2>2 DEF Places
    <3>2. waiting[prefix[x]] \in Seq(CallSet) /\ n \in DOMAIN waiting[prefix[x]]
      BY <1>0, <3>1
    <3> QED
      BY <2>2, <3>1, <3>2 DEF CallAt, UnderWay, Range
  <2> QED
    BY <2>1, <2>2
<1>2. \A n \in Places(x) : Concerns(x, CallAt(x, n)) => Pending(x)
  BY <1>1 DEF Concerns, Pending
<1>3. ASSUME NEW s, InLine(x, s), s # <<>> PROVE Pending(x)
  <2>1. PICK g \in [1..Len(s) -> Places(x)] :
          \A i \in 1..Len(s) : s[i] = CallAt(x, g[i]) /\ Concerns(x, s[i])
    BY <1>3 DEF InLine
  <2>2. 1 \in 1..Len(s)
    BY <1>3 DEF InLine
  <2>3. g[1] \in Places(x) /\ Concerns(x, CallAt(x, g[1]))
    BY <2>1, <2>2
  <2> QED
    BY <1>2, <2>3
<1>4. ASSUME ~Pending(x) PROVE InLine(x, <<>>)
  <2>1. PICK g : g = [i \in 1..0 |-> 0]
    OBVIOUS
  <2>2. g \in [1..Len(<<>>) -> Places(x)] /\ <<>> \in Seq(CallSet) /\ \A i \in 1..Len(<<>>) : FALSE
    BY <2>1
  <2>3. \A n \in Places(x) : ~Concerns(x, CallAt(x, n))
    BY <1>2, <1>4
  <2> QED
    BY <2>2, <2>3 DEF InLine
<1> QED
  BY <1>3, <1>4


Idle == /\ \A t \in Thread : running[t] = NoCall
        /\ \A p \in DOMAIN waiting : waiting[p] = <<>>

LEMMA IdleLines ==
  TypeOK /\ Idle => \A x \in cast : /\ InLine(x, <<>>)
                                    /\ \A s : InLine(x, s) => s = <<>>
<1> SUFFICES ASSUME TypeOK, Idle, NEW x \in cast
             PROVE  /\ InLine(x, <<>>)
                    /\ \A s : InLine(x, s) => s = <<>>
  OBVIOUS
<1>0. /\ waiting \in [Prefix \ {"d"} -> Seq(CallSet)]
      /\ prefix[x] \in Prefix /\ Lane(x) \in Thread
  BY TypeParts, PlacesAre DEF TypeOK
<1>1. ASSUME NEW n \in Places(x) PROVE ~Concerns(x, CallAt(x, n))
  <2>1. CASE n = 0
    BY <1>0, <2>1 DEF CallAt, Concerns, Idle
  <2>2. CASE n # 0
    <3>1. prefix[x] # "d" /\ n \in 1..Len(waiting[prefix[x]]) /\ waiting[prefix[x]] = <<>>
      BY <1>0, <1>1, <2>2 DEF Places, Idle
    <3>2. Len(<<>>) = 0
      OBVIOUS
    <3> QED
      BY <3>1, <3>2
  <2> QED
    BY <2>1, <2>2
<1>2. InLine(x, <<>>)
  <2>1. PICK g : g = [i \in 1..0 |-> 0]
    OBVIOUS
  <2>2. g \in [1..Len(<<>>) -> Places(x)] /\ <<>> \in Seq(CallSet) /\ \A i \in 1..Len(<<>>) : FALSE
    BY <2>1
  <2> QED
    BY <1>1, <2>2 DEF InLine
<1>3. ASSUME NEW s, InLine(x, s), s # <<>> PROVE FALSE
  <2>1. PICK g \in [1..Len(s) -> Places(x)] :
          \A i \in 1..Len(s) : s[i] = CallAt(x, g[i]) /\ Concerns(x, s[i])
    BY <1>3 DEF InLine
  <2>2. 1 \in 1..Len(s)
    BY <1>3 DEF InLine
  <2>3. g[1] \in Places(x) /\ Concerns(x, CallAt(x, g[1]))
    BY <2>1, <2>2
  <2> QED
    BY <1>1, <2>3
<1> QED
  BY <1>2, <1>3

LEMMA IdleLinesNext ==
  (TypeOK /\ Idle => \A x \in cast : /\ InLine(x, <<>>)
                                     /\ \A s : InLine(x, s) => s = <<>>)'
BY IdleLines, PTL

----------------------------------------------------------------------------
(* What a statement does to the rows this instance has of a thing.         *)
LEMMA MineIs ==
  /\ \A y : Mine(y) = {r \in rows : r.thing = y /\ r.instance = "mine"}
  /\ \A y : Mine(y)' = {r \in rows' : r.thing = y /\ r.instance = "mine"}
BY DEF Mine, RowsOf

LEMMA MineTyped ==
  ASSUME TypeOK, NEW y
  PROVE  \A r \in Mine(y) : /\ r \in RowSet /\ r \in rows /\ r.thing = y /\ r.instance = "mine"
                            /\ r.id \in Nat /\ r.version \in Nat /\ r.uid \in Nat
BY TypeParts DEF Mine, RowsOf, RowSet

LEMMA MineInserted ==
  ASSUME TypeOK, NEW x, NEW uid, Insert(x, uid), NEW y
  PROVE  /\ y # x => Mine(y)' = Mine(y)
         /\ y = x => Mine(y)' = Mine(y) \cup {Row(x, "mine", autoId', uid, 1)}
         /\ autoId' \in Nat /\ autoId' > 0
         /\ x \in Vehicle => lastId' = autoId'
<1>1. rows' = rows \cup {Row(x, "mine", autoId', uid, 1)} /\ autoId' = autoId + 1
      /\ (x \in Vehicle => lastId' = autoId')
  BY DEF Insert
<1>2. PICK q : q = Row(x, "mine", autoId', uid, 1)
  OBVIOUS
<1>3. autoId \in Nat /\ q.thing = x /\ q.instance = "mine"
  BY <1>2, TypeParts DEF Row
<1>4. rows' = rows \cup {q}
  BY <1>1, <1>2
<1>5. PICK M : M = Mine(y) /\ \A r : r \in M <=> r \in rows /\ r.thing = y /\ r.instance = "mine"
  BY MineIs
<1>6. PICK N : N = Mine(y)' /\ \A r : r \in N <=> r \in rows' /\ r.thing = y /\ r.instance = "mine"
  BY MineIs
<1>7. y # x => N = M
  BY <1>3, <1>4, <1>5, <1>6
<1>8. y = x => N = M \cup {q}
  BY <1>3, <1>4, <1>5, <1>6
<1>9. autoId' \in Nat /\ autoId' > 0
  BY <1>1, <1>3
<1> QED
  BY <1>1, <1>2, <1>5, <1>6, <1>7, <1>8, <1>9

Rebuilt(x, uid)  == {[r EXCEPT !.uid = uid] : r \in Mine(x)}
Rebuilds(x, uid) == rows' = (rows \ Mine(x)) \cup Rebuilt(x, uid)

LEMMA MineRebuilt ==
  ASSUME TypeOK, NEW x, NEW uid \in Nat, Rebuilds(x, uid), NEW y
  PROVE  /\ y # x => Mine(y)' = Mine(y)
         /\ y = x => Mine(y)' = Rebuilt(x, uid)
<1>1. PICK M : M = Mine(x) /\ \A r \in M : r \in RowSet /\ r.thing = x /\ r.instance = "mine"
  BY MineTyped
<1>2. PICK N : N = {[r EXCEPT !.uid = uid] : r \in M} /\ N = Rebuilt(x, uid)
  BY <1>1 DEF Rebuilt
<1>3. \A r \in N : r.thing = x /\ r.instance = "mine"
  <2> SUFFICES ASSUME NEW r \in N PROVE r.thing = x /\ r.instance = "mine"
    OBVIOUS
  <2>1. PICK q \in M : r = [q EXCEPT !.uid = uid]
    BY <1>2
  <2>2. q \in RowSet /\ q.thing = x /\ q.instance = "mine"
    BY <1>1
  <2> QED
    BY <2>1, <2>2, Updated
<1>4. rows' = (rows \ M) \cup N
  BY <1>1, <1>2 DEF Rebuilds
<1> QED
  BY <1>1, <1>2, <1>3, <1>4, MineIs

LEMMA MineSaved ==
  ASSUME TypeOK, NEW c \in CallSet, SaveRow(c), NEW y
  PROVE  Mine(y)' = (Mine(y) \ Target(c)) \cup
                    {[r EXCEPT !.version = c.version] : r \in Mine(y) \cap Target(c)}
<1>1. PICK T : T = Target(c) /\ \A r \in T : r \in rows /\ r \in RowSet /\ r.instance = "mine"
  BY TargetIs, TypeParts
<1>2. PICK N : N = {[r EXCEPT !.version = c.version] : r \in T}
  OBVIOUS
<1>3. PICK M : M = Mine(y) /\ \A r : r \in M <=> r \in rows /\ r.thing = y /\ r.instance = "mine"
  BY MineIs
<1>4. ASSUME NEW q \in T
      PROVE  /\ [q EXCEPT !.version = c.version].thing = q.thing
             /\ [q EXCEPT !.version = c.version].instance = "mine"
  BY <1>1, <1>4, CallIs, Updated
<1>5. {r \in N : r.thing = y /\ r.instance = "mine"} = {[r EXCEPT !.version = c.version] : r \in M \cap T}
  <2>1. ASSUME NEW q \in T
        PROVE  q \in M <=> /\ [q EXCEPT !.version = c.version].thing = y
                          /\ [q EXCEPT !.version = c.version].instance = "mine"
    BY <1>1, <1>3, <1>4, <2>1
  <2>2. ASSUME NEW r \in N, r.thing = y, r.instance = "mine"
        PROVE  \E q \in M \cap T : r = [q EXCEPT !.version = c.version]
    <3>1. PICK q \in T : r = [q EXCEPT !.version = c.version]
      BY <1>2, <2>2
    <3> QED
      BY <2>1, <2>2, <3>1
  <2>3. ASSUME NEW q \in M \cap T
        PROVE  /\ [q EXCEPT !.version = c.version] \in N
               /\ [q EXCEPT !.version = c.version].thing = y
               /\ [q EXCEPT !.version = c.version].instance = "mine"
    BY <1>2, <2>1
  <2>4. PICK A : A = {r \in N : r.thing = y /\ r.instance = "mine"}
    OBVIOUS
  <2>5. PICK B : B = {[r EXCEPT !.version = c.version] : r \in M \cap T}
    OBVIOUS
  <2>6. A \subseteq B
    BY <2>2, <2>4, <2>5
  <2>7. B \subseteq A
    BY <2>3, <2>4, <2>5
  <2> QED
    BY <2>4, <2>5, <2>6, <2>7
<1>6. rows' = (rows \ T) \cup N
  BY <1>1, <1>2 DEF SaveRow
<1>7. Mine(y)' = (M \ T) \cup {r \in N : r.thing = y /\ r.instance = "mine"}
  BY <1>3, <1>6, MineIs
<1> QED
  BY <1>1, <1>3, <1>5, <1>7

LEMMA MineRemoved ==
  ASSUME NEW c, RemoveRow(c), NEW y
  PROVE  Mine(y)' = Mine(y) \ Target(c)
BY MineIs DEF RemoveRow

(* The rows a call is for are those of its thing, of its house, or of the  *)
(* vehicle that has the number.                                            *)
LEMMA TargetOf ==
  ASSUME NEW c, NEW y
  PROVE  /\ c.thing \notin Vehicle /\ y # c.thing => Mine(y) \cap Target(c) = {}
         /\ c.thing \in Vehicle /\ y \notin Vehicle => Mine(y) \cap Target(c) = {}
         /\ c.thing \in Vehicle =>
              \A r \in Mine(y) : y \in Vehicle => (r \in Target(c) <=> r.id = c.ident /\ c.ident > 0)
         /\ c.thing \notin Vehicle /\ c.thing \notin Nameless =>
              \A r \in Mine(c.thing) : r \in Target(c) <=> (c.thing \in House => r.uid = c.ident)
BY MineIs DEF Target

----------------------------------------------------------------------------
(* The rows of a thing are real, and one at most if it is a house.         *)
Good(x, M) ==
  /\ IsFiniteSet(M)
  /\ \A r \in M : r.version > 0 /\ r.id > 0
  /\ x \in House => \A r, q \in M : r = q /\ r.version = 1
  /\ x \in Unregistered => M = {}
Sound == \A x \in cast : Good(x, Mine(x))

LEMMA GoodSmaller ==
  ASSUME NEW x, NEW M, NEW N, Good(x, M), N \subseteq M
  PROVE  Good(x, N)
BY FS_Subset DEF Good

LEMMA GoodInserted ==
  ASSUME TypeOK, NEW x \in cast, NEW uid, Insert(x, uid), Good(x, Mine(x)),
         x \notin Unregistered, x \in House => Mine(x) = {}
  PROVE  Good(x, Mine(x)')
<1>0. PICK q : q = Row(x, "mine", autoId', uid, 1)
  OBVIOUS
<1>1. q = Row(x, "mine", autoId', uid, 1) /\ q.version = 1 /\ q.id = autoId'
  BY <1>0 DEF Row
<1>2. Mine(x)' = Mine(x) \cup {q} /\ autoId' \in Nat /\ autoId' > 0
  BY <1>1, MineInserted
<1>3. IsFiniteSet(Mine(x)')
  BY <1>2, FS_AddElement DEF Good
<1> QED
  BY <1>1, <1>2, <1>3 DEF Good

LEMMA FiniteImage ==
  ASSUME NEW M, IsFiniteSet(M), NEW N, NEW f \in [M -> N], \A q \in N : \E r \in M : f[r] = q
  PROVE  IsFiniteSet(N)
<1>1. f \in Surjection(M, N)
  BY DEF Surjection
<1> QED
  BY <1>1, FS_Surjection

LEMMA GoodRebuilt ==
  ASSUME TypeOK, NEW x \in cast, NEW uid \in Nat, Good(x, Mine(x))
  PROVE  Good(x, Rebuilt(x, uid))
<1>0. PICK N : N = {[r EXCEPT !.uid = uid] : r \in Mine(x)} /\ N = Rebuilt(x, uid)
  BY DEF Rebuilt
<1>1. IsFiniteSet(N)
  <2>1. PICK f : f = [r \in Mine(x) |-> [r EXCEPT !.uid = uid]]
    OBVIOUS
  <2>2. f \in [Mine(x) -> N] /\ \A q \in N : \E r \in Mine(x) : f[r] = q
    BY <1>0, <2>1
  <2> QED
    BY <2>2, FiniteImage DEF Good
<1>2. ASSUME NEW r \in RowSet
      PROVE  [r EXCEPT !.uid = uid].version = r.version /\ [r EXCEPT !.uid = uid].id = r.id
  BY <1>2 DEF RowSet
<1>3. ASSUME NEW q \in N PROVE \E r \in Mine(x) : /\ q = [r EXCEPT !.uid = uid] /\ q.version = r.version
                                                  /\ q.id = r.id
  <2>1. PICK r \in Mine(x) : q = [r EXCEPT !.uid = uid]
    BY <1>0, <1>3
  <2>2. r \in RowSet
    BY MineTyped
  <2> QED
    BY <1>2, <2>1, <2>2
<1> QED
  BY <1>0, <1>1, <1>3 DEF Good

LEMMA GoodSaved ==
  ASSUME TypeOK, NEW x \in cast, x \notin House, Good(x, Mine(x)), NEW v \in Nat, v > 0, NEW T, NEW N,
         N = (Mine(x) \ T) \cup {[r EXCEPT !.version = v] : r \in Mine(x) \cap T}
  PROVE  Good(x, N)
<1>1. IsFiniteSet(Mine(x) \ T) /\ IsFiniteSet(Mine(x) \cap T)
  BY FS_Subset DEF Good
<1>2. IsFiniteSet({[r EXCEPT !.version = v] : r \in Mine(x) \cap T})
  <2>1. PICK f : f = [r \in Mine(x) \cap T |-> [r EXCEPT !.version = v]]
    OBVIOUS
  <2>2. PICK Q : Q = {[r EXCEPT !.version = v] : r \in Mine(x) \cap T}
    OBVIOUS
  <2>3. f \in [Mine(x) \cap T -> Q] /\ \A q \in Q : \E r \in Mine(x) \cap T : f[r] = q
    BY <2>1, <2>2
  <2> QED
    BY <1>1, <2>2, <2>3, FiniteImage
<1>3. IsFiniteSet(N)
  BY <1>1, <1>2, FS_Union
<1>4. ASSUME NEW r \in RowSet
      PROVE  [r EXCEPT !.version = v].version = v /\ [r EXCEPT !.version = v].id = r.id
  BY <1>4 DEF RowSet
<1>5. ASSUME NEW q \in N
      PROVE  q.version > 0 /\ q.id > 0
  <2>1. CASE q \in Mine(x)
    BY <2>1 DEF Good
  <2>2. CASE q \notin Mine(x)
    <3>1. PICK r \in Mine(x) : q = [r EXCEPT !.version = v]
      BY <2>2
    <3>2. r \in RowSet /\ r.id > 0
      BY MineTyped DEF Good
    <3> QED
      BY <1>4, <3>1, <3>2
  <2> QED
    BY <2>1, <2>2
<1> QED
  BY <1>3, <1>5 DEF Good

LEMMA SoundNext ==
  ASSUME UNCHANGED cast, \A y \in cast : \E N : N = Mine(y)' /\ Good(y, N)
  PROVE  Sound'
<1>1. ASSUME NEW y \in cast PROVE Good(y, Mine(y))'
  <2>1. PICK N : N = Mine(y)' /\ Good(y, N)
    OBVIOUS
  <2> QED
    BY <2>1 DEF Good
<1> QED
  BY <1>1 DEF Sound

LEMMA StatementIs ==
  ASSUME NEW c, Statement(c), c.op \in {"publish", "save", "remove"}
  PROVE  /\ c.op = "publish" =>
              \/ c.thing \in Unregistered /\ UNCHANGED rows
              \/ /\ c.thing \in House /\ Mine(c.thing) # {}
                 /\ Rebuilds(c.thing, c.ident)
              \/ /\ c.thing \notin Unregistered /\ (c.thing \in House => Mine(c.thing) = {})
                 /\ Insert(c.thing, c.ident)
         /\ c.op = "save" => SaveRow(c)
         /\ c.op = "remove" => RemoveRow(c)
<1>1. ASSUME c.op = "publish", c.thing \in Unregistered PROVE UNCHANGED rows
  <2>1. c.thing \notin House
    BY <1>1, ThingsAssumption
  <2> QED
    BY <1>1, <2>1 DEF Statement, PublishRow, tables
<1>2. ASSUME c.op = "publish", c.thing \notin Unregistered, c.thing \in House, Mine(c.thing) # {}
      PROVE  Rebuilds(c.thing, c.ident)
  BY <1>2 DEF Statement, PublishRow, Rebuilds, Rebuilt
<1>3. ASSUME c.op = "publish", c.thing \notin Unregistered, ~(c.thing \in House /\ Mine(c.thing) # {})
      PROVE  Insert(c.thing, c.ident)
  BY <1>3 DEF Statement, PublishRow
<1>4. (c.op = "save" => SaveRow(c)) /\ (c.op = "remove" => RemoveRow(c))
  BY DEF Statement
<1> QED
  BY <1>1, <1>2, <1>3, <1>4

LEMMA StatementSound ==
  ASSUME TypeOK, UNCHANGED cast, Sound, NEW c \in CallSet, c.op # "select", Formed(c), Statement(c)
  PROVE  Sound'
<1>0. /\ c.op \in {"publish", "save", "remove"} /\ c.thing \in cast /\ c.ident \in Nat /\ c.version \in Nat
      /\ \A y \in cast : Good(y, Mine(y))
  BY CallIs DEF Sound
<1>1. ASSUME NEW y \in cast PROVE \E N : N = Mine(y)' /\ Good(y, N)
  <2>1. CASE c.op = "publish"
    <3>1. CASE UNCHANGED rows
      <4>1. Mine(y)' = Mine(y)
        BY <3>1, MineIs
      <4> QED
        BY <1>0, <4>1
    <3>2. CASE Rebuilds(c.thing, c.ident)
      <4>1. CASE y = c.thing
        <5>1. Mine(y)' = Rebuilt(y, c.ident)
          BY <1>0, <3>2, <4>1, MineRebuilt
        <5>2. Good(y, Rebuilt(y, c.ident))
          BY <1>0, GoodRebuilt
        <5> QED
          BY <5>1, <5>2
      <4>2. CASE y # c.thing
        <5>1. Mine(y)' = Mine(y)
          BY <1>0, <3>2, <4>2, MineRebuilt
        <5> QED
          BY <1>0, <5>1
      <4> QED
        BY <4>1, <4>2
    <3>3. CASE /\ c.thing \notin Unregistered /\ (c.thing \in House => Mine(c.thing) = {})
               /\ Insert(c.thing, c.ident)
      <4>1. CASE y = c.thing
        <5>1. Good(y, Mine(y)')
          BY <1>0, <3>3, <4>1, GoodInserted
        <5> QED
          BY <5>1
      <4>2. CASE y # c.thing
        <5>1. Mine(y)' = Mine(y)
          BY <3>3, <4>2, MineInserted
        <5> QED
          BY <1>0, <5>1
      <4> QED
        BY <4>1, <4>2
    <3> QED
      BY <1>0, <2>1, <3>1, <3>2, <3>3, StatementIs
  <2>2. CASE c.op = "save"
    <3>1. PICK T : T = Target(c)
      OBVIOUS
    <3>2. PICK N : N = (Mine(y) \ T) \cup {[r EXCEPT !.version = c.version] : r \in Mine(y) \cap T}
      OBVIOUS
    <3>3. Mine(y)' = N
      BY <1>0, <2>2, <3>1, <3>2, MineSaved, StatementIs
    <3>4. c.version > 0 /\ c.thing \notin House
      BY <1>0, <2>2 DEF Formed
    <3>5. CASE y \notin House
      BY <1>0, <3>2, <3>3, <3>4, <3>5, GoodSaved
    <3>6. CASE y \in House
      <4>1. y # c.thing /\ y \notin Vehicle
        BY <3>4, <3>6, ThingsAssumption
      <4>2. Mine(y) \cap T = {}
        BY <3>1, <4>1, TargetOf
      <4>3. N = Mine(y)
        BY <3>2, <4>2
      <4> QED
        BY <1>0, <3>3, <4>3
    <3> QED
      BY <3>5, <3>6
  <2>3. CASE c.op = "remove"
    <3>1. PICK N : N = Mine(y) \ Target(c)
      OBVIOUS
    <3>2. Mine(y)' = N
      BY <1>0, <2>3, <3>1, MineRemoved, StatementIs
    <3>3. Good(y, N)
      BY <1>0, <3>1, GoodSmaller
    <3> QED
      BY <3>2, <3>3
  <2> QED
    BY <1>0, <2>1, <2>2, <2>3
<1> QED
  BY <1>1, SoundNext

LEMMA SoundKept == TypeOK /\ Placed /\ Sound /\ [Next]_vars => Sound'
<1> SUFFICES ASSUME TypeOK, Placed, Sound, [Next]_vars PROVE Sound'
  OBVIOUS
<1>0. UNCHANGED cast /\ RunsWhere(running) /\ \A y \in cast : Good(y, Mine(y))
  BY PrefixStays DEF Placed, Sound
<1>1. ASSUME \A y \in cast : Mine(y)' = Mine(y) PROVE Sound'
  <2>1. ASSUME NEW y \in cast PROVE \E N : N = Mine(y)' /\ Good(y, N)
    BY <1>0, <1>1
  <2> QED
    BY <1>0, <2>1, SoundNext
<1>2. ASSUME UNCHANGED rows PROVE Sound'
  <2>1. \A y \in cast : Mine(y)' = Mine(y)
    BY <1>2, MineIs
  <2> QED
    BY <1>1, <2>1
<1>3. ASSUME NEW t \in Thread, running[t] # NoCall, running[t].op # "select", Statement(running[t]) PROVE Sound'
  <2>1. running[t] \in CallSet /\ Formed(running[t])
    BY <1>0, <1>3, RunningIs DEF RunsWhere
  <2> QED
    BY <1>0, <1>3, <2>1, StatementSound
<1>4. ASSUME NEW x \in cast, Publish(x) \/ Save(x) \/ Remove(x) PROVE Sound'
  <2>1. UNCHANGED rows
    BY <1>4, ScriptEffect, SubmitTyped DEF Scripted
  <2> QED
    BY <1>2, <2>1
<1>5. ASSUME NEW t \in Thread, Execute(t) PROVE Sound'
  <2>1. running[t].op # "select" /\ Statement(running[t]) /\ running[t] # NoCall
    BY <1>5, CallIs DEF Execute
  <2> QED
    BY <1>3, <2>1
<1>6. ASSUME NEW t \in Thread, Fail(t) PROVE Sound'
  <2>1. running[t] # NoCall /\ (UNCHANGED rows \/ (running[t].op # "select" /\ Statement(running[t])))
    BY <1>6 DEF Fail, tables
  <2> QED
    BY <1>2, <1>3, <2>1
<1>7. CASE Shutdown
  <2>1. rows' \subseteq rows
    BY <1>7 DEF Shutdown
  <2>2. ASSUME NEW y \in cast PROVE \E N : N = Mine(y)' /\ Good(y, N)
    <3>1. PICK N : N = Mine(y)'
      OBVIOUS
    <3>2. N \subseteq Mine(y)
      BY <2>1, <3>1, MineIs
    <3> QED
      BY <1>0, <3>1, <3>2, GoodSmaller
  <2> QED
    BY <1>0, <2>2, SoundNext
<1>8. ASSUME NEW x \in cast \cap Vehicle, Neighbour(x) PROVE Sound'
  <2>1. PICK q : q = Row(x, "other", autoId', 0, 1)
    OBVIOUS
  <2>2. q.instance = "other" /\ rows' = rows \cup {q}
    BY <1>8, <2>1 DEF Row, Neighbour
  <2>3. \A y \in cast : Mine(y)' = Mine(y)
    BY <2>2, MineIs
  <2> QED
    BY <1>1, <2>3
<1> QED
  BY <1>2, <1>4, <1>5, <1>6, <1>7, <1>8, StepStays, NextCases

LEMMA SoundInit == Init => Sound
<1> SUFFICES ASSUME Init, NEW x \in cast PROVE Good(x, Mine(x))
  BY DEF Sound
<1>1. \A r \in rows : r.instance = "other"
  <2>1. rows = {Row(y, "other", 0, 1, 1) : y \in cast \ Vehicle}
    BY DEF Init
  <2>2. \A y : Row(y, "other", 0, 1, 1).instance = "other"
    BY DEF Row
  <2> QED
    BY <2>1, <2>2
<1>2. Mine(x) = {}
  BY <1>1, MineIs
<1> QED
  BY <1>2, FS_EmptySet DEF Good

----------------------------------------------------------------------------
(* The tables hold of x what is said of it: a row, or none.                *)
Holds(x, M, version, ident) ==
  IF version = 0 \/ x \in Unregistered THEN M = {}
  ELSE \E r \in M : /\ M = {r} /\ r.version = version
                    /\ x \in House => r.uid = ident
                    /\ x \in Vehicle => r.id = ident

(* What the first call of a line needs of the tables. *)
Fits(x, M, c, last) ==
  /\ c.op = "publish" => M = {}
  /\ c.op \in {"save", "remove"} => \E v \in Nat \ {0} : Holds(x, M, v, c.ident)
  /\ c.op = "select" => Holds(x, M, 1, last)

LEMMA HoldsInserted ==
  ASSUME TypeOK, NEW x \in cast, NEW uid \in Nat, Insert(x, uid), Mine(x) = {}, x \notin Unregistered
  PROVE  /\ Holds(x, Mine(x)', 1, IF x \in Vehicle THEN lastId' ELSE uid)
<1>1. PICK q : q = Row(x, "mine", autoId', uid, 1)
  OBVIOUS
<1>2. q.version = 1 /\ q.id = autoId' /\ q.uid = uid
  BY <1>1 DEF Row
<1>3. Mine(x)' = {q}
  BY <1>1, MineInserted
<1>4. x \in Vehicle => lastId' = autoId'
  BY MineInserted
<1>5. x \in House => x \notin Vehicle
  BY ThingsAssumption
<1> QED
  BY <1>2, <1>3, <1>4, <1>5 DEF Holds

LEMMA HoldsRebuilt ==
  ASSUME TypeOK, NEW x \in cast, NEW uid \in Nat, x \in House, Mine(x) # {}, Good(x, Mine(x))
  PROVE  Holds(x, Rebuilt(x, uid), 1, uid)
<1>1. PICK r : r \in Mine(x)
  OBVIOUS
<1>2. Mine(x) = {r} /\ r.version = 1
  BY <1>1 DEF Good
<1>3. PICK q : q = [r EXCEPT !.uid = uid]
  OBVIOUS
<1>4. r \in RowSet
  BY <1>1, MineTyped
<1>5. q.version = 1 /\ q.uid = uid
  BY <1>2, <1>3, <1>4 DEF RowSet
<1>6. Rebuilt(x, uid) = {q}
  BY <1>2, <1>3 DEF Rebuilt
<1>7. x \notin Vehicle /\ x \notin Unregistered
  BY ThingsAssumption
<1> QED
  BY <1>5, <1>6, <1>7 DEF Holds

LEMMA HoldsSaved ==
  ASSUME TypeOK, NEW x \in cast, NEW v \in Nat, v # 0, NEW w \in Nat, w # 0, NEW ident,
         Holds(x, Mine(x), v, ident), NEW T,
         x \notin Unregistered => Mine(x) \subseteq T, NEW N,
         N = (Mine(x) \ T) \cup {[r EXCEPT !.version = w] : r \in Mine(x) \cap T}
  PROVE  Holds(x, N, w, ident)
<1>1. CASE x \in Unregistered
  BY <1>1 DEF Holds
<1>2. CASE x \notin Unregistered
  <2>1. PICK r \in Mine(x) : /\ Mine(x) = {r} /\ r.version = v
                             /\ x \in House => r.uid = ident
                             /\ x \in Vehicle => r.id = ident
    BY <1>2 DEF Holds
  <2>2. PICK q : q = [r EXCEPT !.version = w]
    OBVIOUS
  <2>3. r \in RowSet
    BY <2>1, MineTyped
  <2>4. q.version = w /\ q.uid = r.uid /\ q.id = r.id
    BY <2>2, <2>3 DEF RowSet
  <2>5. Mine(x) \cap T = {r} /\ Mine(x) \ T = {}
    BY <1>2, <2>1
  <2>6. N = {q}
    BY <2>2, <2>5
  <2> QED
    BY <1>2, <2>1, <2>4, <2>6 DEF Holds
<1> QED
  BY <1>1, <1>2

(* The rows of x are those a save or a remove of it is for. *)
LEMMA TargetIsMine ==
  ASSUME TypeOK, NEW c \in CallSet, NEW x, x = c.thing, x \in cast \ Nameless, Good(x, Mine(x)),
         \/ x \in Deployable
         \/ \E v \in Nat \ {0} : Holds(x, Mine(x), v, c.ident)
  PROVE  Mine(x) \subseteq Target(c)
<1>1. CASE x \in Deployable
  <2>1. x \notin House /\ x \notin Vehicle
    BY <1>1, ThingsAssumption
  <2> QED
    BY <2>1, TargetOf
<1>2. CASE x \notin Deployable
  <2>0. x \notin Unregistered
    BY <1>2, ThingsAssumption
  <2>1. PICK r \in Mine(x) : /\ Mine(x) = {r}
                             /\ x \in House => r.uid = c.ident
                             /\ x \in Vehicle => r.id = c.ident
    BY <1>2, <2>0 DEF Holds
  <2>2. r.id > 0 /\ r.id \in Nat
    BY <2>1, MineTyped DEF Good
  <2>3. r \in Target(c)
    <3>1. CASE x \in Vehicle
      BY <2>1, <2>2, <3>1, TargetOf
    <3>2. CASE x \notin Vehicle
      BY <2>1, <3>2, TargetOf
    <3> QED
      BY <3>1, <3>2
  <2> QED
    BY <2>1, <2>3
<1> QED
  BY <1>1, <1>2

(* A statement makes true what its call says, if what it needs is there,   *)
(* or if it settles its thing.                                             *)
LEMMA Done ==
  ASSUME TypeOK, NEW c \in CallSet, c.op # "select", Formed(c), Statement(c),
         NEW x, x = c.thing, x \in cast \ Nameless, Good(x, Mine(x)),
         Settles(c) \/ Fits(x, Mine(x), c, lastId)
  PROVE  IF c.op = "publish" /\ x \in Vehicle THEN Holds(x, Mine(x)', 1, lastId')
         ELSE Holds(x, Mine(x)', c.version, c.ident)
<1>0. /\ c.op \in {"publish", "save", "remove"} /\ c.ident \in Nat /\ c.version \in Nat
      /\ (x \in House => x \notin Vehicle /\ x \notin Deployable) /\ (x \in Deployable => x \notin Vehicle)
      /\ (x \in Unregistered => x \in Deployable)
  BY CallIs, ThingsAssumption
<1>1. CASE c.op = "publish"
  <2>0. c.version = 1
    BY <1>1 DEF Formed
  <2>1. x \in House \/ Mine(x) = {}
    BY <1>1 DEF Settles, Fits
  <2>2. CASE x \in Unregistered /\ UNCHANGED rows
    <3>1. Mine(x)' = {}
      BY <1>0, <2>1, <2>2, MineIs
    <3> QED
      BY <1>0, <2>2, <3>1 DEF Holds
  <2>3. CASE /\ x \in House /\ Mine(x) # {}
             /\ Rebuilds(x, c.ident)
    <3>2. Mine(x)' = Rebuilt(x, c.ident)
      BY <1>0, <2>3, MineRebuilt
    <3>3. Holds(x, Rebuilt(x, c.ident), 1, c.ident)
      BY <1>0, <2>3, HoldsRebuilt
    <3> QED
      BY <1>0, <2>0, <2>3, <3>2, <3>3
  <2>4. CASE x \notin Unregistered /\ (x \in House => Mine(x) = {}) /\ Insert(x, c.ident)
    <3>1. Mine(x) = {}
      BY <2>1, <2>4
    <3>2. Holds(x, Mine(x)', 1, IF x \in Vehicle THEN lastId' ELSE c.ident)
      BY <1>0, <2>4, <3>1, HoldsInserted
    <3> QED
      BY <1>1, <2>0, <3>2
  <2> QED
    BY <1>0, <1>1, <2>2, <2>3, <2>4, StatementIs
<1>2. CASE c.op = "save"
  <2>1. PICK v \in Nat \ {0} : Holds(x, Mine(x), v, c.ident)
    BY <1>2 DEF Settles, Fits
  <2>2. PICK T : T = Target(c)
    OBVIOUS
  <2>3. Mine(x) \subseteq T
    BY <2>1, <2>2, TargetIsMine
  <2>4. PICK N : N = (Mine(x) \ T) \cup {[r EXCEPT !.version = c.version] : r \in Mine(x) \cap T}
    OBVIOUS
  <2>5. Mine(x)' = N
    BY <1>0, <1>2, <2>2, <2>4, MineSaved, StatementIs
  <2>6. c.version # 0
    BY <1>2 DEF Formed
  <2>7. Holds(x, N, c.version, c.ident)
    BY <1>0, <2>1, <2>3, <2>4, <2>6, HoldsSaved
  <2> QED
    BY <1>2, <2>5, <2>7
<1>3. CASE c.op = "remove"
  <2>1. c.version = 0
    BY <1>3 DEF Formed
  <2>2. x \in Deployable \/ \E v \in Nat \ {0} : Holds(x, Mine(x), v, c.ident)
    BY <1>3 DEF Settles, Fits
  <2>3. Mine(x) \subseteq Target(c)
    BY <2>2, TargetIsMine
  <2>4. Mine(x)' = Mine(x) \ Target(c)
    BY <1>0, <1>3, MineRemoved, StatementIs
  <2>5. Mine(x)' = {}
    BY <2>3, <2>4
  <2> QED
    BY <1>3, <2>1, <2>5 DEF Holds
<1> QED
  BY <1>0, <1>1, <1>2, <1>3

(* A statement leaves the other things alone, if the number it has is that *)
(* of its vehicle.                                                         *)
LEMMA OthersStay ==
  ASSUME TypeOK, NEW c \in CallSet, c.op # "select", Statement(c), NEW y, y # c.thing,
         c.op # "publish" /\ c.thing \in Vehicle => Theirs(c.ident, c.thing)
  PROVE  Mine(y)' = Mine(y)
<1>0. c.op \in {"publish", "save", "remove"} /\ c.ident \in Nat
  BY CallIs
<1>1. CASE c.op = "publish"
  <2>1. CASE UNCHANGED rows
    BY <2>1, MineIs
  <2>2. CASE Rebuilds(c.thing, c.ident)
    BY <1>0, <2>2, MineRebuilt
  <2>3. CASE Insert(c.thing, c.ident)
    BY <2>3, MineInserted
  <2> QED
    BY <1>0, <1>1, <2>1, <2>2, <2>3, StatementIs
<1>2. CASE c.op # "publish"
  <2>1. Mine(y) \cap Target(c) = {}
    <3>1. CASE c.thing \in Vehicle /\ y \in Vehicle
      <4>1. ASSUME NEW r \in Mine(y), r \in Target(c) PROVE FALSE
        <5>1. r.id = c.ident /\ c.ident > 0
          BY <3>1, <4>1, TargetOf
        <5>2. r \in rows /\ r.thing = y
          BY <4>1, MineTyped
        <5> QED
          BY <1>2, <3>1, <5>1, <5>2 DEF Theirs
      <4> QED
        BY <4>1
    <3>2. CASE ~(c.thing \in Vehicle /\ y \in Vehicle)
      BY <3>2, TargetOf
    <3> QED
      BY <3>1, <3>2
  <2>2. CASE c.op = "save"
    <3>1. PICK T : T = Target(c)
      OBVIOUS
    <3>2. Mine(y)' = (Mine(y) \ T) \cup {[r EXCEPT !.version = c.version] : r \in Mine(y) \cap T}
      BY <1>0, <2>2, <3>1, MineSaved, StatementIs
    <3>3. Mine(y) \cap T = {} /\ Mine(y) \ T = Mine(y)
      BY <2>1, <3>1
    <3> QED
      BY <3>2, <3>3
  <2>3. CASE c.op = "remove"
    BY <1>0, <2>1, <2>3, MineRemoved, StatementIs
  <2> QED
    BY <1>0, <1>2, <2>2, <2>3
<1> QED
  BY <1>1, <1>2

----------------------------------------------------------------------------
(* The calls of a line, in their order: a thing is published when the call *)
(* before has removed it, a house is removed under the identity it was     *)
(* built with, a vehicle is saved and removed under the number that the    *)
(* script knows, and the last call says what the script knows.             *)
Leads(c, d) ==
  /\ d.op = "publish" <=> c.version = 0
  /\ d.thing \in House /\ d.op = "remove" => d.ident = c.ident

Script(x, s, k) ==
  /\ \A i \in 1..Len(s) : \A j \in 1..Len(s) : j = i + 1 => Leads(s[i], s[j])
  /\ x \in Vehicle => \A i \in 1..Len(s) :
       IF s[i].op \in {"publish", "select"} THEN Len(s) = 1 /\ k.version = 0
       ELSE s[i].ident = k.ident
  /\ \A i \in 1..Len(s) : i = Len(s) =>
       /\ x \notin Vehicle \/ s[i].op \in {"save", "remove"} => k.version = s[i].version
       /\ x \in House => k.ident = s[i].ident

Lawful(x, s) == s \in Seq(CallSet) /\ \A i \in 1..Len(s) : s[i].thing = x /\ Formed(s[i])

(* The tables hold what the first call needs, or, when no call is left,    *)
(* what the script knows.                                                  *)
Begins(x, s, k, M, last) ==
  IF s = <<>> THEN Holds(x, M, k.version, k.ident) ELSE Fits(x, M, s[1], last)

LEMMA LineLawful ==
  ASSUME TypeOK, Placed, NEW x \in cast, NEW s, InLine(x, s)
  PROVE  Lawful(x, s)
<1>0. /\ waiting \in [Prefix \ {"d"} -> Seq(CallSet)] /\ prefix[x] \in Prefix /\ Lane(x) \in Thread
      /\ WaitsWhere(waiting) /\ RunsWhere(running) /\ s \in Seq(CallSet)
  BY TypeParts, PlacesAre DEF TypeOK, Placed, InLine
<1>1. ASSUME NEW n \in Places(x), Concerns(x, CallAt(x, n)) PROVE Formed(CallAt(x, n))
  <2>1. CASE n = 0
    BY <1>0, <1>1, <2>1 DEF CallAt, Concerns, RunsWhere
  <2>2. CASE n # 0
    <3>1. prefix[x] # "d" /\ n \in 1..Len(waiting[prefix[x]]) /\ prefix[x] \in DOMAIN waiting
      BY <1>0, <1>1, <2>2 DEF Places
    <3> QED
      BY <1>0, <2>2, <3>1 DEF CallAt, WaitsWhere
  <2> QED
    BY <2>1, <2>2
<1>2. PICK g \in [1..Len(s) -> Places(x)] :
        \A i \in 1..Len(s) : s[i] = CallAt(x, g[i]) /\ Concerns(x, s[i])
  BY DEF InLine
<1>3. ASSUME NEW i \in 1..Len(s) PROVE s[i].thing = x /\ Formed(s[i])
  <2>1. g[i] \in Places(x) /\ s[i] = CallAt(x, g[i]) /\ Concerns(x, s[i])
    BY <1>2
  <2> QED
    BY <1>1, <2>1 DEF Concerns
<1> QED
  BY <1>0, <1>3 DEF Lawful

LEMMA ScriptNone == \A x, k : Script(x, <<>>, k)
<1>1. Len(<<>>) = 0 /\ \A i \in 1..0 : FALSE
  OBVIOUS
<1> QED
  BY <1>1 DEF Script

(* The script makes one more call. *)
LEMMA ScriptGrows ==
  ASSUME NEW x, NEW s, Lawful(x, s), NEW k, Script(x, s, k), NEW c \in CallSet, c.thing = x, Formed(c),
         NEW m, x \in House => x \notin Vehicle,
         \/ /\ c.op = "publish" /\ x \in Vehicle /\ k.version = 0 /\ s = <<>> /\ m = k
         \/ /\ c.op = "publish" /\ x \notin Vehicle /\ k.version = 0
            /\ m.version = 1 /\ m.ident = c.ident
         \/ /\ c.op \in {"save", "remove"} /\ k.version > 0 /\ k.version \in Nat /\ c.ident = k.ident
            /\ m.version = c.version /\ m.ident = k.ident
  PROVE  /\ Script(x, Append(s, c), m)
         /\ \A M, last : Begins(x, s, k, M, last) => Begins(x, Append(s, c), m, M, last)
<1>0. PICK l \in Nat : l = Len(s) /\ s \in Seq(CallSet)
  BY DEF Lawful
<1>1. PICK q : q = Append(s, c)
  OBVIOUS
<1>2. /\ q \in Seq(CallSet) /\ Len(q) = l + 1 /\ q[l + 1] = c /\ q # <<>>
      /\ \A i \in 1..l : q[i] = s[i]
      /\ \A i \in 1..Len(q) : i \in 1..l \/ i = l + 1
  BY <1>0, <1>1
<1>3. \A i \in 1..l : s[i].thing = x /\ Formed(s[i])
  BY <1>0 DEF Lawful
<1>4. \A i \in 1..l : x \in Vehicle => s[i].op \notin {"publish", "select"} /\ s[i].ident = k.ident /\ c.op # "publish"
  <2> SUFFICES ASSUME NEW i \in 1..l, x \in Vehicle
               PROVE  s[i].op \notin {"publish", "select"} /\ s[i].ident = k.ident /\ c.op # "publish"
    OBVIOUS
  <2>1. s # <<>>
    BY <1>0
  <2>2. c.op \in {"save", "remove"} /\ k.version > 0 /\ k.version \in Nat
    BY <2>1
  <2> QED
    BY <1>0, <2>2 DEF Script
<1>5. ASSUME NEW i \in 1..l, i = l PROVE Leads(s[i], c)
  <2>1. s[i].op \in {"publish", "save", "remove", "select"}
    BY <1>0, CallIs
  <2>2. s[i].op = "select" => x \in Vehicle
    BY <1>3 DEF Formed
  <2>3. x \notin Vehicle \/ s[i].op \in {"save", "remove"}
    BY <1>4, <2>1
  <2>4. k.version = s[i].version /\ (x \in House => k.ident = s[i].ident)
    BY <1>0, <1>5, <2>3 DEF Script
  <2>5. c.op = "publish" <=> k.version = 0
    OBVIOUS
  <2>6. c.op = "remove" => c.ident = k.ident
    OBVIOUS
  <2> QED
    BY <2>4, <2>5, <2>6 DEF Leads
<1>6. ASSUME NEW i \in 1..Len(q), NEW j \in 1..Len(q), j = i + 1 PROVE Leads(q[i], q[j])
  <2>1. i \in 1..l /\ q[i] = s[i]
    BY <1>2, <1>6
  <2>2. CASE j = l + 1
    <3>1. i = l /\ q[j] = c
      BY <1>2, <1>6, <2>1, <2>2
    <3> QED
      BY <1>5, <2>1, <3>1
  <2>3. CASE j # l + 1
    <3>1. j \in 1..l /\ q[j] = s[j]
      BY <1>2, <2>3
    <3>2. Leads(s[i], s[j])
      BY <1>0, <1>6, <2>1, <3>1 DEF Script
    <3> QED
      BY <2>1, <3>1, <3>2
  <2> QED
    BY <2>2, <2>3
<1>7. ASSUME x \in Vehicle, NEW i \in 1..Len(q)
      PROVE  IF q[i].op \in {"publish", "select"} THEN Len(q) = 1 /\ m.version = 0 ELSE q[i].ident = m.ident
  <2>1. CASE i = l + 1
    <3>1. q[i] = c
      BY <1>2, <2>1
    <3>2. CASE c.op = "publish"
      <4>1. s = <<>> /\ m = k /\ k.version = 0
        BY <1>7, <3>2
      <4>2. l = 0
        BY <1>0, <4>1
      <4> QED
        BY <1>2, <3>1, <3>2, <4>1, <4>2
    <3>3. CASE c.op # "publish"
      BY <3>1, <3>3
    <3> QED
      BY <3>2, <3>3
  <2>2. CASE i \in 1..l
    <3>1. q[i] = s[i] /\ s[i].op \notin {"publish", "select"} /\ s[i].ident = k.ident /\ c.op # "publish"
      BY <1>2, <1>4, <1>7, <2>2
    <3>2. m.ident = k.ident
      BY <3>1
    <3> QED
      BY <3>1, <3>2
  <2> QED
    BY <1>2, <2>1, <2>2
<1>8. ASSUME NEW i \in 1..Len(q), i = Len(q)
      PROVE  /\ x \notin Vehicle \/ q[i].op \in {"save", "remove"} => m.version = q[i].version
             /\ x \in House => m.ident = q[i].ident
  <2>1. q[i] = c
    BY <1>2, <1>8
  <2>2. c.op = "publish" => c.version = 1
    BY DEF Formed
  <2> QED
    BY <2>1, <2>2
<1>9. Script(x, q, m)
  BY <1>6, <1>7, <1>8 DEF Script
<1>10. ASSUME NEW M, NEW last, Begins(x, s, k, M, last) PROVE Begins(x, q, m, M, last)
  <2>1. CASE s = <<>>
    <3>1. q[1] = c
      BY <1>0, <1>2, <2>1
    <3>2. Holds(x, M, k.version, k.ident)
      BY <1>10, <2>1 DEF Begins
    <3>3. c.op = "publish" => M = {}
      BY <3>2 DEF Holds
    <3>4. c.op \in {"save", "remove"} => \E v \in Nat \ {0} : Holds(x, M, v, c.ident)
      BY <3>2
    <3>5. c.op # "select"
      OBVIOUS
    <3> QED
      BY <1>2, <3>1, <3>3, <3>4, <3>5 DEF Begins, Fits
  <2>2. CASE s # <<>>
    <3>1. q[1] = s[1]
      BY <1>0, <1>2, <2>2
    <3> QED
      BY <1>2, <1>10, <2>2, <3>1 DEF Begins
  <2> QED
    BY <2>1, <2>2
<1> QED
  BY <1>1, <1>9, <1>10

LEMMA ScriptShrinks ==
  ASSUME NEW x, NEW s, Lawful(x, s), s # <<>>, NEW k, Script(x, s, k)
  PROVE  Script(x, Tail(s), k)
<1>0. PICK l \in Nat : l = Len(s) /\ s \in Seq(CallSet) /\ l > 0
  BY DEF Lawful
<1>1. PICK q : q = Tail(s)
  OBVIOUS
<1>2. /\ Len(q) = l - 1
      /\ \A i \in 1..Len(q) : \A j : j = i + 1 => j \in 1..Len(s) /\ q[i] = s[j]
  BY <1>0, <1>1
<1>3. ASSUME NEW i \in 1..Len(q), NEW j \in 1..Len(q), j = i + 1 PROVE Leads(q[i], q[j])
  <2>1. PICK h : h = j + 1
    OBVIOUS
  <2>2. h \in 1..Len(s) /\ j \in 1..Len(s) /\ q[i] = s[j] /\ q[j] = s[h]
    BY <1>2, <1>3, <2>1
  <2> QED
    BY <2>1, <2>2 DEF Script
<1>4. ASSUME x \in Vehicle, NEW i \in 1..Len(q)
      PROVE  IF q[i].op \in {"publish", "select"} THEN Len(q) = 1 /\ k.version = 0 ELSE q[i].ident = k.ident
  <2>1. PICK j : j = i + 1
    OBVIOUS
  <2>2. j \in 1..Len(s) /\ q[i] = s[j] /\ Len(s) # 1
    BY <1>0, <1>2, <2>1
  <2> QED
    BY <1>4, <2>2 DEF Script
<1>5. ASSUME NEW i \in 1..Len(q), i = Len(q)
      PROVE  /\ x \notin Vehicle \/ q[i].op \in {"save", "remove"} => k.version = q[i].version
             /\ x \in House => k.ident = q[i].ident
  <2>1. PICK j : j = i + 1
    OBVIOUS
  <2>2. j \in 1..Len(s) /\ q[i] = s[j] /\ j = Len(s)
    BY <1>0, <1>2, <1>5, <2>1
  <2> QED
    BY <2>2 DEF Script
<1>6. Script(x, q, k)
  BY <1>3, <1>4, <1>5 DEF Script
<1> QED
  BY <1>1, <1>6

(* The first call has done what it says, and the next one may.             *)
LEMMA ScriptGoesOn ==
  ASSUME NEW x, NEW s, Lawful(x, s), s # <<>>, NEW k, Script(x, s, k), NEW M, NEW last,
         x \in House => x \notin Vehicle,
         x \notin Vehicle \/ s[1].op \in {"save", "remove"},
         Holds(x, M, s[1].version, s[1].ident)
  PROVE  Begins(x, Tail(s), k, M, last)
<1>0. PICK l \in Nat : l = Len(s) /\ s \in Seq(CallSet) /\ l > 0
  BY DEF Lawful
<1>1. PICK c : c = s[1] /\ 1 \in 1..Len(s)
  BY <1>0
<1>6. c \in CallSet /\ c.version \in Nat /\ c.thing = x /\ Formed(c)
  BY <1>0, <1>1, CallIs DEF Lawful
<1>2. PICK q : q = Tail(s)
  OBVIOUS
<1>3. x \in Vehicle => c.ident = k.ident
  BY <1>1 DEF Script
<1>4. CASE q = <<>>
  <2>1. l = 1
    <3>1. Len(q) = 0
      BY <1>4
    <3>2. Len(q) = l - 1
      BY <1>0, <1>2
    <3>3. l - 1 = 0
      BY <3>1, <3>2
    <3>4. l \in Nat
      BY <1>0
    <3> QED
      BY <3>3, <3>4
  <2>2. k.version = c.version /\ (x \in House => k.ident = c.ident)
    BY <1>0, <1>1, <2>1 DEF Script
  <2>3. Holds(x, M, k.version, k.ident)
    BY <1>1, <1>3, <2>2 DEF Holds
  <2> QED
    BY <1>2, <1>4, <2>3 DEF Begins
<1>5. CASE q # <<>>
  <2>1. 2 \in 1..Len(s) /\ q[1] = s[2] /\ l # 1
    BY <1>0, <1>2, <1>5
  <2>2. PICK d : d = s[2]
    OBVIOUS
  <2>3. Leads(c, d)
    BY <1>1, <2>1, <2>2 DEF Script
  <2>4. d \in CallSet /\ d.thing = x /\ Formed(d)
    BY <1>0, <2>1, <2>2 DEF Lawful
  <2>5. d.op = "publish" => M = {}
    BY <1>1, <2>3 DEF Leads, Holds
  <2>6. d.op # "select"
    <3>1. ASSUME d.op = "select" PROVE FALSE
      <4>1. x \in Vehicle
        BY <2>4, <3>1 DEF Formed
      <4> QED
        BY <1>0, <2>1, <2>2, <3>1, <4>1 DEF Script
    <3> QED
      BY <3>1
  <2>7. ASSUME d.op \in {"save", "remove"} PROVE \E v \in Nat \ {0} : Holds(x, M, v, d.ident)
    <3>1. c.version \in Nat \ {0}
      BY <1>6, <2>3, <2>7 DEF Leads
    <3>2. x \in House => d.ident = c.ident
      BY <2>3, <2>4, <2>7 DEF Leads, Formed
    <3>3. x \in Vehicle => d.ident = c.ident
      BY <1>3, <2>1, <2>2, <2>7 DEF Script
    <3>4. Holds(x, M, c.version, d.ident)
      BY <1>1, <3>2, <3>3 DEF Holds
    <3> QED
      BY <3>1, <3>4
  <2>8. Fits(x, M, d, last)
    BY <2>5, <2>6, <2>7 DEF Fits
  <2> QED
    BY <1>2, <1>5, <2>1, <2>2, <2>8 DEF Begins
<1> QED
  BY <1>2, <1>4, <1>5

----------------------------------------------------------------------------
(* The script of each thing is followed by the calls in its line, and the  *)
(* tables have come as far as the first of them, if nothing failed.        *)
FollowsBy(x, s) ==
  /\ InLine(x, s)
  /\ Script(x, s, known[x])
  /\ ~overlapped /\ x \notin doubt => Begins(x, s, known[x], Mine(x), lastId)
Follow == \A x \in cast \ Nameless : \E s : FollowsBy(x, s)

Whole == Inv /\ Placed /\ Down /\ Sound /\ Follow

LEMMA FollowsNext ==
  ASSUME NEW x, NEW s, InLine(x, s)', NEW k, k = known'[x], Script(x, s, k),
         ~overlapped' /\ x \notin doubt' => Begins(x, s, k, Mine(x)', lastId')
  PROVE  FollowsBy(x, s)'
<1>1. Script(x, s, known[x])'
  BY DEF Script, Leads
<1>2. ASSUME Begins(x, s, k, Mine(x)', lastId') PROVE Begins(x, s, known[x], Mine(x), lastId)'
  BY <1>2 DEF Begins, Fits, Holds
<1> QED
  BY <1>1, <1>2 DEF FollowsBy

(* Nothing has happened to x. *)
LEMMA FollowsStill ==
  ASSUME NEW x, NEW s, FollowsBy(x, s), InLine(x, s)',
         known'[x] = known[x], overlapped => overlapped', x \in doubt => x \in doubt',
         ~overlapped' /\ x \notin doubt' =>
           Mine(x)' = Mine(x) /\ (s # <<>> /\ s[1].op = "select" => lastId' = lastId)
  PROVE  FollowsBy(x, s)'
<1>1. Script(x, s, known[x])
  BY DEF FollowsBy
<1>2. ASSUME ~overlapped', x \notin doubt' PROVE Begins(x, s, known[x], Mine(x)', lastId')
  <2>1. Begins(x, s, known[x], Mine(x), lastId)
    BY <1>2 DEF FollowsBy
  <2>2. Mine(x)' = Mine(x) /\ (s # <<>> /\ s[1].op = "select" => lastId' = lastId)
    BY <1>2
  <2> QED
    BY <2>1, <2>2 DEF Begins, Fits
<1> QED
  BY <1>1, <1>2, FollowsNext

LEMMA SelectRuns ==
  ASSUME Inv, NEW x \in cast, NEW s, InLine(x, s), s # <<>>, s[1].op = "select"
  PROVE  running[Lane(x)] = s[1] /\ s[1].thing = x /\ Lane(x) \in Thread
<1>0. /\ TypeOK /\ Waiting /\ waiting \in [Prefix \ {"d"} -> Seq(CallSet)] /\ prefix[x] \in Prefix
      /\ Lane(x) \in Thread
  BY TypeParts, PlacesAre DEF TypeOK, Inv
<1>1. PICK g \in [1..Len(s) -> Places(x)] :
        \A i \in 1..Len(s) : s[i] = CallAt(x, g[i]) /\ Concerns(x, s[i])
  BY DEF InLine
<1>2. 1 \in 1..Len(s)
  BY DEF InLine
<1>3. PICK n \in Places(x) : s[1] = CallAt(x, n) /\ Concerns(x, s[1])
  BY <1>1, <1>2
<1>4. n = 0
  <2> SUFFICES ASSUME n # 0 PROVE FALSE
    OBVIOUS
  <2>1. prefix[x] # "d" /\ n \in 1..Len(waiting[prefix[x]]) /\ prefix[x] \in DOMAIN waiting
    BY <1>0, <1>3 DEF Places
  <2>2. n \in DOMAIN waiting[prefix[x]]
    BY <1>0, <2>1
  <2> QED
    BY <1>0, <1>3, <2>1, <2>2 DEF CallAt, Waiting
<1> QED
  BY <1>0, <1>3, <1>4 DEF CallAt, Concerns

LEMMA WholeIs ==
  ASSUME Whole, [Next]_vars
  PROVE  /\ Still /\ Inv /\ TypeOK /\ Placed /\ Sound /\ WaitsWhere(waiting) /\ RunsWhere(running)
         /\ \A x \in cast \ Nameless : Good(x, Mine(x)) /\ \E s : FollowsBy(x, s)
<1>1. TypeOK /\ TypeOK'
  BY TypesKept DEF Whole, Inv
<1> QED
  BY <1>1, PrefixStays DEF Still, Whole, Placed, Sound, Follow

LEMMA FollowSubmit ==
  ASSUME Whole, [Next]_vars, NEW y \in cast, Publish(y) \/ Save(y) \/ Remove(y),
         NEW x \in cast \ Nameless
  PROVE  \E s : FollowsBy(x, s)'
<1>0. /\ Still /\ TypeOK /\ Placed
  BY WholeIs
<1>1. PICK s : FollowsBy(x, s)
  BY WholeIs
<1>2. InLine(x, s) /\ Script(x, s, known[x]) /\ Lawful(x, s)
  BY <1>0, <1>1, LineLawful DEF FollowsBy
<1>3. PICK c \in CallSet : /\ c.thing = y /\ Formed(c) /\ Submit(c) /\ Asks(y, c)
                           /\ \A z \in cast : z # y => known'[z] = known[z]
  BY <1>0, Asked
<1>4. UNCHANGED <<rows, lastId, doubt, overlapped>>
  BY <1>0, <1>3, SubmitTyped
<1>5. Mine(x)' = Mine(x)
  BY <1>4, MineIs
<1>6. CASE x # y
  <2>1. InLine(x, s)'
    BY <1>0, <1>2, <1>3, <1>6, LineSubmits
  <2> QED
    BY <1>1, <1>3, <1>4, <1>5, <1>6, <2>1, FollowsStill
<1>7. CASE x = y
  <2>1. InLine(x, Append(s, c))'
    BY <1>0, <1>2, <1>3, <1>7, LineSubmits
  <2>2. PICK k : k = known[x]
    OBVIOUS
  <2>3. PICK m : m = known'[x]
    OBVIOUS
  <2>4. ~Pending(x) => s = <<>>
    BY <1>0, <1>2, LineEmpty
  <2>5. k.version \in Nat
    BY <1>0, <2>2, KnownIs
  <2>6. \/ /\ c.op = "publish" /\ x \in Vehicle /\ k.version = 0 /\ s = <<>> /\ m = k
        \/ /\ c.op = "publish" /\ x \notin Vehicle /\ k.version = 0
           /\ m.version = 1 /\ m.ident = c.ident
        \/ /\ c.op \in {"save", "remove"} /\ k.version > 0 /\ k.version \in Nat /\ c.ident = k.ident
           /\ m.version = c.version /\ m.ident = k.ident
    BY <1>3, <1>7, <2>2, <2>3, <2>4, <2>5 DEF Asks
  <2>7. x \in House => x \notin Vehicle
    BY ThingsAssumption
  <2>8. /\ Script(x, Append(s, c), m)
        /\ \A M, last : Begins(x, s, k, M, last) => Begins(x, Append(s, c), m, M, last)
    BY <1>2, <1>3, <1>7, <2>2, <2>6, <2>7, ScriptGrows
  <2>9. ~overlapped' /\ x \notin doubt' => Begins(x, s, k, Mine(x), lastId)
    BY <1>1, <1>4, <2>2 DEF FollowsBy
  <2>10. ~overlapped' /\ x \notin doubt' => Begins(x, Append(s, c), m, Mine(x)', lastId')
    BY <1>4, <1>5, <2>8, <2>9
  <2> QED
    BY <2>1, <2>3, <2>8, <2>10, FollowsNext
<1> QED
  BY <1>6, <1>7

LEMMA FollowTake ==
  ASSUME Whole, [Next]_vars, NEW p \in DOMAIN waiting, Take(p), NEW x \in cast \ Nameless
  PROVE  \E s : FollowsBy(x, s)'
<1>0. Still /\ WaitsWhere(waiting)
  BY WholeIs
<1>1. PICK s : FollowsBy(x, s)
  BY WholeIs
<1>2. InLine(x, s)'
  BY <1>0, <1>1, LineTaken DEF FollowsBy
<1>3. UNCHANGED <<rows, lastId, known, doubt, overlapped>>
  BY StepStays
<1>4. Mine(x)' = Mine(x)
  BY <1>3, MineIs
<1> QED
  BY <1>1, <1>2, <1>3, <1>4, FollowsStill

(* A vehicle is saved and removed under the number its script knows.       *)
LEMMA NumberIsKnown ==
  ASSUME Still, RunsWhere(running), NEW x \in cast, x \in Vehicle, NEW z, FollowsBy(x, z),
         NEW t \in Thread, NEW c, c = running[t], c # NoCall, c.thing = x,
         c.op \notin {"publish", "select"}, NEW n, Turns(t, n), n = NoCall \/ n.thing = x
  PROVE  c.ident = known[x].ident
<1>1. InLine(x, z) /\ Script(x, z, known[x])
  BY DEF FollowsBy
<1>2. /\ z # <<>> /\ z[1] = c
      /\ n = NoCall => InLine(x, Tail(z))'
      /\ n # NoCall /\ Len(z) = 1 => InLine(x, <<n>>)'
  BY <1>1, LineHere
<1>3. 1 \in 1..Len(z)
  BY <1>1, <1>2 DEF InLine
<1> QED
  BY <1>1, <1>2, <1>3 DEF Script

(* The statement of another thing's call has been executed.                *)
LEMMA FollowOther ==
  ASSUME Whole, [Next]_vars, NEW t \in Thread, running[t] # NoCall,
         NEW x \in cast \ Nameless, x # running[t].thing, UNCHANGED known,
         NEW n, Turns(t, n), n = NoCall \/ n.thing = running[t].thing,
         x \in doubt => x \in doubt',
         \/ UNCHANGED <<rows, lastId, overlapped>>
         \/ /\ running[t].op # "select" /\ Statement(running[t])
            /\ overlapped' = (overlapped \/ Overlap(t))
  PROVE  \E s : FollowsBy(x, s)'
<1>0. Still /\ RunsWhere(running) /\ Inv /\ TypeOK /\ Placed
  BY WholeIs
<1>1. PICK c : c = running[t] /\ c \in CallSet /\ c.thing \in cast
  BY <1>0, RunningIs, CallIs
<1>2. PICK s : FollowsBy(x, s)
  BY WholeIs
<1>3. InLine(x, s)'
  BY <1>0, <1>2, LineGoesOn DEF FollowsBy
<1>4. CASE UNCHANGED <<rows, lastId, overlapped>>
  <2>1. Mine(x)' = Mine(x)
    BY <1>4, MineIs
  <2> QED
    BY <1>2, <1>3, <1>4, <2>1, FollowsStill
<1>5. CASE c.op # "select" /\ Statement(c) /\ overlapped' = (overlapped \/ Overlap(t))
  <2>1. ASSUME ~overlapped' PROVE Mine(x)' = Mine(x)
    <3>1. ~overlapped
      BY <1>5, <2>1
    <3>2. ASSUME c.op # "publish", c.thing \in Vehicle PROVE Theirs(c.ident, c.thing)
      <4>1. c.thing \notin Nameless
        BY <3>2, ThingsAssumption
      <4>2. PICK y \in cast : y = c.thing
        BY <1>1
      <4>3. y \in Vehicle /\ c.thing = y
        BY <3>2, <4>2
      <4>4. PICK z : FollowsBy(y, z)
        BY <4>1, <4>2, WholeIs
      <4>5. c.op \notin {"publish", "select"} /\ (n = NoCall \/ n.thing = y) /\ c # NoCall
        BY <1>1, <1>5, <3>2, <4>2
      <4>6. c.ident = known[y].ident
        BY <1>0, <1>1, <4>3, <4>4, <4>5, NumberIsKnown
      <4>7. c.ident = known[c.thing].ident
        BY <4>3, <4>6
      <4> QED
        BY <1>0, <1>1, <3>1, <3>2, <4>7, IdsAre DEF Inv
    <3> QED
      BY <1>0, <1>1, <1>5, <3>2, OthersStay
  <2>2. ASSUME ~overlapped', s # <<>>, s[1].op = "select" PROVE lastId' = lastId
    <3>1. running[Lane(x)] = s[1] /\ s[1].thing = x /\ Lane(x) \in Thread
      BY <1>0, <1>2, <2>2, SelectRuns DEF FollowsBy
    <3>2. Lane(x) # t
      BY <1>1, <3>1
    <3>3. Other(t) = Lane(x)
      BY <3>1, <3>2, OtherIs
    <3>4. ~Overlap(t)
      BY <1>5, <2>2
    <3> QED
      BY <2>2, <3>1, <3>3, <3>4 DEF Overlap
  <2>3. overlapped => overlapped'
    BY <1>5
  <2> QED
    BY <1>2, <1>3, <2>1, <2>2, <2>3, FollowsStill
<1> QED
  BY <1>1, <1>4, <1>5

LEMMA FollowExecute ==
  ASSUME Whole, [Next]_vars, NEW t \in Thread, Execute(t), NEW x \in cast \ Nameless
  PROVE  \E s : FollowsBy(x, s)'
<1>0. Still /\ RunsWhere(running) /\ Inv /\ TypeOK /\ Placed
  BY WholeIs
<1>1. PICK c : c = running[t] /\ c \in CallSet /\ c.thing \in cast /\ Formed(c) /\ c # NoCall
  <2>1. running[t] # NoCall
    BY CallIs DEF Execute
  <2> QED
    BY <1>0, <2>1, RunningIs, CallIs DEF RunsWhere
<1>2. PICK n : n = IF c.op = "publish" /\ c.thing \in Vehicle THEN [c EXCEPT !.op = "select"] ELSE NoCall
  OBVIOUS
<1>3. /\ c.op \in {"publish", "save", "remove"} /\ Statement(c)
      /\ Turns(t, n)
      /\ doubt' = (IF Settles(c) THEN doubt \ {c.thing} ELSE doubt)
      /\ overlapped' = (overlapped \/ Overlap(t))
  BY <1>1, <1>2 DEF Execute, Turns
<1>4. UNCHANGED <<waiting, known>>
  BY StepStays
<1>5. n = NoCall \/ n.thing = c.thing
  BY <1>1, <1>2 DEF CallSet
<1>6. CASE x # c.thing
  <2>1. x \in doubt => x \in doubt'
    BY <1>3, <1>6
  <2> QED
    BY <1>1, <1>3, <1>4, <1>5, <1>6, <2>1, FollowOther
<1>7. CASE x = c.thing
  <2>1. PICK s : FollowsBy(x, s)
    BY WholeIs
  <2>2. InLine(x, s) /\ Lawful(x, s) /\ Script(x, s, known[x]) /\ Good(x, Mine(x))
    BY <1>0, <2>1, WholeIs, LineLawful DEF FollowsBy
  <2>3. /\ s # <<>> /\ s[1] = c
        /\ n = NoCall => InLine(x, Tail(s))'
        /\ n # NoCall /\ Len(s) = 1 => InLine(x, <<n>>)'
    <3>1. x \in cast /\ c.thing = x
      BY <1>7
    <3>2. n = NoCall \/ n.thing = x
      BY <1>5, <1>7
    <3> QED
      BY <1>0, <1>1, <1>3, <2>2, <3>1, <3>2, LineHere
  <2>4. 1 \in 1..Len(s)
    BY <2>2, <2>3 DEF InLine
  <2>5. PICK k : k = known[x] /\ k = known'[x]
    BY <1>4
  <2>6. ASSUME ~overlapped', x \notin doubt'
        PROVE  IF c.op = "publish" /\ x \in Vehicle THEN Holds(x, Mine(x)', 1, lastId')
               ELSE Holds(x, Mine(x)', c.version, c.ident)
    <3>1. Settles(c) \/ Fits(x, Mine(x), c, lastId)
      <4>1. ASSUME ~Settles(c) PROVE Fits(x, Mine(x), c, lastId)
        <5>1. ~overlapped /\ x \notin doubt
          BY <1>3, <2>6, <4>1
        <5>2. Begins(x, s, known[x], Mine(x), lastId)
          BY <2>1, <5>1 DEF FollowsBy
        <5> QED
          BY <2>3, <5>2 DEF Begins
      <4> QED
        BY <4>1
    <3>2. c.op # "select"
      BY <1>3
    <3> QED
      BY <1>0, <1>1, <1>3, <1>7, <2>2, <3>1, <3>2, Done
  <2>7. CASE c.op = "publish" /\ x \in Vehicle
    <3>1. n = [c EXCEPT !.op = "select"]
      BY <1>2, <1>7, <2>7
    <3>2. n.op = "select" /\ n # NoCall /\ n.ident = c.ident
      BY <1>1, <3>1, CallIs DEF CallSet
    <3>3. Len(s) = 1 /\ k.version = 0
      BY <2>2, <2>3, <2>4, <2>5, <2>7 DEF Script
    <3>4. InLine(x, <<n>>)'
      BY <2>3, <3>2, <3>3
    <3>5. Len(<<n>>) = 1 /\ <<n>>[1] = n /\ <<n>> # <<>> /\ \A i \in 1..1 : i = 1
      OBVIOUS
    <3>6. Script(x, <<n>>, k)
      <4>1. x \notin House
        BY <2>7, ThingsAssumption
      <4> QED
        BY <2>7, <3>2, <3>3, <3>5, <4>1 DEF Script
    <3>7. ~overlapped' /\ x \notin doubt' => Begins(x, <<n>>, k, Mine(x)', lastId')
      BY <2>6, <2>7, <3>2, <3>5 DEF Begins, Fits
    <3> QED
      BY <2>5, <3>4, <3>6, <3>7, FollowsNext
  <2>8. CASE ~(c.op = "publish" /\ x \in Vehicle)
    <3>1. n = NoCall
      BY <1>2, <1>7, <2>8
    <3>2. Script(x, Tail(s), k)
      BY <2>2, <2>3, <2>5, ScriptShrinks
    <3>3. ASSUME ~overlapped', x \notin doubt' PROVE Begins(x, Tail(s), k, Mine(x)', lastId')
      <4>1. Holds(x, Mine(x)', s[1].version, s[1].ident)
        BY <2>3, <2>6, <2>8, <3>3
      <4>2. x \notin Vehicle \/ s[1].op \in {"save", "remove"}
        BY <1>3, <2>3, <2>8
      <4>3. x \in House => x \notin Vehicle
        BY ThingsAssumption
      <4> QED
        BY <2>2, <2>3, <2>5, <4>1, <4>2, <4>3, ScriptGoesOn
    <3> QED
      BY <2>3, <2>5, <3>1, <3>2, <3>3, FollowsNext
  <2> QED
    BY <2>7, <2>8
<1> QED
  BY <1>6, <1>7

LEMMA FollowSelect ==
  ASSUME Whole, [Next]_vars, NEW t \in Thread, SelectId(t), NEW x \in cast \ Nameless
  PROVE  \E s : FollowsBy(x, s)'
<1>0. Still /\ RunsWhere(running) /\ Inv /\ TypeOK /\ Placed
  BY WholeIs
<1>1. PICK c : c = running[t] /\ c \in CallSet /\ c.thing \in cast /\ Formed(c) /\ c # NoCall /\ c.op = "select"
  <2>1. running[t] # NoCall /\ running[t].op = "select"
    BY CallIs DEF SelectId
  <2> QED
    BY <1>0, <2>1, RunningIs, CallIs DEF RunsWhere
<1>2. /\ UNCHANGED <<rows, lastId, waiting, doubt, overlapped>>
      /\ Turns(t, NoCall)
      /\ known' = [known EXCEPT ![c.thing] = Known(lastId, 1)]
  BY <1>0, <1>1, StepStays, SelectTyped DEF SelectId, Turns
<1>3. Mine(x)' = Mine(x)
  BY <1>2, MineIs
<1>4. PICK s : FollowsBy(x, s)
  BY WholeIs
<1>5. InLine(x, s)
  BY <1>4 DEF FollowsBy
<1>6. CASE x # c.thing
  <2>1. InLine(x, s)'
    <3>1. running[t].thing # x /\ running[t] # NoCall /\ waiting' = waiting
      BY <1>1, <1>2, <1>6
    <3> QED
      BY <1>0, <1>2, <1>5, <3>1, LineGoesOn
  <2>2. known'[x] = known[x]
    BY <1>0, <1>2, <1>6, TypeParts
  <2> QED
    BY <1>2, <1>3, <1>4, <2>1, <2>2, FollowsStill
<1>7. CASE x = c.thing
  <2>1. s # <<>> /\ s[1] = c /\ InLine(x, Tail(s))'
    <3>1. c = running[t] /\ c # NoCall /\ c.thing = x
      BY <1>1, <1>7
    <3>2. Turns(t, NoCall) /\ Still /\ RunsWhere(running) /\ x \in cast
      BY <1>0, <1>2
    <3> QED
      BY <1>5, <3>1, <3>2, LineHere
  <2>2. x \in Vehicle
    BY <1>1, <1>7 DEF Formed
  <2>3. 1 \in 1..Len(s) /\ s \in Seq(CallSet)
    BY <1>5, <2>1 DEF InLine
  <2>4. Len(s) = 1
    BY <1>1, <1>4, <2>1, <2>2, <2>3 DEF FollowsBy, Script
  <2>5. Tail(s) = <<>>
    <3>1. Tail(s) \in Seq(CallSet) /\ Len(Tail(s)) = 0
      BY <2>1, <2>3, <2>4
    <3>2. PICK q : q = Tail(s)
      OBVIOUS
    <3>3. q \in Seq(CallSet) /\ Len(q) = 0
      BY <3>1, <3>2
    <3>4. q = <<>>
      BY <3>3
    <3> QED
      BY <3>2, <3>4
  <2>6. lastId \in Nat
    <3>1. autoId \in Nat /\ lastId \in 0..autoId
      BY <1>0, TypeParts
    <3> QED
      BY <3>1
  <2>7. PICK k : k = Known(lastId, 1) /\ k.version = 1 /\ k.ident = lastId
    BY <2>6, KnownTyped
  <2>8. k = known'[x]
    BY <1>0, <1>2, <1>7, <2>7, TypeParts
  <2>9. ASSUME ~overlapped', x \notin doubt' PROVE Begins(x, <<>>, k, Mine(x)', lastId')
    <3>1. Begins(x, s, known[x], Mine(x), lastId)
      BY <1>2, <1>4, <2>9 DEF FollowsBy
    <3>2. Holds(x, Mine(x), 1, lastId)
      BY <1>1, <2>1, <3>1 DEF Begins, Fits
    <3> QED
      BY <1>3, <2>7, <3>2 DEF Begins
  <2>10. Script(x, <<>>, k) /\ InLine(x, <<>>)'
    BY <2>1, <2>5, ScriptNone
  <2> QED
    BY <2>8, <2>9, <2>10, FollowsNext
<1> QED
  BY <1>6, <1>7

LEMMA FollowFail ==
  ASSUME Whole, [Next]_vars, NEW t \in Thread, Fail(t), NEW x \in cast \ Nameless
  PROVE  \E s : FollowsBy(x, s)'
<1>0. Still /\ RunsWhere(running) /\ Inv /\ TypeOK /\ Placed
  BY WholeIs
<1>1. PICK c : c = running[t] /\ c \in CallSet /\ c.thing \in cast /\ c # NoCall
  BY <1>0, RunningIs, CallIs DEF Fail
<1>2. /\ UNCHANGED <<waiting, known>>
      /\ Turns(t, NoCall) /\ doubt' = doubt \cup {c.thing}
      /\ \/ UNCHANGED <<rows, lastId, overlapped>>
         \/ /\ c.op # "select" /\ Statement(c)
            /\ overlapped' = (overlapped \/ Overlap(t))
  BY <1>1, StepStays DEF Fail, Failure, tables, Turns
<1>3. CASE x # c.thing
  <2>1. x \in doubt => x \in doubt'
    BY <1>2
  <2> QED
    BY <1>1, <1>2, <1>3, <2>1, FollowOther
<1>4. CASE x = c.thing
  <2>1. PICK s : FollowsBy(x, s)
    BY WholeIs
  <2>2. InLine(x, s) /\ Lawful(x, s) /\ Script(x, s, known[x])
    BY <1>0, <2>1, LineLawful DEF FollowsBy
  <2>3. s # <<>> /\ InLine(x, Tail(s))'
    <3>1. x \in cast /\ c.thing = x
      BY <1>4
    <3> QED
      BY <1>0, <1>1, <1>2, <2>2, <3>1, LineHere
  <2>4. PICK k : k = known[x] /\ k = known'[x]
    BY <1>2
  <2>5. Script(x, Tail(s), k)
    BY <2>2, <2>3, <2>4, ScriptShrinks
  <2>6. x \in doubt'
    BY <1>2, <1>4
  <2> QED
    BY <2>3, <2>4, <2>5, <2>6, FollowsNext
<1> QED
  BY <1>3, <1>4

(* The calls are as they were. *)
LEMMA FollowQuiet ==
  ASSUME Whole, [Next]_vars, UNCHANGED <<waiting, running>>, NEW x \in cast \ Nameless,
         known'[x] = known[x], UNCHANGED overlapped, x \in doubt => x \in doubt',
         Mine(x)' = Mine(x),
         \/ UNCHANGED lastId
         \/ \A t \in Thread : running[t].op = "select" => running[t].thing \in doubt'
  PROVE  \E s : FollowsBy(x, s)'
<1>0. Still /\ Inv
  BY WholeIs
<1>1. PICK s : FollowsBy(x, s)
  BY WholeIs
<1>2. InLine(x, s)
  BY <1>1 DEF FollowsBy
<1>3. InLine(x, s)'
  BY <1>0, <1>2, LineStays
<1>4. ASSUME x \notin doubt', s # <<>>, s[1].op = "select" PROVE lastId' = lastId
  <2>1. running[Lane(x)] = s[1] /\ s[1].thing = x /\ Lane(x) \in Thread
    BY <1>0, <1>2, <1>4, SelectRuns
  <2> QED
    BY <1>4, <2>1
<1> QED
  BY <1>1, <1>3, <1>4, FollowsStill

LEMMA FollowCrash ==
  ASSUME Whole, [Next]_vars, Crash, NEW x \in cast \ Nameless
  PROVE  \E s : FollowsBy(x, s)'
<1>0. Still /\ TypeOK /\ UNCHANGED cast /\ TypeOK'
  BY WholeIs DEF Still
<1>1. PICK s : FollowsBy(x, s)
  BY WholeIs
<1>2. UNCHANGED <<rows, lastId, known, overlapped>> /\ doubt' = doubt \cup {z \in cast : Pending(z)}
  BY StepStays DEF Crash
<1>3. Idle'
  BY DEF Idle, Crash
<1>4. InLine(x, <<>>)'
  BY <1>0, <1>3, IdleLinesNext
<1>5. PICK k : k = known[x] /\ k = known'[x]
  BY <1>2
<1>6. Mine(x)' = Mine(x)
  BY <1>2, MineIs
<1>7. ASSUME ~overlapped', x \notin doubt' PROVE Begins(x, <<>>, k, Mine(x)', lastId')
  <2>1. ~Pending(x) /\ x \notin doubt /\ ~overlapped
    BY <1>2, <1>7
  <2>2. s = <<>>
    BY <1>0, <1>1, <2>1, LineEmpty DEF FollowsBy
  <2>3. Begins(x, s, known[x], Mine(x), lastId)
    BY <1>1, <2>1 DEF FollowsBy
  <2> QED
    BY <1>5, <1>6, <2>2, <2>3 DEF Begins
<1> QED
  BY <1>4, <1>5, <1>7, ScriptNone, FollowsNext

LEMMA FollowShutdown ==
  ASSUME Whole, [Next]_vars, Shutdown, NEW x \in cast \ Nameless
  PROVE  \E s : FollowsBy(x, s)'
<1>1. UNCHANGED <<lastId, waiting, running, doubt, overlapped>>
  BY StepStays
<1>2. known'[x] = known[x]
  BY WholeIs, ShutdownTyped
<1>3. rows' = {r \in rows : ~(r.thing \in Nameless /\ r.instance = "mine")}
  BY DEF Shutdown
<1>4. Mine(x)' = Mine(x)
  BY <1>3, MineIs
<1> QED
  BY <1>1, <1>2, <1>4, FollowQuiet

LEMMA FollowBoot ==
  ASSUME Whole, [Next]_vars, NEW blind \in SUBSET {Deployable, House, Vehicle}, Boot(blind),
         NEW x \in cast \ Nameless
  PROVE  \E s : FollowsBy(x, s)'
<1>0. Still /\ TypeOK /\ UNCHANGED cast /\ TypeOK' /\ Good(x, Mine(x)) /\ Down
  BY WholeIs DEF Still, Whole
<1>1. /\ ~up /\ UNCHANGED <<rows, waiting, running>>
      /\ doubt' = {z \in cast : z \in UNION blind \/ Cardinality(Mine(z)) > 1}
      /\ \A z \in cast : z \notin UNION blind => known'[z] \in Loaded(z)
  BY StepStays DEF Boot
<1>2. Idle'
  BY <1>0, <1>1 DEF Idle, Down
<1>3. InLine(x, <<>>)'
  BY <1>0, <1>2, IdleLinesNext
<1>4. PICK k : k = known'[x]
  OBVIOUS
<1>5. PICK M : M = Mine(x) /\ M = Mine(x)'
  BY <1>1, MineIs
<1>6. ASSUME x \notin doubt' PROVE Begins(x, <<>>, k, Mine(x)', lastId')
  <2>1. k \in Loaded(x) /\ ~(Cardinality(M) > 1)
    BY <1>1, <1>4, <1>5, <1>6
  <2>2. CASE M = {}
    <3>1. PICK n \in Nat : k = Known(n, 0)
      <4>1. PICK n : n = IF x \in House THEN known[x].ident ELSE 0
        OBVIOUS
      <4>2. n \in Nat
        BY <1>0, <4>1, KnownIs
      <4>3. k = Known(n, 0)
        BY <1>5, <2>1, <2>2, <4>1 DEF Loaded
      <4> QED
        BY <4>2, <4>3
    <3>2. k.version = 0
      BY <3>1, KnownTyped
    <3> QED
      BY <1>5, <2>2, <3>2 DEF Begins, Holds
  <2>3. CASE M # {}
    <3>1. IsFiniteSet(M) /\ \A r \in M : r.version > 0 /\ r.version \in Nat /\ r.uid \in Nat /\ r.id \in Nat
      BY <1>0, <1>5, MineTyped DEF Good
    <3>2. Cardinality(M) = 1
      <4>1. Cardinality(M) \in Nat /\ Cardinality(M) # 0
        BY <2>3, <3>1, FS_CardinalityType, FS_EmptySet
      <4> QED
        BY <2>1, <4>1
    <3>3. PICK e : M = {e}
      BY <3>1, <3>2, FS_Singleton
    <3>4. PICK r \in M : k = Known(IF x \in House THEN r.uid ELSE IF x \in Vehicle THEN r.id ELSE 0, r.version)
      BY <1>5, <2>1, <2>3 DEF Loaded
    <3>5. M = {r}
      BY <3>3, <3>4
    <3>6. PICK n : n = IF x \in House THEN r.uid ELSE IF x \in Vehicle THEN r.id ELSE 0
      OBVIOUS
    <3>7. n \in Nat /\ r.version \in Nat /\ r.version > 0
      BY <3>1, <3>6
    <3>8. k.version = r.version /\ k.ident = n
      BY <3>4, <3>6, <3>7, KnownTyped
    <3>9. x \notin Unregistered
      BY <1>0, <1>5, <2>3 DEF Good
    <3>10. x \in House => x \notin Vehicle
      BY ThingsAssumption
    <3>11. /\ k.version # 0 /\ (x \in House => r.uid = k.ident) /\ (x \in Vehicle => r.id = k.ident)
      BY <3>6, <3>7, <3>8, <3>10
    <3>12. Holds(x, M, k.version, k.ident)
      BY <3>5, <3>8, <3>9, <3>11 DEF Holds
    <3> QED
      BY <1>5, <3>12 DEF Begins
  <2> QED
    BY <2>2, <2>3
<1> QED
  BY <1>3, <1>4, <1>6, ScriptNone, FollowsNext

LEMMA FollowKept == Whole /\ [Next]_vars => Follow'
<1> SUFFICES ASSUME Whole, [Next]_vars, NEW x \in cast' \ Nameless PROVE \E s : FollowsBy(x, s)'
  BY DEF Follow
<1>0. x \in cast \ Nameless /\ Inv
  BY WholeIs DEF Still
<1>1. UNCHANGED <<rows, known, doubt, overlapped, lastId, waiting, running>> => \E s : FollowsBy(x, s)'
  <2> SUFFICES ASSUME UNCHANGED <<rows, known, doubt, overlapped, lastId, waiting, running>>
               PROVE  \E s : FollowsBy(x, s)'
    OBVIOUS
  <2>1. Mine(x)' = Mine(x)
    BY MineIs
  <2> QED
    BY <1>0, <2>1, FollowQuiet
<1>2. CASE Reconnect
  <2>1. UNCHANGED <<rows, known, overlapped, waiting, running>>
    BY <1>2, StepStays
  <2>2. Mine(x)' = Mine(x)
    BY <2>1, MineIs
  <2>3. doubt' = doubt \cup {running[t].thing : t \in {u \in Thread : running[u].op = "select"}}
    BY <1>2 DEF Reconnect, Failure
  <2>4. /\ \A t \in Thread : running[t].op = "select" => running[t].thing \in doubt'
        /\ x \in doubt => x \in doubt'
    BY <2>3
  <2> QED
    BY <1>0, <2>1, <2>2, <2>4, FollowQuiet
<1>3. ASSUME NEW z \in cast \cap Vehicle, Neighbour(z) PROVE \E s : FollowsBy(x, s)'
  <2>1. UNCHANGED <<lastId, known, doubt, overlapped, waiting, running>>
    BY <1>3, StepStays
  <2>2. PICK q : q = Row(z, "other", autoId', 0, 1)
    OBVIOUS
  <2>3. q.instance = "other" /\ rows' = rows \cup {q}
    BY <1>3, <2>2 DEF Row, Neighbour
  <2>4. Mine(x)' = Mine(x)
    BY <2>3, MineIs
  <2> QED
    BY <1>0, <2>1, <2>4, FollowQuiet
<1>4. UNCHANGED vars => \E s : FollowsBy(x, s)'
  BY <1>1, StepStays
<1> QED
  BY <1>0, <1>2, <1>3, <1>4, FollowSubmit, FollowTake, FollowExecute, FollowSelect, FollowFail,
     FollowCrash, FollowShutdown, FollowBoot, NextCases

LEMMA WholeInit == Init => Whole
<1> SUFFICES ASSUME Init PROVE Whole
  OBVIOUS
<1>1. Inv /\ TypeOK /\ Sound
  BY InitInv, SoundInit DEF Inv
<1>2. Idle /\ up
  BY DEF Init, Idle
<1>3. Placed
  <2>1. \A i \in 1..Len(<<>>) : FALSE
    OBVIOUS
  <2> QED
    BY <1>2, <2>1 DEF Placed, WaitsWhere, RunsWhere, Idle
<1>4. Down
  BY <1>2 DEF Down
<1>5. Follow
  <2> SUFFICES ASSUME NEW x \in cast \ Nameless PROVE FollowsBy(x, <<>>)
    BY DEF Follow
  <2>1. InLine(x, <<>>)
    BY <1>1, <1>2, IdleLines
  <2>2. Mine(x) = {}
    <3>1. rows = {Row(y, "other", 0, 1, 1) : y \in cast \ Vehicle}
      BY DEF Init
    <3>2. \A y : Row(y, "other", 0, 1, 1).instance = "other"
      BY DEF Row
    <3> QED
      BY <3>1, <3>2, MineIs
  <2>3. known[x].version = 0
    BY KnownTyped DEF Init
  <2> QED
    BY <2>1, <2>2, <2>3, ScriptNone DEF FollowsBy, Begins, Holds
<1> QED
  BY <1>1, <1>3, <1>4, <1>5 DEF Whole

LEMMA WholeKept == Whole /\ [Next]_vars => Whole'
<1> SUFFICES ASSUME Whole, [Next]_vars PROVE Whole'
  OBVIOUS
<1>1. Inv /\ TypeOK /\ Placed /\ Down /\ Sound
  BY DEF Whole, Inv
<1> QED
  BY <1>1, InvKept, PlacedKept, DownKept, SoundKept, FollowKept DEF Whole

(* What the scripts know of a thing is what the tables hold, whatever the  *)
(* calls, the failures and the restarts were, as soon as every call about  *)
(* it has been executed, nothing failed about it since it was last built   *)
(* or removed, and no insert of the other thread came between a vehicle    *)
(* and its number.                                                         *)
THEOREM TablesFollowScripts == Spec => []TableFollowsScript
<1>1. Whole => TableFollowsScript
  <2> SUFFICES ASSUME Whole, ~overlapped, NEW x \in cast \ (doubt \cup Nameless), ~Pending(x)
               PROVE  Kept(x)
    BY DEF TableFollowsScript
  <2>1. TypeOK
    BY DEF Whole, Inv
  <2>2. PICK s : FollowsBy(x, s)
    BY DEF Whole, Follow
  <2>3. s = <<>>
    BY <2>1, <2>2, LineEmpty DEF FollowsBy
  <2>4. Holds(x, Mine(x), known[x].version, known[x].ident)
    BY <2>2, <2>3 DEF FollowsBy, Begins
  <2>5. CASE known[x].version = 0 \/ x \in Unregistered
    BY <2>4, <2>5 DEF Holds, Kept
  <2>6. CASE ~(known[x].version = 0 \/ x \in Unregistered)
    <3>1. PICK r \in Mine(x) : /\ Mine(x) = {r} /\ r.version = known[x].version
                               /\ x \in House => r.uid = known[x].ident
                               /\ x \in Vehicle => r.id = known[x].ident
      BY <2>4, <2>6 DEF Holds
    <3>2. Cardinality(Mine(x)) = 1
      BY <3>1, FS_Singleton
    <3>3. \A q \in Mine(x) : q = r
      BY <3>1
    <3> QED
      BY <2>6, <3>1, <3>2, <3>3 DEF Kept
  <2> QED
    BY <2>5, <2>6
<1> QED
  BY <1>1, WholeInit, WholeKept, PTL DEF Spec
=============================================================================
