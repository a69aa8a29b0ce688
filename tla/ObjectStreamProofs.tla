-------------------------- MODULE ObjectStreamProofs --------------------------
(***************************************************************************)
(* Proofs about ObjectStream.  StreamsKeepApart is inductive as soon as    *)
(* the variables have their types: a step of script s that leaves mixed    *)
(* false finds every other script at rest, so that the queue, when it is   *)
(* not empty, is what s has still to read.                                 *)
(***************************************************************************)
EXTENDS ObjectStream, TLAPS

Row == [kind : Kind, n : Nat]

(* What a table's first rows are: a sequence of that many rows of its kind. *)
Stored(kind) == [kind : {kind}, n : 1..rows[kind]]

LEMMA TableRows ==
  ASSUME NEW kind \in Kind, NEW size \in 0..rows[kind]
  PROVE  /\ Rows(kind, size) \in Seq(Stored(kind))
         /\ Rows(kind, size) \in Seq(Row)
         /\ Len(Rows(kind, size)) = size
<1>1. rows[kind] \in Nat /\ size \in Nat
  BY RowsAssumption
<1>2. \A n \in 1..size : [kind |-> kind, n |-> n] \in Stored(kind)
  BY <1>1 DEF Stored
<1>3. \A n \in 1..size : [kind |-> kind, n |-> n] \in Row
  BY <1>1 DEF Row
<1>4. Rows(kind, size) \in [1..size -> Stored(kind)]
  BY <1>2 DEF Rows
<1>5. Rows(kind, size) \in [1..size -> Row]
  BY <1>3 DEF Rows
<1>6. DOMAIN Rows(kind, size) = 1..size
  BY DEF Rows
<1> QED
  BY <1>1, <1>4, <1>5, <1>6

(* The empty sequence is the one of length 0, and adds nothing. *)
LEMMA Nothing ==
  ASSUME NEW S, NEW q \in Seq(S)
  PROVE  /\ q = <<>> <=> Len(q) = 0
         /\ <<>> \o q = q
OBVIOUS

(* A row that goes from the head of one sequence to the end of another     *)
(* leaves what they are together.                                          *)
LEMMA RowMoves ==
  ASSUME NEW S, NEW q \in Seq(S), NEW g \in Seq(S), q # <<>>
  PROVE  Append(g, Head(q)) \o Tail(q) = g \o q
<1>1. /\ Head(q) \in S
      /\ Tail(q) \in Seq(S)
      /\ Len(Tail(q)) = Len(q) - 1
      /\ Append(g, Head(q)) \in Seq(S)
      /\ Len(Append(g, Head(q))) = Len(g) + 1
      /\ Len(q) \in Nat \ {0}
      /\ Len(g) \in Nat
  OBVIOUS
<1>2. /\ Append(g, Head(q)) \o Tail(q) \in Seq(S)
      /\ g \o q \in Seq(S)
      /\ Len(Append(g, Head(q)) \o Tail(q)) = Len(g) + Len(q)
      /\ Len(g \o q) = Len(g) + Len(q)
  BY <1>1
<1>3. ASSUME NEW n \in 1..(Len(g) + Len(q))
      PROVE  (Append(g, Head(q)) \o Tail(q))[n] = (g \o q)[n]
  <2>1. CASE n <= Len(g)
    BY <2>1, <1>1
  <2>2. CASE n = Len(g) + 1
    BY <2>2, <1>1
  <2>3. CASE n > Len(g) + 1
    <3>1. /\ n - (Len(g) + 1) \in 1..Len(Tail(q))
          /\ n - Len(g) \in 1..Len(q)
      BY <2>3, <1>1
    <3>2. (Append(g, Head(q)) \o Tail(q))[n] = Tail(q)[n - (Len(g) + 1)]
      BY <2>3, <3>1, <1>1
    <3>3. Tail(q)[n - (Len(g) + 1)] = q[n - Len(g)]
      BY <3>1, <1>1
    <3>4. (g \o q)[n] = q[n - Len(g)]
      BY <2>3, <3>1, <1>1
    <3> QED
      BY <3>2, <3>3, <3>4
  <2> QED
    BY <2>1, <2>2, <2>3, <1>1
<1> QED
  BY <1>2, <1>3

----------------------------------------------------------------------------
(* The variables keep their types: rows come from the tables, and a script *)
(* that gives up has a stream to give up.                                  *)

LEMMA Typed ==
  TypeOK <=> /\ objectQueue \in Seq(Stored(header.kind))
             /\ Len(objectQueue) <= rows[header.kind]
             /\ todo \in [Script -> Seq(Kind)]
             /\ left \in [Script -> Nat]
             /\ got \in [Script -> Seq(Row)]
             /\ header \in [kind : Kind, size : Nat]
             /\ since \in Seq(Row)
             /\ whole \in BOOLEAN /\ mixed \in BOOLEAN
             /\ failures \in 0..MaxFailures
BY DEF TypeOK, Row, Stored

LEMMA TypedNext ==
  TypeOK' <=> /\ objectQueue' \in Seq(Stored(header'.kind))
              /\ Len(objectQueue') <= rows[header'.kind]
              /\ todo' \in [Script -> Seq(Kind)]
              /\ left' \in [Script -> Nat]
              /\ got' \in [Script -> Seq(Row)]
              /\ header' \in [kind : Kind, size : Nat]
              /\ since' \in Seq(Row)
              /\ whole' \in BOOLEAN /\ mixed' \in BOOLEAN
              /\ failures' \in 0..MaxFailures
BY DEF TypeOK, Row, Stored

(* The queue is one of rows, whatever their kind. *)
LEMMA QueueOfRows ==
  ASSUME TypeOK
  PROVE  objectQueue \in Seq(Row) /\ header.kind \in Kind /\ header.size \in Nat
<1>1. header.kind \in Kind /\ header.size \in Nat
  BY DEF TypeOK
<1>2. rows[header.kind] \in Nat
  BY <1>1, RowsAssumption
<1>3. Stored(header.kind) \subseteq Row
  BY <1>1, <1>2 DEF Stored, Row
<1> QED
  BY <1>1, <1>3, Typed

LEMMA ScriptsTyped ==
  ASSUME TypeOK, NEW s \in Script, todo[s] # <<>>,
         \/ GivesUp(s)
         \/ \E size \in Nat : TakesHeader(s, size)
         \/ \E row \in Row : TakesRow(s, row)
  PROVE  /\ todo' \in [Script -> Seq(Kind)]
         /\ left' \in [Script -> Nat]
         /\ got' \in [Script -> Seq(Row)]
<1> USE Typed
<1>1. GivesUp(s) => /\ todo' \in [Script -> Seq(Kind)]
                    /\ left' \in [Script -> Nat]
                    /\ got' \in [Script -> Seq(Row)]
  <2>1. Tail(todo[s]) \in Seq(Kind) /\ <<>> \in Seq(Row)
    OBVIOUS
  <2> QED
    BY <2>1 DEF GivesUp
<1>2. ASSUME NEW size \in Nat, TakesHeader(s, size)
      PROVE  /\ todo' \in [Script -> Seq(Kind)]
             /\ left' \in [Script -> Nat]
             /\ got' \in [Script -> Seq(Row)]
  <2>1. <<>> \in Seq(Row)
    OBVIOUS
  <2> QED
    BY <1>1, <1>2, <2>1 DEF TakesHeader
<1>3. ASSUME NEW row \in Row, TakesRow(s, row)
      PROVE  /\ todo' \in [Script -> Seq(Kind)]
             /\ left' \in [Script -> Nat]
             /\ got' \in [Script -> Seq(Row)]
  <2>1. Append(got[s], row) \in Seq(Row)
    OBVIOUS
  <2>2. left[s] > 1 => left[s] - 1 \in Nat
    OBVIOUS
  <2> QED
    BY <1>1, <1>3, <2>1, <2>2 DEF TakesRow
<1> QED
  BY <1>1, <1>2, <1>3

(* An empty queue is filled with the first rows of a table. *)
LEMMA Filled ==
  ASSUME TypeOK, NEW kind \in Kind, objectQueue = <<>>, Populate(kind)
  PROVE  /\ \E size \in 0..rows[kind] : /\ objectQueue' = Rows(kind, size)
                                        /\ whole' => size = rows[kind]
         /\ failures' \in 0..MaxFailures /\ whole' \in BOOLEAN
<1>1. \A size \in 0..rows[kind] : <<>> \o Rows(kind, size) = Rows(kind, size)
  BY TableRows
<1>2. rows[kind] \in 0..rows[kind]
  BY RowsAssumption
<1>3. CASE objectQueue' = objectQueue \o Rows(kind, rows[kind]) /\ whole' = TRUE
           /\ UNCHANGED failures
  BY <1>1, <1>2, <1>3, Typed
<1>4. CASE /\ failures < MaxFailures /\ failures' = failures + 1 /\ whole' = FALSE
           /\ \E size \in 0..rows[kind] : objectQueue' = objectQueue \o Rows(kind, size)
  <2>1. failures' \in 0..MaxFailures
    BY <1>4, FailuresAssumption, Typed
  <2>2. PICK size \in 0..rows[kind] : objectQueue' = objectQueue \o Rows(kind, size)
    BY <1>4
  <2>3. objectQueue' = Rows(kind, size)
    BY <1>1, <2>2
  <2> QED
    BY <1>4, <2>1, <2>3
<1> QED
  BY <1>3, <1>4 DEF Populate

LEMMA TypesKept == TypeOK /\ [Next]_vars => TypeOK'
<1> SUFFICES ASSUME TypeOK, [Next]_vars
             PROVE  TypeOK'
  OBVIOUS
<1>1. ASSUME NEW s \in Script, Begin(s)
      PROVE  TypeOK'
  <2>1. /\ todo[s] # <<>> /\ Head(todo[s]) \in Kind /\ mixed' \in BOOLEAN
        /\ objectQueue = <<>>
    BY <1>1 DEF Begin, Turn, TypeOK
  <2> DEFINE which == Head(todo[s])
  <2>2. /\ \E size \in 0..rows[which] : objectQueue' = Rows(which, size)
        /\ failures' \in 0..MaxFailures /\ whole' \in BOOLEAN
    <3>1. PICK k \in Kind : k = which
      BY <2>1
    <3>2. Populate(k)
      BY <1>1, <3>1 DEF Begin
    <3>3. /\ \E size \in 0..rows[k] : /\ objectQueue' = Rows(k, size)
                                      /\ whole' => size = rows[k]
          /\ failures' \in 0..MaxFailures /\ whole' \in BOOLEAN
      BY <2>1, <3>2, Filled
    <3> QED
      BY <3>1, <3>3
  <2>6. /\ objectQueue' \in Seq(Stored(which)) /\ objectQueue' \in Seq(Row)
        /\ Len(objectQueue') <= rows[which]
    BY <2>1, <2>2, TableRows, RowsAssumption
  <2>3. Len(objectQueue') \in Nat
    BY <2>6
  <2>4. /\ todo' \in [Script -> Seq(Kind)]
        /\ left' \in [Script -> Nat]
        /\ got' \in [Script -> Seq(Row)]
    BY <1>1, <2>1, <2>3, ScriptsTyped DEF Begin
  <2>5. /\ header' \in [kind : Kind, size : Nat] /\ since' \in Seq(Row)
        /\ header'.kind = which
    <3>1. header' = Header(Head(todo[s]), Len(objectQueue')) /\ since' = <<>>
      BY <1>1 DEF Begin
    <3> QED
      BY <2>1, <2>3, <3>1 DEF Header
  <2> HIDE DEF which
  <2> QED
    BY <1>1, <2>1, <2>2, <2>4, <2>5, <2>6, TypedNext
<1>2. ASSUME NEW s \in Script, BeginCustom(s)
      PROVE  TypeOK'
  <2>1. todo[s] # <<>> /\ mixed' \in BOOLEAN
    BY <1>2 DEF BeginCustom, Turn, TypeOK
  <2>2. /\ todo' \in [Script -> Seq(Kind)]
        /\ left' \in [Script -> Nat]
        /\ got' \in [Script -> Seq(Row)]
    BY <1>2, <2>1, ScriptsTyped DEF BeginCustom
  <2> QED
    BY <1>2, <2>1, <2>2, Typed, TypedNext DEF BeginCustom
<1>3. ASSUME NEW s \in Script, NextRow(s)
      PROVE  TypeOK'
  <2>1. todo[s] # <<>> /\ mixed' \in BOOLEAN
    BY <1>3 DEF NextRow, Turn, TypeOK
  <2>2. /\ Head(objectQueue) \in Row
        /\ Tail(objectQueue) \in Seq(Stored(header.kind))
        /\ Len(Tail(objectQueue)) <= rows[header.kind]
    <3>1. objectQueue # <<>> /\ rows[header.kind] \in Nat
      BY <1>3, QueueOfRows, RowsAssumption DEF NextRow
    <3>2. Head(objectQueue) \in Row
      BY <3>1, QueueOfRows
    <3>3. Tail(objectQueue) \in Seq(Stored(header.kind))
          /\ Len(Tail(objectQueue)) = Len(objectQueue) - 1 /\ Len(objectQueue) \in Nat
      BY <3>1, Typed
    <3> QED
      BY <3>1, <3>2, <3>3, Typed
  <2>3. /\ objectQueue' \in Seq(Stored(header.kind)) /\ since' \in Seq(Row)
        /\ Len(objectQueue') <= rows[header.kind] /\ header' = header
    BY <1>3, <2>2, Typed DEF NextRow
  <2>4. /\ todo' \in [Script -> Seq(Kind)]
        /\ left' \in [Script -> Nat]
        /\ got' \in [Script -> Seq(Row)]
    BY <1>3, <2>1, <2>2, ScriptsTyped DEF NextRow
  <2> QED
    BY <1>3, <2>1, <2>3, <2>4, Typed, TypedNext DEF NextRow
<1>4. CASE UNCHANGED vars
  BY <1>4 DEF vars, TypeOK
<1> QED
  BY <1>1, <1>2, <1>3, <1>4 DEF Next, Done

----------------------------------------------------------------------------
(* The streams. *)

(* A call of script s in ~mixed' finds the others at rest. *)
LEMMA OthersRest ==
  ASSUME TypeOK, NEW s \in Script, Turn(s), ~mixed'
  PROVE  ~mixed /\ \A t \in Script \ {s} : left[t] = 0
<1>1. ~mixed /\ ~ \E t \in Script \ {s} : UnderWay(t)
  BY DEF Turn
<1>2. \A t \in Script : left[t] \in Nat
  BY DEF TypeOK
<1> QED
  BY <1>1, <1>2 DEF UnderWay

(* What is left of the rows of script t alone is touched by its own calls. *)
LEMMA OnlyItsOwn ==
  ASSUME TypeOK, NEW s \in Script, NEW t \in Script \ {s},
         \/ GivesUp(s)
         \/ \E size \in Nat : TakesHeader(s, size)
         \/ \E row \in Row : TakesRow(s, row)
  PROVE  left'[t] = left[t]
BY DEF TypeOK, GivesUp, TakesHeader, TakesRow

LEMMA ApartKept == TypeOK /\ StreamsKeepApart /\ [Next]_vars => StreamsKeepApart'
<1> SUFFICES ASSUME TypeOK, StreamsKeepApart, [Next]_vars
             PROVE  StreamsKeepApart'
  OBVIOUS
<1> TypeOK'
  BY TypesKept
<1> DEFINE Counts == header.size = Len(since) + Len(objectQueue)
           Covers == /\ since \o objectQueue = Rows(header.kind, header.size)
                     /\ whole => header.size = rows[header.kind]
           Owns   == ~mixed =>
                       /\ \A s \in Script : left[s] > 0 =>
                            /\ left[s] = Len(objectQueue)
                            /\ header.kind = Head(todo[s]) /\ got[s] = since
                       /\ (\A s \in Script : left[s] = 0) => objectQueue = <<>>
<1>1. ASSUME NEW s \in Script, Begin(s)
      PROVE  StreamsKeepApart'
  <2> DEFINE kind == Head(todo[s])
  <2>1. kind \in Kind /\ todo[s] # <<>> /\ objectQueue = <<>>
    BY <1>1 DEF Begin, Turn, TypeOK
  <2>2. PICK size \in 0..rows[kind] : /\ objectQueue' = Rows(kind, size)
                                      /\ whole' => size = rows[kind]
    <3>1. PICK k \in Kind : k = kind
      BY <2>1
    <3>2. Populate(k)
      BY <1>1, <3>1 DEF Begin
    <3>3. \E size \in 0..rows[k] : /\ objectQueue' = Rows(k, size)
                                   /\ whole' => size = rows[k]
      BY <2>1, <3>2, Filled
    <3> QED
      BY <3>1, <3>3
  <2>3. /\ objectQueue' \in Seq(Row) /\ Len(objectQueue') = size /\ size \in Nat
        /\ Len(objectQueue') \in Nat
    BY <2>1, <2>2, TableRows, RowsAssumption
  <2>4. header'.kind = kind /\ header'.size = Len(objectQueue') /\ since' = <<>>
    BY <1>1 DEF Begin, Header
  <2>5. Counts'
    BY <2>3, <2>4
  <2>6. Covers'
    BY <2>2, <2>3, <2>4, Nothing
  <2>7. Owns'
    <3> SUFFICES ASSUME ~mixed'
                 PROVE  /\ \A t \in Script : left'[t] > 0 =>
                             /\ left'[t] = Len(objectQueue')
                             /\ header'.kind = Head(todo'[t]) /\ got'[t] = since'
                        /\ (\A t \in Script : left'[t] = 0) => objectQueue' = <<>>
      OBVIOUS
    <3>1. ~mixed /\ \A t \in Script \ {s} : left[t] = 0
      BY <1>1, OthersRest DEF Begin
    <3>2. left[s] = 0
      BY <2>1, <3>1 DEF StreamsKeepApart, TypeOK
    <3>3. TakesHeader(s, Len(objectQueue'))
      BY <1>1 DEF Begin
    <3>4. \A t \in Script \ {s} : left'[t] = 0
      BY <2>3, <3>1, <3>3, OnlyItsOwn
    <3>5. CASE Len(objectQueue') > 0
      <4>1. left'[s] = Len(objectQueue') /\ got'[s] = <<>> /\ todo' = todo
        BY <3>2, <3>3, <3>5 DEF TakesHeader, TypeOK
      <4> QED
        <5>1. header'.kind = Head(todo'[s]) /\ got'[s] = since'
          BY <2>4, <4>1
        <5> QED
          <6>1. ASSUME NEW t \in Script, left'[t] > 0 PROVE t = s
            BY <3>4, <6>1
          <6>2. \A t \in Script : left'[t] > 0 =>
                  /\ left'[t] = Len(objectQueue')
                  /\ header'.kind = Head(todo'[t]) /\ got'[t] = since'
            <7> TAKE t \in Script
            <7> HAVE left'[t] > 0
            <7> t = s
              BY <6>1
            <7> QED
              BY <3>5, <4>1, <5>1
          <6>3. ~ \A t \in Script : left'[t] = 0
            BY <3>5, <4>1, <5>1
          <6> QED
            BY <6>2, <6>3
    <3>6. CASE Len(objectQueue') = 0
      <4>1. left'[s] = 0
        BY <3>2, <3>3, <3>6 DEF TakesHeader, GivesUp, TypeOK
      <4> QED
        BY <2>3, <3>4, <3>6, <4>1
    <3> QED
      BY <2>3, <3>5, <3>6
  <2> QED
    BY <2>5, <2>6, <2>7 DEF StreamsKeepApart
<1>2. ASSUME NEW s \in Script, BeginCustom(s)
      PROVE  StreamsKeepApart'
  <2>1. UNCHANGED <<objectQueue, header, since, whole>> /\ objectQueue = <<>>
    BY <1>2 DEF BeginCustom
  <2>2. left'[s] = 0
    BY <1>2 DEF BeginCustom, GivesUp, TypeOK
  <2>3. ASSUME ~mixed' PROVE \A t \in Script : left'[t] = 0
    <3>1. \A t \in Script \ {s} : left[t] = 0
      BY <1>2, <2>3, OthersRest DEF BeginCustom
    <3> QED
      BY <1>2, <2>2, <3>1, OnlyItsOwn DEF BeginCustom
  <2> QED
    BY <2>1, <2>3 DEF StreamsKeepApart
<1>3. ASSUME NEW s \in Script, NextRow(s)
      PROVE  StreamsKeepApart'
  <2> DEFINE row == Head(objectQueue)
  <2>1. /\ objectQueue \in Seq(Row) /\ objectQueue # <<>>
        /\ since \in Seq(Row) /\ got[s] \in Seq(Row)
        /\ header' = header /\ whole' = whole
        /\ objectQueue' = Tail(objectQueue)
        /\ since' = Append(since, row)
        /\ TakesRow(s, row) /\ Turn(s)
    BY <1>3, QueueOfRows, Typed DEF NextRow
  <2>2. /\ row \in Row
        /\ Len(objectQueue) \in Nat \ {0} /\ Len(since) \in Nat
        /\ Len(objectQueue') = Len(objectQueue) - 1
        /\ Len(since') = Len(since) + 1
    BY <2>1
  <2>3. Counts'
    BY <2>1, <2>2 DEF StreamsKeepApart
  <2>4. Covers'
    <3>1. since' \o objectQueue' = since \o objectQueue
      BY <2>1, RowMoves
    <3> QED
      BY <2>1, <3>1 DEF StreamsKeepApart
  <2>5. Owns'
    <3> SUFFICES ASSUME ~mixed'
                 PROVE  /\ \A t \in Script : left'[t] > 0 =>
                             /\ left'[t] = Len(objectQueue')
                             /\ header'.kind = Head(todo'[t]) /\ got'[t] = since'
                        /\ (\A t \in Script : left'[t] = 0) => objectQueue' = <<>>
      OBVIOUS
    <3>1. ~mixed /\ \A t \in Script \ {s} : left[t] = 0
      BY <2>1, OthersRest
    <3>2. left[s] > 0
      BY <2>1, <3>1 DEF StreamsKeepApart, TypeOK
    <3>3. left[s] = Len(objectQueue) /\ header.kind = Head(todo[s]) /\ got[s] = since
      BY <3>1, <3>2 DEF StreamsKeepApart
    <3>4. \A t \in Script \ {s} : left'[t] = 0
      BY <2>1, <2>2, <3>1, OnlyItsOwn
    <3>5. CASE left[s] > 1
      <4>1. left'[s] = left[s] - 1 /\ got'[s] = Append(got[s], row) /\ todo' = todo
        BY <2>1, <3>5 DEF TakesRow, TypeOK
      <4>2. header'.kind = Head(todo'[s]) /\ got'[s] = since'
        BY <2>1, <3>3, <4>1
      <4> QED
        <5>1. left'[s] = Len(objectQueue') /\ left'[s] > 0
          BY <2>2, <3>3, <3>5, <4>1
        <5>2. header'.kind = Head(todo'[s]) /\ got'[s] = since'
          BY <4>2
        <5> QED
          <6>1. ASSUME NEW t \in Script, left'[t] > 0 PROVE t = s
            BY <3>4, <6>1
          <6>2. \A t \in Script : left'[t] > 0 =>
                  /\ left'[t] = Len(objectQueue')
                  /\ header'.kind = Head(todo'[t]) /\ got'[t] = since'
            <7> TAKE t \in Script
            <7> HAVE left'[t] > 0
            <7> t = s
              BY <6>1
            <7> QED
              BY <5>1, <5>2
          <6>3. ~ \A t \in Script : left'[t] = 0
            BY <5>1, <5>2
          <6> QED
            BY <6>2, <6>3
    <3>6. CASE left[s] = 1
      <4>1. left'[s] = 0
        BY <2>1, <3>6 DEF TakesRow, GivesUp, TypeOK
      <4>2. objectQueue' = <<>>
        <5>1. Tail(objectQueue) \in Seq(Row) /\ Len(Tail(objectQueue)) = 0
          BY <2>1, <2>2, <3>3, <3>6
        <5> QED
          BY <2>1, <5>1, Nothing
      <4> QED
        BY <3>4, <4>1, <4>2
    <3> QED
      BY <3>2, <3>3, <3>5, <3>6, <2>2
  <2> QED
    BY <2>3, <2>4, <2>5 DEF StreamsKeepApart
<1>4. CASE UNCHANGED vars
  BY <1>4 DEF vars, StreamsKeepApart
<1> QED
  BY <1>1, <1>2, <1>3, <1>4 DEF Next, Done

----------------------------------------------------------------------------
(* At the start the queue is empty and no script waits for a row. *)
LEMMA StartsApart == Init => TypeOK /\ StreamsKeepApart
<1> SUFFICES ASSUME Init PROVE TypeOK /\ StreamsKeepApart
  OBVIOUS
<1>1. <<>> \in Seq(Row) /\ Len(<<>>) = 0 /\ 0 \in 0..MaxFailures
  BY FailuresAssumption
<1>2. header = [kind |-> "Custom", size |-> 0]
  BY DEF Init, Header
<1>3. header \in [kind : Kind, size : Nat] /\ header.size = 0
  BY <1>2 DEF Kind
<1>4. TypeOK
  <2>1. <<>> \in Seq(Stored(header.kind)) /\ Len(<<>>) <= rows[header.kind]
    BY <1>3, RowsAssumption
  <2> QED
    BY <1>1, <1>3, <2>1, StreamsAssumption, Typed DEF Init
<1>5. StreamsKeepApart
  <2>1. Rows(header.kind, 0) = <<>> /\ <<>> \o <<>> = <<>>
    BY DEF Rows
  <2> QED
    BY <1>1, <1>3, <2>1 DEF Init, StreamsKeepApart
<1> QED
  BY <1>4, <1>5

(* For any scripts, streams and tables: the queue holds rows of the table  *)
(* of the last header and no more than that table has, and every other     *)
(* variable keeps its type.                                                *)
THEOREM StreamsTyped == Spec => []TypeOK
<1>1. Init => TypeOK
  BY StartsApart
<1> QED
  BY <1>1, TypesKept, PTL DEF Spec

(* For any number of scripts, of streams and of rows, and whatever         *)
(* statements fail: a header is followed by the first rows of its table,   *)
(* each once and in order, all of them unless filling the queue failed,    *)
(* and scripts that load one after the other get their own streams and     *)
(* leave nothing to the next (handlers 101 to 104 and 900 on the           *)
(* objectQueue they share).                                                *)
THEOREM LoadsKeepApart == Spec => []StreamsKeepApart
<1>1. Init => TypeOK /\ StreamsKeepApart
  BY StartsApart
<1>2. TypeOK /\ StreamsKeepApart /\ [Next]_vars => (TypeOK /\ StreamsKeepApart)'
  BY TypesKept, ApartKept
<1> QED
  BY <1>1, <1>2, PTL DEF Spec
=============================================================================
