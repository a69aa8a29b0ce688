----------------------------- MODULE RosterProofs -----------------------------
(***************************************************************************)
(* Proofs about Roster.                                                    *)
(*                                                                         *)
(* A kick hits no guest who came before the one it is meant for, because   *)
(* the numbers of guests only rise on their way: who has an index never    *)
(* came before the guest of a line about the index, and the commands for   *)
(* an index are made of such lines (Elders).                               *)
(*                                                                         *)
(* The map agrees with the server once the lines are read, because reading *)
(* the lines on their way always leads to a map that agrees with it        *)
(* already (Ledger); and each of these lines finds the map as the count    *)
(* expects it, as long as guests leave by one line after one line and no   *)
(* chat line reads as another.                                             *)
(***************************************************************************)
EXTENDS Roster, FiniteSetTheorems, TLAPS

Orders == [index : Slots, meant : Number]

----------------------------------------------------------------------------
(* The variables keep their types. *)

LEMMA Some ==
  /\ Nobody \in Guests /\ 0 \in Number
  /\ \A i \in Slots, guest \in Guests :
       \A about \in Abouts : Line(about, i, guest) \in Lines
BY BoundsAssumption DEF Nobody, Guest, Guests, Number, Sort, Line, Lines

(* Whatever the reasons, the kicks for a guest are all the same command. *)
LEMMA KicksTyped ==
  ASSUME NEW i \in Slots, NEW guest \in Guests
  PROVE  /\ Kick(i, guest.no) \in Orders
         /\ Kicks(i, guest) \in Seq({Kick(i, guest.no)})
<1> DEFINE k == Kick(i, guest.no)
           one(reason) == IF reason THEN <<k>> ELSE <<>>
<1>1. k \in Orders
  BY DEF Kick, Orders, Guests
<1>2. ASSUME NEW reason PROVE one(reason) \in Seq({k})
  <2>1. <<k>> \in Seq({k}) /\ <<>> \in Seq({k})
    OBVIOUS
  <2> QED
    BY <2>1
<1>3. Kicks(i, guest) = one(guest.sort = "impostor") \o one(locked) \o one(guest.sort = "badName")
  BY DEF Kicks, Kick
<1> HIDE DEF one, k
<1>4. Kicks(i, guest) \in Seq({k})
  BY <1>2, <1>3
<1> QED
  BY <1>1, <1>4 DEF k

LEMMA RosterTyped == TypeOK /\ [Next]_vars => TypeOK'
<1> SUFFICES ASSUME TypeOK, [Next]_vars
             PROVE  TypeOK'
  OBVIOUS
<1> USE DEF server, history, Abouts
<1>1. ASSUME NEW i \in Slots, NEW sort \in Sort, Arrive(i, sort)
      PROVE  TypeOK'
  <2>1. guests' \in Number
    BY <1>1, BoundsAssumption DEF Arrive, TypeOK, Number
  <2>2. Guest(guests', sort) \in Guests
    BY <2>1 DEF Guest, Guests
  <2> QED
    BY <1>1, <2>1, <2>2 DEF Arrive, TypeOK
<1>2. ASSUME NEW i \in Slots, Verify(i)
      PROVE  TypeOK'
  <2>1. slot[i] \in Guests /\ [slot[i] EXCEPT !.verified = TRUE] \in Guests
    BY DEF TypeOK, Guests
  <2>2. slot' = [slot EXCEPT ![i] = [slot[i] EXCEPT !.verified = TRUE]]
    BY <1>2 DEF Verify, TypeOK
  <2>3. slot' \in [Slots -> Guests]
    BY <2>1, <2>2 DEF TypeOK
  <2>4. Line("verified", i, slot[i]) \in Lines
    BY <2>1, Some
  <2> QED
    BY <1>2, <2>3, <2>4 DEF Verify, TypeOK
<1>3. ASSUME NEW i \in Slots, Leave(i)
      PROVE  TypeOK'
  <2>1. Line("disconnected", i, slot[i]) \in Lines
    BY Some DEF TypeOK
  <2> QED
    BY <1>3, <2>1, Some DEF Leave, TypeOK
<1>4. CASE ExecuteKick
  <2> DEFINE i == Head(commands).index
  <2>1. Head(commands) \in Orders /\ commands' \in Seq(Orders)
    <3>1. commands # <<>> /\ commands' = Tail(commands)
      BY <1>4 DEF ExecuteKick
    <3>2. commands \in Seq(Orders)
      BY DEF TypeOK, Orders
    <3> QED
      BY <3>1, <3>2
  <2>2. i \in Slots /\ slot[i] \in Guests /\ Head(commands).meant \in Number
    BY <2>1 DEF TypeOK, Orders
  <2>3. slot' \in [Slots -> Guests]
    BY <1>4, <2>2, Some DEF ExecuteKick, TypeOK
  <2>4. wire' \in Seq(Lines) /\ drift' \in BOOLEAN
    <3>1. Line("kicked", i, slot[i]) \in Lines /\ Line("disconnected", i, slot[i]) \in Lines
      BY <2>2, Some
    <3> HIDE DEF i
    <3>2. /\ Append(wire, Line("kicked", i, slot[i])) \in Seq(Lines)
          /\ wire \o <<Line("kicked", i, slot[i]), Line("disconnected", i, slot[i])>> \in Seq(Lines)
      BY <3>1 DEF TypeOK
    <3> QED
      BY <1>4, <3>2 DEF ExecuteKick, TypeOK, i
  <2>5. kicked' \in [meant : Number, hit : Number]
    <3>1. slot[i].no \in Number
      BY <2>2 DEF Guests
    <3> QED
      BY <1>4, <2>2, <3>1 DEF ExecuteKick, TypeOK
  <2> QED
    BY <1>4, <2>1, <2>3, <2>4, <2>5 DEF ExecuteKick, TypeOK, Orders
<1>5. ASSUME Event
      PROVE  events' \in 0..MaxEvents /\ faults \in 0..events' /\ faults + 1 \in 0..events'
  BY <1>5, BoundsAssumption DEF Event, TypeOK
<1>6. CASE Chat
  <2>1. PICK i \in Slots, about \in {"chat", "kicked", "elsewhere"} :
          /\ Event /\ wire' = Append(wire, Line(about, i, Nobody))
          /\ forged' = (forged \/ about # "chat") /\ drift' = (drift \/ about # "chat")
          /\ UNCHANGED <<slot, guests, players, playerCount, commands, locked, stuck, kicked,
                         faults, missed>>
    BY <1>6 DEF Chat
  <2>2. Line(about, i, Nobody) \in Lines
    BY Some
  <2>3. wire' \in Seq(Lines)
    BY <2>1, <2>2 DEF TypeOK
  <2> QED
    BY <1>5, <2>1, <2>3 DEF TypeOK
<1>7. CASE Lose
  <2>1. wire' \in Seq(Lines)
    BY <1>7 DEF Lose, TypeOK
  <2> QED
    BY <1>5, <1>7, <2>1 DEF Lose, TypeOK
<1>8. CASE Repeat
  <2>1. wire' \in Seq(Lines)
    BY <1>8 DEF Repeat, TypeOK
  <2> QED
    BY <1>5, <1>8, <2>1 DEF Repeat, TypeOK
<1>9. CASE Lock
  BY <1>5, <1>9 DEF Lock, TypeOK
<1>16. CASE LoseKick
  <2>1. commands' \in Seq(Orders) /\ Head(commands) \in Orders
    <3>1. commands \in Seq(Orders) /\ commands # <<>> /\ commands' = Tail(commands)
      BY <1>16 DEF LoseKick, TypeOK, Orders
    <3> QED
      BY <3>1
  <2>2. missed' \subseteq Number
    BY <1>16, <2>1 DEF LoseKick, TypeOK, Orders
  <2> QED
    BY <1>5, <1>16, <2>1, <2>2 DEF LoseKick, TypeOK, Orders
<1>10. ASSUME NEW about, Receive(about)
       PROVE  /\ wire' \in Seq(Lines) /\ Head(wire) \in Lines
              /\ UNCHANGED <<slot, guests, locked, kicked, faults, missed, forged, events, drift>>
  BY <1>10 DEF Receive, TypeOK
<1>11. CASE Verified
  <2> DEFINE i == Head(wire).index
             guest == Head(wire).guest
  <2>1. i \in Slots /\ guest \in Guests /\ guest.no \in Number
    BY <1>10, <1>11 DEF Verified, Lines, Guests
  <2>2. commands \o Kicks(i, guest) \in Seq([index : Slots, meant : Number])
    <3>1. Kicks(i, guest) \in Seq(Orders)
      <4>1. {Kick(i, guest.no)} \subseteq Orders /\ Kicks(i, guest) \in Seq({Kick(i, guest.no)})
        BY <2>1, KicksTyped
      <4> QED
        BY <4>1
    <3> QED
      BY <3>1 DEF TypeOK, Orders
  <2>3. /\ [players EXCEPT ![i] = guest.no] \in [Slots -> Number]
        /\ playerCount + 1 \in Int
    BY <2>1 DEF TypeOK
  <2> QED
    BY <1>10, <1>11, <2>2, <2>3 DEF Verified, TypeOK
<1>12. ASSUME Remove(Head(wire)), Head(wire) \in Lines
       PROVE  players' \in [Slots -> Number] /\ playerCount' \in Int
  BY <1>12, Some DEF Remove, TypeOK, Lines
<1>13. CASE Disconnected \/ Kicked
  BY <1>10, <1>12, <1>13 DEF Disconnected, Kicked, TypeOK
<1>14. CASE KickedElsewhere \/ Misread
  BY <1>10, <1>14 DEF KickedElsewhere, Misread, TypeOK
<1>15. CASE UNCHANGED vars
  BY <1>15 DEF vars, TypeOK
<1> QED
  BY <1>1, <1>2, <1>3, <1>4, <1>6, <1>7, <1>8, <1>9, <1>11, <1>13, <1>14, <1>15,
     <1>16 DEF Next, Reads, Done, Stuck

----------------------------------------------------------------------------
(* The lines on the wire, or the commands on their way, as a set. *)
Items(q) == {q[n] : n \in 1..Len(q)}

LEMMA ItemsOf ==
  ASSUME NEW S, NEW q \in Seq(S)
  PROVE  /\ \A e \in S : Items(Append(q, e)) = Items(q) \cup {e}
         /\ \A r \in Seq(S) : Items(q \o r) = Items(q) \cup Items(r)
         /\ q # <<>> => Head(q) \in Items(q) /\ Items(Tail(q)) \subseteq Items(q)
<1>1. ASSUME NEW e \in S
      PROVE  Items(Append(q, e)) = Items(q) \cup {e}
  <2>1. /\ Len(q) \in Nat
        /\ Len(Append(q, e)) = Len(q) + 1
        /\ Append(q, e)[Len(q) + 1] = e
        /\ \A n \in 1..Len(q) : Append(q, e)[n] = q[n]
    OBVIOUS
  <2> QED
    BY <2>1 DEF Items
<1>2. ASSUME NEW r \in Seq(S)
      PROVE  Items(q \o r) = Items(q) \cup Items(r)
  <2>1. /\ Len(q) \in Nat /\ Len(r) \in Nat
        /\ Len(q \o r) = Len(q) + Len(r)
        /\ \A n \in 1..Len(q) : (q \o r)[n] = q[n]
        /\ \A n \in 1..Len(r) : (q \o r)[Len(q) + n] = r[n]
    OBVIOUS
  <2>2. \A n \in 1..(Len(q) + Len(r)) :
          n \in 1..Len(q) \/ (n - Len(q) \in 1..Len(r) /\ n = Len(q) + (n - Len(q)))
    BY <2>1
  <2> HIDE DEF Items
  <2>3. Items(q \o r) \subseteq Items(q) \cup Items(r)
    BY <2>1, <2>2 DEF Items
  <2>4. Items(q) \subseteq Items(q \o r)
    BY <2>1 DEF Items
  <2>5. Items(r) \subseteq Items(q \o r)
    <3>1. \A n \in 1..Len(r) : Len(q) + n \in 1..(Len(q) + Len(r))
      BY <2>1
    <3> QED
      BY <2>1, <3>1 DEF Items
  <2> QED
    BY <2>3, <2>4, <2>5
<1>3. ASSUME q # <<>>
      PROVE  Head(q) \in Items(q) /\ Items(Tail(q)) \subseteq Items(q)
  <2>1. /\ Len(q) \in Nat \ {0} /\ Head(q) = q[1]
        /\ Len(Tail(q)) = Len(q) - 1
        /\ \A n \in 1..(Len(q) - 1) : Tail(q)[n] = q[n + 1] /\ n + 1 \in 1..Len(q)
    BY <1>3
  <2> QED
    BY <2>1 DEF Items
<1> QED
  BY <1>1, <1>2, <1>3

----------------------------------------------------------------------------
(* Who has an index came no earlier than the guest with this number. *)
NoYounger(index, no) == no <= guests /\ (slot[index] # Nobody => no <= slot[index].no)

Elders == /\ \A i \in Slots : /\ slot[i].no <= guests
                              /\ slot[i] # Nobody => slot[i].no > 0
          /\ \A line \in Items(wire) : NoYounger(line.index, line.guest.no)
          /\ \A order \in Items(commands) : NoYounger(order.index, order.meant)
          /\ KickHitsNoOther

(* A guest comes, stays or leaves. *)
ServerStep ==
  /\ guests' >= guests
  /\ \A i \in Slots : \/ slot'[i] = Nobody
                      \/ slot[i] # Nobody /\ slot'[i].no = slot[i].no
                      \/ slot'[i].no = guests' /\ guests' > guests

(* What the types say of the numbers of guests. *)
Numbered == /\ guests \in Number
            /\ \A i \in Slots : slot[i] \in Guests /\ slot[i].no \in Number
            /\ \A line \in Items(wire) :
                 /\ line \in Lines /\ line.index \in Slots
                 /\ line.guest \in Guests /\ line.guest.no \in Number
            /\ \A order \in Items(commands) : order.index \in Slots /\ order.meant \in Number

LEMMA NumbersAre == \A n \in Number : n \in Int /\ n >= 0
BY BoundsAssumption DEF Number

LEMMA AllNumbered == TypeOK => Numbered
<1> SUFFICES ASSUME TypeOK PROVE Numbered
  OBVIOUS
<1>1. \A i \in Slots : slot[i] \in Guests /\ slot[i].no \in Number
  BY DEF TypeOK, Guests
<1>2. \A n \in 1..Len(wire) : wire[n] \in Lines
  BY DEF TypeOK
<1>3. \A line \in Items(wire) : line \in Lines
  BY <1>2 DEF Items
<1>4. \A line \in Lines : line.index \in Slots /\ line.guest \in Guests
  BY DEF Lines
<1>5. \A guest \in Guests : guest.no \in Number
  BY DEF Guests
<1>6. \A n \in 1..Len(commands) : commands[n] \in Orders
  <2>1. commands \in Seq(Orders)
    BY DEF TypeOK, Orders
  <2> QED
    BY <2>1
<1>7. \A order \in Items(commands) : order.index \in Slots /\ order.meant \in Number
  BY <1>6 DEF Items, Orders
<1> QED
  BY <1>1, <1>3, <1>4, <1>5, <1>7 DEF Numbered, TypeOK

LEMMA AllNumberedNext == TypeOK' => Numbered'
BY AllNumbered, PTL

(* Nobody younger comes to an index by such a step. *)
LEMMA NoYoungerKept ==
  ASSUME TypeOK, TypeOK', ServerStep,
         NEW i \in Slots, NEW no \in Number, NoYounger(i, no)
  PROVE  NoYounger(i, no)'
<1>1. /\ guests \in Int /\ guests' \in Int /\ no \in Int
      /\ slot[i].no \in Int /\ slot'[i].no \in Int
  <2>1. Numbered /\ Numbered'
    BY AllNumbered, AllNumberedNext
  <2> QED
    BY <2>1, NumbersAre DEF Numbered
<1> QED
  BY <1>1 DEF NoYounger, ServerStep

(* It is enough to look at what a step says and orders. *)
LEMMA EldersStep ==
  ASSUME TypeOK, TypeOK', Elders, ServerStep,
         \A line \in Items(wire') : line \in Items(wire) \/ NoYounger(line.index, line.guest.no),
         \A order \in Items(commands') :
           order \in Items(commands) \/ NoYounger(order.index, order.meant),
         KickHitsNoOther'
  PROVE  Elders'
<1>1. /\ \A line \in Items(wire') : line.index \in Slots /\ line.guest.no \in Number
      /\ \A order \in Items(commands') : order.index \in Slots /\ order.meant \in Number
  BY AllNumberedNext DEF Numbered
<1>2. \A line \in Items(wire') : NoYounger(line.index, line.guest.no)'
  BY <1>1, NoYoungerKept DEF Elders
<1>3. \A order \in Items(commands') : NoYounger(order.index, order.meant)'
  BY <1>1, NoYoungerKept DEF Elders
<1>4. ASSUME NEW i \in Slots
      PROVE  slot'[i].no <= guests' /\ (slot'[i] # Nobody => slot'[i].no > 0)
  <2>1. /\ guests \in Int /\ guests' \in Int /\ guests >= 0
        /\ slot[i].no \in Int /\ slot'[i].no \in Int
    <3>1. Numbered /\ Numbered'
      BY AllNumbered, AllNumberedNext
    <3> QED
      BY <3>1, NumbersAre DEF Numbered
  <2>2. Nobody.no = 0
    BY DEF Nobody, Guest
  <2> QED
    BY <2>1, <2>2 DEF ServerStep, Elders
<1> QED
  BY <1>2, <1>3, <1>4 DEF Elders, Items

(* A line about the guest of an index speaks of no one younger. *)
LEMMA LineIsOld ==
  ASSUME TypeOK, Elders, NEW i \in Slots, NEW about
  PROVE  LET line == Line(about, i, slot[i]) IN NoYounger(line.index, line.guest.no)
<1>1. slot[i].no <= guests /\ slot[i].no \in Int
  <2>1. slot[i].no \in Number
    BY AllNumbered DEF Numbered
  <2> QED
    BY <2>1, NumbersAre DEF Elders
<1> QED
  BY <1>1 DEF Line, NoYounger

LEMMA EldersKept == TypeOK /\ Elders /\ [Next]_vars => Elders'
<1> SUFFICES ASSUME TypeOK, Elders, [Next]_vars
             PROVE  Elders'
  OBVIOUS
<1> TypeOK'
  BY RosterTyped
<1>0. /\ wire \in Seq(Lines) /\ commands \in Seq(Orders)
      /\ guests \in Int /\ Numbered
  BY AllNumbered, NumbersAre DEF TypeOK, Orders
<1>s. UNCHANGED server => ServerStep
  BY <1>0 DEF server, ServerStep
<1>w. UNCHANGED wire => Items(wire') = Items(wire)
  OBVIOUS
<1>c. UNCHANGED commands => Items(commands') = Items(commands)
  OBVIOUS
<1>k. UNCHANGED kicked => KickHitsNoOther'
  BY DEF Elders, KickHitsNoOther
<1> USE DEF server, history, Abouts
<1>1. ASSUME NEW i \in Slots, NEW sort \in Sort, Arrive(i, sort)
      PROVE  Elders'
  <2>1. guests' = guests + 1 /\ slot' = [slot EXCEPT ![i] = Guest(guests', sort)]
    BY <1>1 DEF Arrive
  <2>2. ServerStep
    <3>1. slot'[i].no = guests'
      BY <2>1 DEF Guest, TypeOK
    <3> QED
      BY <1>0, <2>1, <3>1 DEF ServerStep, TypeOK
  <2> QED
    BY <1>1, <1>k, <2>2, EldersStep DEF Arrive
<1>2. ASSUME NEW i \in Slots, Verify(i)
      PROVE  Elders'
  <2>1. Items(wire') = Items(wire) \cup {Line("verified", i, slot[i])}
    BY <1>0, <1>2, Some, ItemsOf DEF Verify, Numbered
  <2>2. ServerStep
    <3>1. slot'[i].no = slot[i].no /\ slot[i] # Nobody
      BY <1>0, <1>2 DEF Verify, TypeOK, Numbered, Guests
    <3> QED
      BY <1>0, <1>2, <3>1 DEF ServerStep, Verify, TypeOK
  <2> QED
    BY <1>2, <1>k, <2>1, <2>2, LineIsOld, EldersStep DEF Verify
<1>3. ASSUME NEW i \in Slots, Leave(i)
      PROVE  Elders'
  <2>1. Items(wire') = Items(wire) \cup {Line("disconnected", i, slot[i])}
    BY <1>0, <1>3, Some, ItemsOf DEF Leave, Numbered
  <2>2. ServerStep
    BY <1>0, <1>3 DEF ServerStep, Leave, TypeOK
  <2> QED
    BY <1>3, <1>k, <2>1, <2>2, LineIsOld, EldersStep DEF Leave
<1>4. CASE ExecuteKick
  <2> DEFINE order == Head(commands)
             i == order.index
  <2>1. commands # <<>> /\ commands' = Tail(commands) /\ guests' = guests
    BY <1>4 DEF ExecuteKick
  <2>2. order \in Items(commands) /\ Items(commands') \subseteq Items(commands) /\ i \in Slots
    BY <1>0, <2>1, ItemsOf DEF Numbered
  <2>3. CASE slot[i] = Nobody
    BY <1>4, <1>k, <1>s, <2>1, <2>2, <2>3, EldersStep DEF ExecuteKick
  <2>4. CASE slot[i] # Nobody
    <3> DEFINE first == Line("kicked", i, slot[i])
               second == Line("disconnected", i, slot[i])
    <3>1. /\ slot' = [slot EXCEPT ![i] = Nobody]
          /\ kicked' = [meant |-> order.meant, hit |-> slot[i].no]
          /\ wire' = Append(wire, first) \/ wire' = wire \o <<first, second>>
      BY <1>4, <2>4 DEF ExecuteKick
    <3>2. ServerStep
      BY <1>0, <2>1, <2>2, <3>1 DEF ServerStep, TypeOK
    <3>3. KickHitsNoOther'
      BY <2>2, <2>4, <3>1, <1>0, NumbersAre DEF Elders, NoYounger, KickHitsNoOther, Numbered
    <3>4. Items(wire') \subseteq Items(wire) \cup {first, second}
      <4>1. first \in Lines /\ second \in Lines
        BY <1>0, <2>2, Some DEF Numbered
      <4> HIDE DEF first, second
      <4>2. <<first, second>> \in Seq(Lines) /\ Items(<<first, second>>) = {first, second}
        BY <4>1 DEF Items
      <4> QED
        <5>0. wire \in Seq(Lines)
          BY <1>0
        <5>1. Items(Append(wire, first)) = Items(wire) \cup {first}
          BY <4>1, <5>0, ItemsOf
        <5>2. Items(wire \o <<first, second>>) = Items(wire) \cup Items(<<first, second>>)
          BY <4>2, <5>0, ItemsOf
        <5> QED
          BY <3>1, <4>2, <5>1, <5>2
    <3> QED
      BY <2>2, <3>2, <3>3, <3>4, LineIsOld, EldersStep
  <2> QED
    BY <2>3, <2>4
<1>5. CASE Chat
  <2>1. PICK i \in Slots, about \in {"chat", "kicked", "elsewhere"} :
          /\ wire' = Append(wire, Line(about, i, Nobody))
          /\ UNCHANGED <<slot, guests, commands, kicked>>
    BY <1>5 DEF Chat
  <2>2. Items(wire') = Items(wire) \cup {Line(about, i, Nobody)}
    <3>1. Line(about, i, Nobody) \in Lines
      BY Some
    <3> QED
      BY <1>0, <2>1, <3>1, ItemsOf
  <2>3. NoYounger(i, Nobody.no)
    <3>1. Nobody.no = 0 /\ guests >= 0 /\ slot[i].no >= 0
      BY <1>0, NumbersAre DEF Nobody, Guest, Numbered
    <3> QED
      BY <3>1 DEF NoYounger
  <2> QED
    BY <1>k, <1>s, <2>1, <2>2, <2>3, EldersStep DEF Line
<1>6. CASE Lose
  BY <1>0, <1>6, <1>k, <1>s, ItemsOf, EldersStep DEF Lose
<1>7. CASE Repeat
  <2>1. Head(wire) \in Items(wire) /\ Head(wire) \in Lines /\ wire' = Append(wire, Head(wire))
    BY <1>0, <1>7, ItemsOf DEF Repeat, Numbered
  <2>2. Items(wire') = Items(wire)
    <3>1. Items(Append(wire, Head(wire))) = Items(wire) \cup {Head(wire)}
      BY <1>0, <2>1, ItemsOf
    <3> QED
      BY <2>1, <3>1
  <2> QED
    BY <1>7, <1>k, <1>s, <2>2, EldersStep DEF Repeat
<1>8. CASE Lock
  BY <1>8, <1>k, <1>s, EldersStep DEF Lock
<1>13. CASE LoseKick
  <2>1. Items(commands') \subseteq Items(commands)
    BY <1>0, <1>13, ItemsOf DEF LoseKick
  <2> QED
    BY <1>13, <1>k, <1>s, <2>1, EldersStep DEF LoseKick
<1>9. ASSUME NEW about, Receive(about)
      PROVE  /\ wire # <<>> /\ Head(wire) \in Items(wire) /\ Items(wire') \subseteq Items(wire)
             /\ ServerStep /\ KickHitsNoOther'
  BY <1>0, <1>9, <1>k, <1>s, ItemsOf DEF Receive
<1>10. CASE Verified
  <2> DEFINE i == Head(wire).index
             guest == Head(wire).guest
  <2>1. NoYounger(i, guest.no) /\ i \in Slots /\ guest \in Guests
    BY <1>0, <1>9, <1>10 DEF Verified, Elders, Numbered
  <2>2. \A order \in Items(Kicks(i, guest)) : NoYounger(order.index, order.meant)
    <3>1. \A order \in Items(Kicks(i, guest)) : order = Kick(i, guest.no)
      <4>1. Kicks(i, guest) \in Seq({Kick(i, guest.no)})
        BY <2>1, KicksTyped
      <4> QED
        BY <4>1 DEF Items
    <3> QED
      BY <2>1, <3>1 DEF Kick
  <2>3. commands' = commands \/ commands' = commands \o Kicks(i, guest)
    BY <1>10 DEF Verified
  <2>4. Kicks(i, guest) \in Seq(Orders)
    <3>1. {Kick(i, guest.no)} \subseteq Orders /\ Kicks(i, guest) \in Seq({Kick(i, guest.no)})
      BY <2>1, KicksTyped
    <3> QED
      BY <3>1
  <2>5. Items(commands') \subseteq Items(commands) \cup Items(Kicks(i, guest))
    <3>1. Items(commands \o Kicks(i, guest)) = Items(commands) \cup Items(Kicks(i, guest))
      BY <1>0, <2>4, ItemsOf
    <3> QED
      BY <2>3, <3>1
  <2> QED
    BY <1>9, <1>10, <2>2, <2>5, EldersStep DEF Verified
<1>11. CASE Disconnected \/ Kicked \/ KickedElsewhere \/ Misread
  BY <1>9, <1>11, <1>c, EldersStep DEF Disconnected, Kicked, KickedElsewhere, Misread
<1>12. CASE UNCHANGED vars
  BY <1>12, <1>k, <1>s, EldersStep DEF vars
<1> QED
  BY <1>1, <1>2, <1>3, <1>4, <1>5, <1>6, <1>7, <1>8, <1>10, <1>11, <1>12,
     <1>13 DEF Next, Reads, Done, Stuck

----------------------------------------------------------------------------
(* At the start there are no guests, no lines and no commands. *)
LEMMA StartsEmpty == Init => TypeOK /\ Elders
<1> SUFFICES ASSUME Init PROVE TypeOK /\ Elders
  OBVIOUS
<1>1. /\ <<>> \in Seq(Lines) /\ <<>> \in Seq([index : Slots, meant : Number])
      /\ Items(<<>>) = {}
  BY DEF Items
<1>2. TypeOK
  <2>1. 0 \in 0..0 /\ 0 \in 0..MaxEvents
    BY BoundsAssumption
  <2>2. kicked \in [meant : Number, hit : Number]
    BY Some DEF Init
  <2> QED
    <3>1. slot \in [Slots -> Guests] /\ players \in [Slots -> Number] /\ guests \in Number
      BY Some DEF Init
    <3>2. {locked, stuck, forged, drift} \subseteq BOOLEAN /\ missed \subseteq Number
      BY Zenon DEF Init
    <3>3. playerCount \in Int
      BY DEF Init
    <3>4. faults \in 0..events /\ events \in 0..MaxEvents
      BY <2>1 DEF Init
    <3>5. wire \in Seq(Lines) /\ commands \in Seq([index : Slots, meant : Number])
      BY <1>1 DEF Init
    <3> QED
      BY <2>2, <3>1, <3>2, <3>3, <3>4, <3>5 DEF TypeOK
<1>3. Elders
  <2>1. \A i \in Slots : slot[i] = Nobody /\ Nobody.no = 0
    BY DEF Init, Nobody, Guest
  <2> QED
    BY <1>1, <2>1 DEF Init, Elders, KickHitsNoOther
<1> QED
  BY <1>2, <1>3

(* Every variable of the roster keeps its type, for any slots and bounds. *)
THEOREM RosterTypeCorrect == Spec => []TypeOK
BY StartsEmpty, RosterTyped, PTL DEF Spec

(* However lines and kicks are delayed, repeated or lost, and however fast *)
(* an index is taken again: a kick never hits a guest who came before the  *)
(* one msgRecieved meant.                                                  *)
THEOREM NoOtherIsKicked == Spec => []KickHitsNoOther
<1>1. Elders => KickHitsNoOther
  BY DEF Elders
<1> QED
  BY <1>1, StartsEmpty, RosterTyped, EldersKept, PTL DEF Spec

----------------------------------------------------------------------------
(* Reading a line.  The lines that count add a guest to the map or remove  *)
(* one; a line fits when it finds the map as the count expects it.         *)
Adds(line) == line.about = "verified" /\ ~Ignored(line.guest)
Removes(line) == line.about \in {"disconnected", "kicked"} /\ ~ReadsAsHc(line.guest)

After(map, line) == [map EXCEPT ![line.index] = IF Adds(line) THEN line.guest.no
                                                ELSE IF Removes(line) THEN 0 ELSE @]
Fits(map, line) == /\ Adds(line) => map[line.index] = 0 /\ line.guest.no # 0
                   /\ Removes(line) => map[line.index] # 0
                   /\ line.about # "elsewhere"

(* Reading the lines of w, map m becomes e; if strict each of them fits.   *)
Maps == [Slots -> Number]
Leads(m, w, e, strict) ==
  \E view \in [0..Len(w) -> Maps] :
    /\ view[0] = m /\ view[Len(w)] = e
    /\ \A n \in 1..Len(w) : /\ view[n] = After(view[n - 1], w[n])
                            /\ strict => Fits(view[n - 1], w[n])

LEMMA AfterTyped ==
  ASSUME NEW m \in Maps, NEW line \in Lines
  PROVE  After(m, line) \in Maps
BY Some DEF After, Maps, Lines, Guests

(* No line changes nothing. *)
LEMMA LeadsNowhere ==
  ASSUME NEW m \in Maps, NEW e, NEW strict \in BOOLEAN
  PROVE  Leads(m, <<>>, e, strict) <=> e = m
<1>1. ASSUME Leads(m, <<>>, e, strict) PROVE e = m
  BY <1>1 DEF Leads
<1>2. Leads(m, <<>>, m, strict)
  <2> DEFINE view == [n \in 0..0 |-> m]
  <2>1. view \in [0..Len(<<>>) -> Maps] /\ view[0] = m /\ view[Len(<<>>)] = m
    OBVIOUS
  <2>2. 1..Len(<<>>) = {}
    OBVIOUS
  <2> HIDE DEF view
  <2> QED
    BY <2>1, <2>2 DEF Leads
<1> QED
  BY <1>1, <1>2

(* One line more is read after the others. *)
LEMMA LeadsFurther ==
  ASSUME NEW m \in Maps, NEW w \in Seq(Lines), NEW e, NEW line \in Lines,
         NEW strict \in BOOLEAN, Leads(m, w, e, strict), strict => Fits(e, line)
  PROVE  e \in Maps /\ Leads(m, Append(w, line), After(e, line), strict)
<1> DEFINE l == Len(w)
           more == Append(w, line)
<1>1. l \in Nat /\ Len(more) = l + 1 /\ more[l + 1] = line /\ \A n \in 1..l : more[n] = w[n]
  OBVIOUS
<1>2. PICK view \in [0..l -> Maps] :
        /\ view[0] = m /\ view[l] = e
        /\ \A n \in 1..l : /\ view[n] = After(view[n - 1], w[n])
                           /\ strict => Fits(view[n - 1], w[n])
  BY DEF Leads
<1>3. e \in Maps
  BY <1>1, <1>2
<1> DEFINE next == [n \in 0..(l + 1) |-> IF n <= l THEN view[n] ELSE After(e, line)]
<1> HIDE DEF l, more
<1>4. next \in [0..Len(more) -> Maps]
  BY <1>1, <1>2, <1>3, AfterTyped
<1>5. next[0] = m /\ next[Len(more)] = After(e, line)
  BY <1>1, <1>2
<1>6. ASSUME NEW n \in 1..Len(more)
      PROVE  /\ next[n] = After(next[n - 1], more[n])
             /\ strict => Fits(next[n - 1], more[n])
  <2>1. CASE n <= l
    <3>1. n \in 1..l /\ next[n] = view[n] /\ next[n - 1] = view[n - 1] /\ more[n] = w[n]
      BY <1>1, <2>1
    <3> QED
      BY <1>2, <3>1
  <2>2. CASE n = l + 1
    <3>1. next[n] = After(e, line) /\ next[n - 1] = e /\ more[n] = line
      BY <1>1, <1>2, <2>2
    <3> QED
      BY <3>1
  <2> QED
    BY <1>1, <2>1, <2>2
<1> HIDE DEF next
<1>7. Leads(m, more, After(e, line), strict)
  BY <1>4, <1>5, <1>6 DEF Leads
<1> QED
  BY <1>3, <1>7 DEF more

(* The first line is read before the others. *)
LEMMA LeadsFromNext ==
  ASSUME NEW m \in Maps, NEW w \in Seq(Lines), w # <<>>, NEW e,
         NEW strict \in BOOLEAN, Leads(m, w, e, strict)
  PROVE  /\ Leads(After(m, Head(w)), Tail(w), e, strict)
         /\ strict => Fits(m, Head(w))
<1> DEFINE l == Len(w)
           rest == Tail(w)
<1>1. /\ l \in Nat \ {0} /\ Len(rest) = l - 1 /\ Head(w) = w[1]
      /\ \A n \in 1..(l - 1) : rest[n] = w[n + 1]
  OBVIOUS
<1>2. PICK view \in [0..l -> Maps] :
        /\ view[0] = m /\ view[l] = e
        /\ \A n \in 1..l : /\ view[n] = After(view[n - 1], w[n])
                           /\ strict => Fits(view[n - 1], w[n])
  BY DEF Leads
<1> DEFINE next == [n \in 0..(l - 1) |-> view[n + 1]]
<1> HIDE DEF l, rest
<1>3. next \in [0..Len(rest) -> Maps]
  BY <1>1, <1>2
<1>4. next[0] = After(m, Head(w)) /\ next[Len(rest)] = e /\ (strict => Fits(m, Head(w)))
  <2>1. 1 \in 1..l /\ 1 - 1 = 0 /\ (l - 1) + 1 = l /\ 0 \in 0..(l - 1) /\ l - 1 \in 0..(l - 1)
    BY <1>1
  <2> QED
    BY <1>1, <1>2, <2>1
<1>5. ASSUME NEW n \in 1..Len(rest)
      PROVE  /\ next[n] = After(next[n - 1], rest[n])
             /\ strict => Fits(next[n - 1], rest[n])
  <2>1. /\ n + 1 \in 1..l /\ next[n] = view[n + 1] /\ next[n - 1] = view[(n + 1) - 1]
        /\ rest[n] = w[n + 1]
    BY <1>1
  <2> QED
    BY <1>2, <2>1
<1> HIDE DEF next
<1>6. Leads(After(m, Head(w)), rest, e, strict)
  BY <1>3, <1>4, <1>5 DEF Leads
<1> QED
  BY <1>4, <1>6 DEF rest

LEMMA LeadsLoosely ==
  ASSUME NEW m, NEW w, NEW e, Leads(m, w, e, TRUE)
  PROVE  Leads(m, w, e, FALSE)
BY DEF Leads

(* A line that neither adds nor removes leaves the map alone; no line      *)
(* touches more than its own index.                                        *)
LEMMA AfterAt ==
  ASSUME NEW m \in Maps, NEW line \in Lines
  PROVE  /\ After(m, line)[line.index] = IF Adds(line) THEN line.guest.no
                                         ELSE IF Removes(line) THEN 0 ELSE m[line.index]
         /\ \A j \in Slots \ {line.index} : After(m, line)[j] = m[j]
         /\ ~Adds(line) /\ ~Removes(line) => After(m, line) = m
BY DEF After, Maps, Lines

----------------------------------------------------------------------------
(* Map e agrees with the server. *)
Stand(e) ==
  \A i \in Slots : IF Verifieds(i) THEN e[i] = slot[i].no \/ (forged /\ e[i] = 0)
                   ELSE e[i] # 0 => drift

Known(map) == {i \in Slots : map[i] # 0}

Ledger == /\ ~drift => playerCount = Cardinality(Known(players))
          /\ faults > 0 \/ forged => drift
          /\ faults = 0 => \E e \in Maps : Leads(players, wire, e, ~drift) /\ Stand(e)

(* Who leaves, by one line. *)
LEMMA LeavesByOne ==
  ASSUME TypeOK, TypeOK', Elders, Ledger, NEW i \in Slots, slot[i] # Nobody,
         NEW about \in {"disconnected", "kicked"},
         slot' = [slot EXCEPT ![i] = Nobody],
         wire' = Append(wire, Line(about, i, slot[i])),
         drift' = (drift \/ Miscounted(slot[i])),
         UNCHANGED <<players, playerCount, faults, forged>>
  PROVE  Ledger'
<1> DEFINE line == Line(about, i, slot[i])
<1>1. /\ slot[i] \in Guests /\ line \in Lines /\ slot[i].no \in Int /\ slot[i].no > 0
      /\ wire \in Seq(Lines) /\ players \in Maps
  BY AllNumbered, NumbersAre, Some DEF Elders, Numbered, TypeOK, Maps, Abouts
<1>2. /\ line.index = i /\ line.guest = slot[i] /\ ~Adds(line)
      /\ Removes(line) <=> ~ReadsAsHc(slot[i])
      /\ line.about # "elsewhere"
  BY DEF Line, Adds, Removes
<1> HIDE DEF line
<1>3. /\ drift \in BOOLEAN /\ drift' \in BOOLEAN
      /\ drift => drift'
      /\ Miscounted(slot[i]) => drift'
  BY DEF TypeOK
<1>4. ASSUME faults = 0
      PROVE  \E e \in Maps : Leads(players, wire', e, ~drift') /\ Stand(e)'
  <2>1. PICK e \in Maps : Leads(players, wire, e, ~drift) /\ Stand(e)
    BY <1>4 DEF Ledger
  <2>2. Leads(players, wire, e, ~drift')
    BY <1>3, <2>1, LeadsLoosely
  <2>3. ~drift' => Fits(e, line)
    <3> SUFFICES ASSUME ~drift', ~ReadsAsHc(slot[i])
                 PROVE  e[i] # 0
      BY <1>2 DEF Fits
    <3>1. slot[i].verified /\ slot[i].sort # "headless"
      BY <1>3 DEF Miscounted, ReadsAsHc
    <3>2. ~forged
      BY <1>3 DEF Ledger
    <3> QED
      BY <1>1, <2>1, <3>1, <3>2 DEF Stand, Verifieds
  <2> PICK m : m = After(e, line)
    OBVIOUS
  <2>4. m \in Maps /\ Leads(players, wire', m, ~drift')
    BY <1>1, <2>1, <2>2, <2>3, LeadsFurther, AfterTyped DEF line
  <2>5. Stand(m)'
    <3> SUFFICES ASSUME NEW j \in Slots
                 PROVE  IF Verifieds(j)' THEN m[j] = slot'[j].no \/ (forged' /\ m[j] = 0)
                        ELSE m[j] # 0 => drift'
      BY DEF Stand
    <3>1. CASE j # i
      <4>1. slot'[j] = slot[j] /\ m[j] = e[j]
        BY <1>1, <1>2, <3>1, AfterAt DEF TypeOK
      <4> QED
        BY <1>3, <2>1, <4>1 DEF Stand, Verifieds
    <3>2. CASE j = i
      <4>1. ~Verifieds(j)'
        BY <3>2 DEF TypeOK, Verifieds, Nobody, Guest
      <4>2. CASE ReadsAsHc(slot[i])
        <5>1. m[i] = e[i]
          BY <1>1, <1>2, <4>2, AfterAt
        <5>2. CASE Verifieds(i)
          BY <1>3, <3>2, <4>1, <4>2, <5>2 DEF Verifieds, Miscounted, ReadsAsHc
        <5>3. CASE ~Verifieds(i)
          BY <1>3, <2>1, <3>2, <4>1, <5>1, <5>3 DEF Stand
        <5> QED
          BY <5>2, <5>3
      <4>3. CASE ~ReadsAsHc(slot[i])
        BY <1>1, <1>2, <3>2, <4>1, <4>3, AfterAt
      <4> QED
        BY <4>2, <4>3
    <3> QED
      BY <3>1, <3>2
  <2> QED
    BY <2>4, <2>5
<1>5. /\ ~drift' => playerCount' = Cardinality(Known(players'))
      /\ faults' > 0 \/ forged' => drift'
  BY <1>3 DEF Ledger
<1> QED
  BY <1>4, <1>5 DEF Ledger

(* Whoever has lost a line, or has two, is not counted on any more. *)
LEMMA Unsettled ==
  ASSUME Ledger, faults' > 0, drift'
  PROVE  Ledger'
<1>1. ~(faults' = 0)
  OBVIOUS
<1> QED
  BY <1>1 DEF Ledger

(* Who is kicked, and reported gone as well. *)
LEMMA LeavesByTwo ==
  ASSUME TypeOK, TypeOK', Ledger, NEW i \in Slots,
         slot' = [slot EXCEPT ![i] = Nobody],
         wire' = wire \o <<Line("kicked", i, slot[i]), Line("disconnected", i, slot[i])>>,
         drift',
         UNCHANGED <<players, playerCount, faults, forged>>
  PROVE  Ledger'
<1> DEFINE first == Line("kicked", i, slot[i])
           second == Line("disconnected", i, slot[i])
<1>1. first \in Lines /\ second \in Lines /\ wire \in Seq(Lines) /\ players \in Maps
  BY AllNumbered, Some DEF Numbered, TypeOK, Maps, Abouts
<1>2. first.index = i /\ second.index = i
  BY DEF Line
<1> HIDE DEF first, second
<1>3. wire' = Append(Append(wire, first), second)
  <2>1. wire' = wire \o <<first, second>>
    BY DEF first, second
  <2> QED
    BY <1>1, <2>1
<1>4. ASSUME faults = 0
      PROVE  \E e \in Maps : Leads(players, wire', e, ~drift') /\ Stand(e)'
  <2>1. PICK e \in Maps : Leads(players, wire, e, ~drift) /\ Stand(e)
    BY <1>4 DEF Ledger
  <2>2. Leads(players, wire, e, FALSE)
    BY <2>1, LeadsLoosely DEF TypeOK
  <2> PICK m : m = After(e, first)
    OBVIOUS
  <2>3. m \in Maps /\ Leads(players, Append(wire, first), m, FALSE)
    BY <1>1, <2>2, LeadsFurther, AfterTyped
  <2> PICK n : n = After(m, second)
    OBVIOUS
  <2>4. n \in Maps /\ Leads(players, wire', n, FALSE)
    <3>1. Append(wire, first) \in Seq(Lines)
      BY <1>1
    <3> QED
      BY <1>1, <1>3, <2>3, <3>1, LeadsFurther, AfterTyped
  <2>5. Stand(n)'
    <3> SUFFICES ASSUME NEW j \in Slots
                 PROVE  Verifieds(j)' => n[j] = slot'[j].no \/ (forged' /\ n[j] = 0)
      BY DEF Stand
    <3>1. CASE j # i
      <4>1. slot'[j] = slot[j] /\ n[j] = e[j]
        BY <1>1, <1>2, <2>3, <3>1, AfterAt DEF TypeOK
      <4> QED
        BY <2>1, <4>1 DEF Stand, Verifieds
    <3>2. CASE j = i
      BY <3>2 DEF TypeOK, Verifieds, Nobody, Guest
    <3> QED
      BY <3>1, <3>2
  <2> QED
    BY <2>4, <2>5
<1> QED
  BY <1>4 DEF Ledger

(* The count of a map that gets or loses one guest. *)
LEMMA KnownCounted ==
  ASSUME NEW m \in Maps, NEW line \in Lines, Fits(m, line)
  PROVE  /\ Adds(line) => Cardinality(Known(After(m, line))) = Cardinality(Known(m)) + 1
         /\ Removes(line) => Cardinality(Known(After(m, line))) = Cardinality(Known(m)) - 1
         /\ Cardinality(Known(m)) \in Int
<1>1. IsFiniteSet(Known(m)) /\ line.index \in Slots
  BY SlotsAssumption, FS_Subset DEF Known, Lines
<1>2. ASSUME Adds(line)
      PROVE  /\ line.index \notin Known(m)
             /\ Known(After(m, line)) = Known(m) \cup {line.index}
  BY <1>1, <1>2, AfterAt DEF Known, Fits
<1>3. ASSUME Removes(line)
      PROVE  /\ line.index \in Known(m)
             /\ Known(After(m, line)) = Known(m) \ {line.index}
  <2>1. ~Adds(line)
    BY <1>3 DEF Adds, Removes
  <2> QED
    BY <1>1, <1>3, <2>1, AfterAt DEF Known, Fits
<1> QED
  BY <1>1, <1>2, <1>3, FS_AddElement, FS_RemoveElement, FS_CardinalityType

(* A line that is read. *)
LEMMA LineRead ==
  ASSUME TypeOK, Ledger, wire # <<>>, wire' = Tail(wire),
         players' = After(players, Head(wire)),
         Head(wire).about # "elsewhere" =>
           playerCount' = playerCount + (IF Adds(Head(wire)) THEN 1 ELSE 0)
                                      - (IF Removes(Head(wire)) THEN 1 ELSE 0),
         UNCHANGED <<slot, faults, forged, drift>>
  PROVE  Ledger'
<1>1. wire \in Seq(Lines) /\ Head(wire) \in Lines /\ players \in Maps /\ drift \in BOOLEAN
  BY DEF TypeOK, Maps
<1>2. ASSUME faults = 0
      PROVE  /\ \E e \in Maps : Leads(players', wire', e, ~drift') /\ Stand(e)'
             /\ ~drift => Fits(players, Head(wire))
  <2>1. PICK e \in Maps : Leads(players, wire, e, ~drift) /\ Stand(e)
    BY <1>2 DEF Ledger
  <2>2. Leads(players', wire', e, ~drift) /\ (~drift => Fits(players, Head(wire)))
    BY <1>1, <2>1, LeadsFromNext
  <2>3. Stand(e)'
    BY <2>1 DEF Stand, Verifieds
  <2> QED
    BY <2>2, <2>3
<1>3. ASSUME ~drift
      PROVE  playerCount' = Cardinality(Known(players'))
  <2>1. faults = 0 /\ playerCount = Cardinality(Known(players))
    BY <1>3 DEF Ledger, TypeOK
  <2>2. Fits(players, Head(wire)) /\ Head(wire).about # "elsewhere"
    BY <1>2, <1>3, <2>1 DEF Fits
  <2>3. ~(Adds(Head(wire)) /\ Removes(Head(wire)))
    BY DEF Adds, Removes
  <2> QED
    BY <1>1, <2>1, <2>2, <2>3, KnownCounted, AfterAt
<1> QED
  BY <1>2, <1>3 DEF Ledger

(* Nothing is said, and who is on the server verified stays as he is. *)
LEMMA LedgerUntouched ==
  ASSUME TypeOK, Ledger, UNCHANGED <<wire, players, playerCount, faults, forged, drift>>,
         \A i \in Slots : \/ slot'[i] = slot[i]
                          \/ ~Verifieds(i) /\ ~Verifieds(i)'
  PROVE  Ledger'
<1>1. ASSUME faults = 0
      PROVE  \E e \in Maps : Leads(players', wire', e, ~drift') /\ Stand(e)'
  <2>1. PICK e \in Maps : Leads(players, wire, e, ~drift) /\ Stand(e)
    BY <1>1 DEF Ledger
  <2>2. Stand(e)'
    BY <2>1 DEF Stand, Verifieds
  <2> QED
    BY <2>1, <2>2
<1> QED
  BY <1>1 DEF Ledger

LEMMA LedgerKept == TypeOK /\ Elders /\ Ledger /\ [Next]_vars => Ledger'
<1> SUFFICES ASSUME TypeOK, Elders, Ledger, [Next]_vars
             PROVE  Ledger'
  OBVIOUS
<1> TypeOK'
  BY RosterTyped
<1> USE DEF server, history, Abouts
<1>0. /\ wire \in Seq(Lines) /\ players \in Maps /\ Numbered
      /\ drift \in BOOLEAN /\ faults \in Nat
  BY AllNumbered DEF TypeOK, Maps
<1>1. ASSUME NEW i \in Slots, NEW sort \in Sort, Arrive(i, sort)
      PROVE  Ledger'
  <2>1. ~Verifieds(i) /\ ~Verifieds(i)'
    BY <1>1 DEF Arrive, Verifieds, Nobody, Guest, TypeOK
  <2>2. \A j \in Slots : j = i \/ slot'[j] = slot[j]
    BY <1>1 DEF Arrive, TypeOK
  <2> QED
    BY <1>1, <2>1, <2>2, LedgerUntouched DEF Arrive
<1>2. ASSUME NEW i \in Slots, Verify(i)
      PROVE  Ledger'
  <2> DEFINE line == Line("verified", i, slot[i])
  <2>1. /\ slot[i] \in Guests /\ line \in Lines /\ slot[i].no \in Int /\ slot[i].no > 0
        /\ ~Verifieds(i)
    BY <1>0, <1>2, NumbersAre, Some DEF Elders, Numbered, Verify, Verifieds
  <2>2. /\ line.index = i /\ line.guest = slot[i] /\ ~Removes(line)
        /\ Adds(line) <=> slot[i].sort # "headless"
        /\ line.about # "elsewhere"
    BY DEF Line, Adds, Removes, Ignored
  <2>3. /\ wire' = Append(wire, line)
        /\ UNCHANGED <<players, playerCount, faults, forged, drift>>
        /\ \A j \in Slots \ {i} : slot'[j] = slot[j]
        /\ slot'[i].verified /\ slot'[i].sort = slot[i].sort /\ slot'[i].no = slot[i].no
    BY <1>2, <2>1 DEF Verify, TypeOK, Guests
  <2> HIDE DEF line
  <2>4. ASSUME faults = 0
        PROVE  \E e \in Maps : Leads(players, wire', e, ~drift) /\ Stand(e)'
    <3>1. PICK e \in Maps : Leads(players, wire, e, ~drift) /\ Stand(e)
      BY <2>4 DEF Ledger
    <3>2. ~drift => Fits(e, line)
      BY <2>1, <2>2, <3>1 DEF Fits, Stand
    <3> PICK m : m = After(e, line)
      OBVIOUS
    <3>3. m \in Maps /\ Leads(players, wire', m, ~drift)
      BY <1>0, <2>1, <2>3, <3>1, <3>2, LeadsFurther, AfterTyped
    <3>4. Stand(m)'
      <4> SUFFICES ASSUME NEW j \in Slots
                   PROVE  IF Verifieds(j)' THEN m[j] = slot'[j].no \/ (forged' /\ m[j] = 0)
                          ELSE m[j] # 0 => drift
        BY <2>3 DEF Stand
      <4>1. CASE j # i
        <5>1. slot'[j] = slot[j] /\ m[j] = e[j]
          BY <2>1, <2>2, <2>3, <4>1, AfterAt
        <5>2. /\ IF Verifieds(j) THEN e[j] = slot[j].no \/ (forged /\ e[j] = 0)
                 ELSE e[j] # 0 => drift
              /\ Verifieds(j)' <=> Verifieds(j)
          BY <3>1, <5>1 DEF Stand, Verifieds
        <5> QED
          BY <2>3, <5>1, <5>2
      <4>2. CASE j = i /\ slot[i].sort # "headless"
        BY <2>1, <2>2, <2>3, <4>2, AfterAt DEF Verifieds
      <4>3. CASE j = i /\ slot[i].sort = "headless"
        <5>1. m = e /\ ~Verifieds(i)'
          BY <2>1, <2>2, <2>3, <4>3, AfterAt DEF Verifieds
        <5> QED
          BY <2>1, <3>1, <4>3, <5>1 DEF Stand
      <4> QED
        BY <4>1, <4>2, <4>3
    <3> QED
      BY <3>3, <3>4
  <2> QED
    BY <2>3, <2>4 DEF Ledger
<1>3. ASSUME NEW i \in Slots, Leave(i)
      PROVE  Ledger'
  BY <1>3, LeavesByOne DEF Leave
<1>4. CASE ExecuteKick
  <2> DEFINE i == Head(commands).index
  <2>1. i \in Slots
    <3>1. commands \in Seq(Orders) /\ commands # <<>>
      BY <1>4 DEF ExecuteKick, TypeOK, Orders
    <3>2. Head(commands) \in Orders
      BY <3>1
    <3> QED
      BY <3>2 DEF Orders
  <2>2. UNCHANGED <<players, playerCount, faults, forged>>
    BY <1>4 DEF ExecuteKick
  <2>3. \/ /\ slot[i] = Nobody /\ UNCHANGED <<slot, wire, drift>>
        \/ /\ slot[i] # Nobody /\ slot' = [slot EXCEPT ![i] = Nobody]
           /\ wire' = Append(wire, Line("kicked", i, slot[i]))
           /\ drift' = (drift \/ Miscounted(slot[i]))
        \/ /\ slot' = [slot EXCEPT ![i] = Nobody]
           /\ wire' = wire \o <<Line("kicked", i, slot[i]), Line("disconnected", i, slot[i])>>
           /\ drift'
    BY <1>4 DEF ExecuteKick
  <2> HIDE DEF i
  <2> QED
    BY <2>1, <2>2, <2>3, LedgerUntouched, LeavesByOne, LeavesByTwo
<1>5. CASE Chat
  <2>0. PICK i \in Slots, about \in {"chat", "kicked", "elsewhere"} :
          /\ wire' = Append(wire, Line(about, i, Nobody))
          /\ forged' = (forged \/ about # "chat") /\ drift' = (drift \/ about # "chat")
          /\ UNCHANGED <<slot, players, playerCount, faults>>
    BY <1>5 DEF Chat
  <2> DEFINE line == Line(about, i, Nobody)
  <2>1. /\ line \in Lines /\ line.index = i /\ ~Adds(line) /\ (Removes(line) => forged')
        /\ ~drift' => about = "chat" /\ ~Removes(line) /\ line.about # "elsewhere"
    BY <2>0, Some DEF Line, Adds, Removes
  <2>2. /\ forged' \in BOOLEAN /\ drift' \in BOOLEAN
        /\ (drift => drift') /\ (forged => forged')
    BY <2>0 DEF TypeOK
  <2>3. /\ wire' = Append(wire, line) /\ UNCHANGED <<slot, players, playerCount, faults>>
        /\ forged' => drift' \/ forged
    BY <2>0
  <2> HIDE DEF line
  <2>4. ASSUME faults = 0
        PROVE  \E e \in Maps : Leads(players, wire', e, ~drift') /\ Stand(e)'
    <3>1. PICK e \in Maps : Leads(players, wire, e, ~drift) /\ Stand(e)
      BY <2>4 DEF Ledger
    <3>2. Leads(players, wire, e, ~drift') /\ (~drift' => Fits(e, line))
      BY <1>0, <2>1, <2>2, <3>1, LeadsLoosely DEF Fits
    <3> PICK m : m = After(e, line)
      OBVIOUS
    <3>3. m \in Maps /\ Leads(players, wire', m, ~drift')
      BY <1>0, <2>1, <2>2, <2>3, <3>2, LeadsFurther, AfterTyped
    <3>4. \A j \in Slots : m[j] = e[j] \/ (forged' /\ m[j] = 0)
      BY <2>1, AfterAt
    <3>5. Stand(m)'
      <4> SUFFICES ASSUME NEW j \in Slots
                   PROVE  IF Verifieds(j) THEN m[j] = slot[j].no \/ (forged' /\ m[j] = 0)
                          ELSE m[j] # 0 => drift'
        BY <2>3 DEF Stand, Verifieds
      <4>1. IF Verifieds(j) THEN e[j] = slot[j].no \/ (forged /\ e[j] = 0)
            ELSE e[j] # 0 => drift
        BY <3>1 DEF Stand
      <4>2. m[j] = e[j] \/ (forged' /\ m[j] = 0)
        BY <3>4
      <4> QED
        BY <2>2, <4>1, <4>2, Zenon
    <3> QED
      BY <3>3, <3>5
  <2>5. ~drift' => playerCount' = Cardinality(Known(players'))
    BY <2>2, <2>3 DEF Ledger
  <2>6. faults' > 0 \/ forged' => drift'
    BY <2>2, <2>3 DEF Ledger
  <2> QED
    BY <2>3, <2>4, <2>5, <2>6 DEF Ledger
<1>6. CASE Lose \/ Repeat
  BY <1>0, <1>6, Unsettled DEF Lose, Repeat
<1>7. CASE Lock \/ LoseKick
  BY <1>7, LedgerUntouched DEF Lock, LoseKick
<1>8. ASSUME NEW about, Receive(about)
      PROVE  /\ wire # <<>> /\ wire' = Tail(wire) /\ Head(wire) \in Lines
             /\ Head(wire).about = about /\ UNCHANGED <<slot, faults, forged, drift>>
  BY <1>0, <1>8 DEF Receive
<1>9. CASE Verified
  <2> DEFINE line == Head(wire)
  <2>1. /\ wire # <<>> /\ wire' = Tail(wire) /\ line \in Lines /\ line.about = "verified"
        /\ UNCHANGED <<slot, faults, forged, drift>>
    BY <1>8, <1>9 DEF Verified
  <2>2. /\ ~Removes(line) /\ line.index \in Slots
        /\ Adds(line) <=> ~Ignored(line.guest)
    BY <2>1 DEF Adds, Removes, Lines
  <2>3. IF Ignored(line.guest) THEN UNCHANGED <<players, playerCount>>
        ELSE /\ players' = [players EXCEPT ![line.index] = line.guest.no]
             /\ playerCount' = playerCount + 1
    BY <1>9 DEF Verified
  <2> HIDE DEF line
  <2>4. players' = After(players, line)
    BY <1>0, <2>1, <2>2, <2>3, AfterAt DEF After
  <2>5. playerCount' = playerCount + (IF Adds(line) THEN 1 ELSE 0)
                                   - (IF Removes(line) THEN 1 ELSE 0)
    BY <2>2, <2>3 DEF TypeOK
  <2> QED
    BY <2>1, <2>4, <2>5, LineRead DEF line
<1>10. CASE Disconnected \/ Kicked
  <2> DEFINE line == Head(wire)
  <2>1. /\ wire # <<>> /\ wire' = Tail(wire) /\ line \in Lines
        /\ line.about \in {"disconnected", "kicked"}
        /\ UNCHANGED <<slot, faults, forged, drift>> /\ Remove(line)
    BY <1>8, <1>10 DEF Disconnected, Kicked
  <2>2. /\ ~Adds(line) /\ line.index \in Slots
        /\ Removes(line) <=> ~ReadsAsHc(line.guest)
    BY <2>1 DEF Adds, Removes, Lines
  <2> HIDE DEF line
  <2>4. players' = After(players, line)
    BY <1>0, <2>1, <2>2, AfterAt DEF After, Remove
  <2>5. playerCount' = playerCount + (IF Adds(line) THEN 1 ELSE 0)
                                   - (IF Removes(line) THEN 1 ELSE 0)
    BY <2>1, <2>2 DEF TypeOK, Remove
  <2> QED
    BY <2>1, <2>4, <2>5, LineRead DEF line
<1>11. CASE KickedElsewhere \/ Misread
  <2> DEFINE line == Head(wire)
  <2>1. /\ wire # <<>> /\ wire' = Tail(wire) /\ line \in Lines
        /\ line.about \in {"elsewhere", "chat"}
        /\ UNCHANGED <<slot, faults, forged, drift, players>>
        /\ line.about # "elsewhere" => UNCHANGED playerCount
    BY <1>8, <1>11 DEF KickedElsewhere, Misread
  <2>2. ~Adds(line) /\ ~Removes(line)
    BY <2>1 DEF Adds, Removes
  <2> HIDE DEF line
  <2>3. players' = After(players, line)
    BY <1>0, <2>1, <2>2, AfterAt
  <2>4. line.about # "elsewhere" =>
          playerCount' = playerCount + (IF Adds(line) THEN 1 ELSE 0)
                                     - (IF Removes(line) THEN 1 ELSE 0)
    BY <2>1, <2>2 DEF TypeOK
  <2> QED
    BY <2>1, <2>3, <2>4, LineRead DEF line
<1>12. CASE UNCHANGED vars
  BY <1>12, LedgerUntouched DEF vars
<1> QED
  BY <1>1, <1>2, <1>3, <1>4, <1>5, <1>6, <1>7, <1>9, <1>10, <1>11, <1>12
     DEF Next, Reads, Done, Stuck

(* At the start nobody is known. *)
LEMMA StartsSettled == Init => Ledger
<1> SUFFICES ASSUME Init PROVE Ledger
  OBVIOUS
<1>1. players \in Maps /\ wire = <<>> /\ drift = FALSE /\ faults = 0
      /\ forged = FALSE /\ playerCount = 0
  BY Some DEF Init, Maps
<1>2. Known(players) = {} /\ Cardinality({}) = 0
  BY FS_EmptySet DEF Init, Known
<1>3. Stand(players)
  BY DEF Init, Stand, Verifieds, Nobody, Guest
<1>4. Leads(players, wire, players, ~drift)
  BY <1>1, LeadsNowhere
<1> QED
  BY <1>1, <1>2, <1>3, <1>4 DEF Ledger

LEMMA SettledRoster == TypeOK /\ Ledger => RosterMatches
<1> SUFFICES ASSUME TypeOK, Ledger PROVE RosterMatches
  OBVIOUS
<1>1. ASSUME wire = <<>>, faults = 0
      PROVE  Stand(players)
  <2>1. PICK e \in Maps : Leads(players, wire, e, ~drift) /\ Stand(e)
    BY <1>1 DEF Ledger
  <2>2. e = players
    BY <1>1, <2>1, LeadsNowhere DEF TypeOK, Maps
  <2> QED
    BY <2>1, <2>2
<1> QED
  BY <1>1 DEF Ledger, RosterMatches, Stand, Known

(* With any number of indexes and guests, the map and the count of the     *)
(* RCON thread are what the lines of the server make them be: when every   *)
(* line has been read and none was lost or repeated, the map has who is    *)
(* verified in his slot, but for those whose name misleads and those a     *)
(* chat line has erased, and nobody else; and the count is the number of   *)
(* players in the map until a guest leaves by two lines or by none that    *)
(* counts, or a chat line reads as one about a kick.                       *)
THEOREM RosterFollowsServer == Spec => []RosterMatches
<1> DEFINE Inv == TypeOK /\ Elders /\ Ledger
<1>1. Init => Inv
  BY StartsEmpty, StartsSettled
<1>2. Inv /\ [Next]_vars => Inv'
  BY RosterTyped, EldersKept, LedgerKept
<1>3. Inv => RosterMatches
  BY SettledRoster
<1> QED
  BY <1>1, <1>2, <1>3, PTL DEF Spec
===============================================================================
