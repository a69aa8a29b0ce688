-------------------------------- MODULE Roster --------------------------------
(***************************************************************************)
(* Rcon::msgRecieved: the players the RCON thread knows of, and whom it    *)
(* kicks, from the lines the game server sends about them.                 *)
(*                                                                         *)
(* The server and its guests are external.  A guest takes a slot, whose    *)
(* index is free again when he leaves; the server verifies him, and sends  *)
(* a line each time.  Lines come in order, but one may be lost for good,   *)
(* or come again later, since the server repeats what it thinks was not    *)
(* acknowledged.  Kicks are commands for an index: the session (module     *)
(* RconSession) sends each once, in order, and one may be lost.            *)
(***************************************************************************)
EXTENDS Integers, Sequences, FiniteSets

CONSTANTS Slots,        \* the indexes of the server
          MaxGuests,    \* bound on the guests that come
          MaxLines,     \* bound on the lines on their way
          MaxEvents     \* bound on lines and kicks lost, lines repeated, chat
                        \* lines that look like others, and changes of the
                        \* lock, together

ASSUME SlotsAssumption == Slots \subseteq Nat /\ 0 \in Slots /\ IsFiniteSet(Slots)
ASSUME BoundsAssumption == {MaxGuests, MaxLines, MaxEvents} \subseteq Nat

(* What a name makes of a guest: one that is not valid; a headless client, *)
(* which has no GUID; a player with the name of one; and a player whose    *)
(* name only begins with the word "hc".                                    *)
Sort == {"plain", "badName", "headless", "impostor", "hcWord"}

VARIABLES
  slot,         \* the server's: the guest of each index
  guests,       \* the server's: how many have come
  wire,         \* the lines on their way
  players,      \* map<long int, Player>: the guest of each index, 0 for none
  playerCount,
  commands,     \* the kicks on their way, each with the guest it is meant for
  locked,
  stuck,        \* the thread waits for mutex_players for ever
  kicked,       \* history: the last kick, [meant, hit]
  faults,       \* history: lines lost or repeated
  missed,       \* history: the guests a kick for whom was lost
  forged,       \* history: a chat line reads as one about a kick
  events,
  drift         \* history: a guest left other than by one line after one line

server  == <<slot, guests>>
history == <<kicked, faults, missed, forged, drift>>
vars == <<server, wire, players, playerCount, commands, locked, stuck, events,
          history>>

Guest(no, sort) == [no |-> no, sort |-> sort, verified |-> FALSE]
Nobody == Guest(0, "plain")
Line(about, index, guest) == [about |-> about, index |-> index, guest |-> guest]

Init == /\ slot = [i \in Slots |-> Nobody] /\ guests = 0
        /\ wire = <<>> /\ commands = <<>>
        /\ players = [i \in Slots |-> 0] /\ playerCount = 0
        /\ locked \in BOOLEAN /\ stuck = FALSE
        /\ kicked = [meant |-> 0, hit |-> 0]
        /\ faults = 0 /\ missed = {} /\ forged = FALSE
        /\ events = 0 /\ drift = FALSE

----------------------------------------------------------------------------
(* The server. *)

Arrive(i, sort) ==
  /\ slot[i] = Nobody /\ guests < MaxGuests
  /\ guests' = guests + 1
  /\ slot' = [slot EXCEPT ![i] = Guest(guests', sort)]
  /\ UNCHANGED <<wire, players, playerCount, commands, locked, stuck, events, history>>

Verify(i) ==
  /\ slot[i] # Nobody /\ ~slot[i].verified /\ Len(wire) < MaxLines
  /\ slot' = [slot EXCEPT ![i].verified = TRUE]
  /\ wire' = Append(wire, Line("verified", i, slot[i]))
  /\ UNCHANGED <<guests, players, playerCount, commands, locked, stuck, events, history>>

(* The name in a line about a guest who is gone is read up to a blank.     *)
ReadsAsHc(guest) == guest.sort \in {"headless", "impostor", "hcWord"}

(* Who leaves before he is verified was never counted, and who reads as a  *)
(* headless client stays.                                                  *)
Miscounted(guest) == \/ ~guest.verified /\ ~ReadsAsHc(guest)
                     \/ guest.verified /\ guest.sort \in {"impostor", "hcWord"}

Leave(i) ==
  /\ slot[i] # Nobody /\ Len(wire) < MaxLines
  /\ slot' = [slot EXCEPT ![i] = Nobody]
  /\ wire' = Append(wire, Line("disconnected", i, slot[i]))
  /\ drift' = (drift \/ Miscounted(slot[i]))
  /\ UNCHANGED <<guests, players, playerCount, commands, locked, stuck, events, kicked, faults,
                 missed, forged>>

(* A kick is executed: on whoever has the index by then.  The server says  *)
(* so, and may say in another line that he is gone.                        *)
ExecuteKick ==
  /\ commands # <<>> /\ commands' = Tail(commands)
  /\ LET i == Head(commands).index
     IN IF slot[i] = Nobody
          THEN UNCHANGED <<slot, wire, kicked, drift>>
          ELSE /\ slot' = [slot EXCEPT ![i] = Nobody]
               /\ kicked' = [meant |-> Head(commands).meant, hit |-> slot[i].no]
               /\ \/ /\ wire' = Append(wire, Line("kicked", i, slot[i]))
                     /\ drift' = (drift \/ Miscounted(slot[i]))
                  \/ /\ wire' = wire \o <<Line("kicked", i, slot[i]),
                                          Line("disconnected", i, slot[i])>>
                     /\ drift' = TRUE
  /\ UNCHANGED <<guests, players, playerCount, locked, stuck, faults, missed, forged, events>>

Event == events < MaxEvents /\ events' = events + 1

(* A chat line has the words of a line about a kick.  Its second word,     *)
(* from a name a player has chosen, may be anything: no number, the index  *)
(* of a slot after its first letter, or another number.                    *)
Chat == \E i \in Slots, about \in {"chat", "kicked", "elsewhere"} :
          /\ Event
          /\ wire' = Append(wire, Line(about, i, Nobody))
          /\ forged' = (forged \/ about # "chat")
          /\ drift' = (drift \/ about # "chat")
          /\ UNCHANGED <<server, players, playerCount, commands, locked, stuck, kicked, faults,
                         missed>>

Lose == /\ Event /\ faults' = faults + 1
        /\ wire # <<>> /\ wire' = Tail(wire)
        /\ drift' = TRUE
        /\ UNCHANGED <<server, players, playerCount, commands, locked, stuck, kicked, missed,
                       forged>>

Repeat == /\ Event /\ faults' = faults + 1
          /\ wire # <<>> /\ wire' = Append(wire, Head(wire))
          /\ drift' = TRUE
          /\ UNCHANGED <<server, players, playerCount, commands, locked, stuck, kicked, missed,
                         forged>>

(* A kick is a datagram that is never sent again; it is also gone if it    *)
(* was sent before the login, or when the run flag is down.                *)
LoseKick == /\ Event
            /\ commands # <<>> /\ commands' = Tail(commands)
            /\ missed' = missed \cup {Head(commands).meant}
            /\ UNCHANGED <<server, wire, players, playerCount, locked, stuck, kicked, faults,
                           forged, drift>>

(* Rcon::lock and unlock, by handlers 114 and 115. *)
Lock == /\ Event
        /\ locked' = ~locked
        /\ UNCHANGED <<server, wire, players, playerCount, commands, stuck, history>>

----------------------------------------------------------------------------
(* msgRecieved, on the thread's line: one step, since nothing else reads   *)
(* the map.                                                                *)

(* Fault: the index is looked up by the player's GUID, which is found only *)
(* after he is inserted.                                                   *)
KickKnown(index, no) == [index |-> IF players[index] = no THEN index ELSE 0, meant |-> no]

Kick(index, no) == [index |-> index, meant |-> no]

(* Fault: the GUID of a headless client is not looked at. *)
IgnoredByName(guest) == guest.sort \in {"headless", "impostor"}

Ignored(guest) == guest.sort = "headless"

(* The kicks for a guest: for the name of a headless client, for the lock, *)
(* for a name that is not valid.                                           *)
Kicks(index, guest) ==
  LET one(reason) == IF reason THEN <<Kick(index, guest.no)>> ELSE <<>>
  IN one(guest.sort = "impostor") \o one(locked) \o one(guest.sort = "badName")

Receive(about) == /\ ~stuck /\ wire # <<>> /\ Head(wire).about = about
                  /\ wire' = Tail(wire)
                  /\ UNCHANGED <<server, locked, events, history>>

Verified ==
  /\ Receive("verified")
  /\ LET i == Head(wire).index
         guest == Head(wire).guest
     IN IF Ignored(guest)
          THEN UNCHANGED <<players, playerCount, commands>>
          ELSE /\ players' = [players EXCEPT ![i] = guest.no]
               /\ playerCount' = playerCount + 1
               /\ commands' = commands \o Kicks(i, guest)
  /\ UNCHANGED stuck

(* Fault: only who disconnects is removed. *)
RemoveUnkicked(line) ==
  IF ReadsAsHc(line.guest) \/ line.about = "kicked" THEN UNCHANGED <<players, playerCount>>
  ELSE /\ playerCount' = playerCount - 1
       /\ players' = [players EXCEPT ![line.index] = 0]

Remove(line) ==
  IF ReadsAsHc(line.guest) THEN UNCHANGED <<players, playerCount>>
  ELSE /\ playerCount' = playerCount - 1
       /\ players' = [players EXCEPT ![line.index] = 0]

Disconnected == Receive("disconnected") /\ Remove(Head(wire)) /\ UNCHANGED <<commands, stuck>>
Kicked == Receive("kicked") /\ Remove(Head(wire)) /\ UNCHANGED <<commands, stuck>>

(* No player has the index of the line. *)
KickedElsewhere == /\ Receive("elsewhere")
                   /\ playerCount' = playerCount - 1
                   /\ UNCHANGED <<players, commands, stuck>>

(* The index cannot be read.  The exception is caught, and a mutex that is *)
(* not held is unlocked: it may never be had again.                        *)
Misread == /\ Receive("chat")
           /\ stuck' \in BOOLEAN
           /\ UNCHANGED <<players, playerCount, commands>>

Reads == Verified \/ Disconnected \/ Kicked \/ KickedElsewhere \/ Misread

Done == wire = <<>> /\ commands = <<>> /\ UNCHANGED vars
Stuck == stuck /\ UNCHANGED vars

Next == \/ \E i \in Slots : (\E sort \in Sort : Arrive(i, sort)) \/ Verify(i) \/ Leave(i)
        \/ ExecuteKick \/ Chat \/ Lose \/ Repeat \/ LoseKick \/ Lock
        \/ Reads \/ Done \/ Stuck

Spec == Init /\ [][Next]_vars

(* The thread turns, and a kick that is not lost is executed.  Guests owe  *)
(* nothing.                                                                *)
FairSpec == Spec /\ WF_vars(ExecuteKick) /\ WF_vars(Reads)

----------------------------------------------------------------------------
(* Properties. *)

(* The variables have their types. *)
Number == 0..MaxGuests
Guests == [no : Number, sort : Sort, verified : BOOLEAN]
Abouts == {"verified", "disconnected", "kicked", "elsewhere", "chat"}
Lines == [about : Abouts, index : Slots, guest : Guests]

TypeOK == /\ slot \in [Slots -> Guests] /\ guests \in Number
          /\ wire \in Seq(Lines)
          /\ players \in [Slots -> Number] /\ playerCount \in Int
          /\ commands \in Seq([index : Slots, meant : Number])
          /\ {locked, stuck, forged, drift} \subseteq BOOLEAN
          /\ missed \subseteq Number
          /\ kicked \in [meant : Number, hit : Number]
          /\ faults \in 0..events /\ events \in 0..MaxEvents

(* When every line has been read, and none was lost or repeated, the map   *)
(* has who is verified on the server in his slot, and nobody else but a    *)
(* guest whose name read as a headless client when he left.  A chat line   *)
(* may have erased a player, and can do no more to the map.  And, read or  *)
(* not, playerCount is the number of players in the map, as long as each   *)
(* has left by one line after he was verified by one, and no chat line     *)
(* read as another.                                                        *)
Verifieds(i) == slot[i].verified /\ slot[i].sort # "headless"
RosterMatches ==
  /\ (wire = <<>> /\ faults = 0) =>
       \A i \in Slots : IF Verifieds(i)
                        THEN players[i] = slot[i].no \/ (forged /\ players[i] = 0)
                        ELSE players[i] # 0 => drift
  /\ ~drift => playerCount = Cardinality({i \in Slots : players[i] # 0})

(* A kick never hits a guest who came before the one it is meant for: it   *)
(* is for its own slot, and hits him or one who has taken it since.        *)
KickHitsNoOther == kicked.hit >= kicked.meant

(* A guest with the name of a headless client, or one that is not valid,   *)
(* does not stay, unless a line is lost or repeated, a kick for him is     *)
(* lost, or the thread is stuck.                                           *)
UnwantedLeave ==
  \A n \in 1..MaxGuests :
    (\E i \in Slots : /\ slot[i].no = n /\ slot[i].verified
                      /\ slot[i].sort \in {"impostor", "badName"})
      ~> \/ \A i \in Slots : slot[i].no # n
         \/ n \in missed \/ faults > 0 \/ stuck
=============================================================================
