------------------------------ MODULE Characters ------------------------------
(***************************************************************************)
(* The characters of the players: the tables `survivor` and `profile`,     *)
(* which several game servers share, and the calls of the extension that   *)
(* load, claim, save, kill and release a character (Database.cpp and its   *)
(* handlers in BreakingPointExt.cpp).                                      *)
(*                                                                         *)
(* A server executes one call after the other, in the order in which they  *)
(* were made (AsyncWorker has this order for calls of one priority).  A    *)
(* call is several SQL statements without a transaction: a statement is    *)
(* one step, and those of different servers interleave.  A server may      *)
(* crash between any two of them; and any of them may fail, which ends the *)
(* call, and nobody makes it again.                                        *)
(*                                                                         *)
(* `activeserver` is the claim: the server on which a character is played. *)
(* External: the mission script, which makes the calls and refuses a       *)
(* player whose character another server claims, and the players, each on  *)
(* one server at a time.                                                   *)
(***************************************************************************)
EXTENDS Naturals, Sequences, FiniteSets

CONSTANTS Server, Player,
          NoServer,     \* `activeserver` and `lastserver` 0
          world_id,     \* table `instance`: the world of each server
          MaxRows, MaxJoins, MaxSaves, MaxCrashes, MaxFailures   \* bounds

ASSUME NoServerAssumption == NoServer \notin Server
ASSUME WorldAssumption == DOMAIN world_id = Server
ASSUME BoundsAssumption == 
  {MaxRows, MaxJoins, MaxSaves, MaxCrashes, MaxFailures} \subseteq Nat

VARIABLES
  profile,   \* the players with a row in `profile`
  attempts,  \* `survival_attempts` beyond the one it starts with
  survivor,  \* the rows of `survivor`, by `id`
  queue,     \* the calls of each server, the one being executed first
  pc,        \* the next statement of that call
  process,   \* the server process: down, booted, or up once the mission has
             \* streamed the objects and takes players
  at, phase, id,   \* the session of each player: server, phase, character
  joins, crashes, failures,  \* history, for the bounds
  torn,      \* history: a crash or a failure came between the statements of a kill
  lost,      \* history: the servers and players between which a release has
             \* failed, and none has succeeded since
  hurried    \* history: a player came to a server while a call that loads
             \* its character was pending on another

tables  == <<profile, attempts, survivor>>
session == <<at, phase, id>>
history == <<joins, crashes, failures, torn, hurried>>
vars    == <<tables, queue, pc, process, session, lost, history>>

Row(p, s) == [unique_id |-> p, world_id |-> world_id[s], is_dead |-> FALSE,
              lastserver |-> NoServer, activeserver |-> NoServer]

Call(op, p, c) == [op |-> op, p |-> p, c |-> c]

(* Handlers 201, 202, 302 to 305, 301, 203 and 111. *)
Ops == {"loadPlayer", "loadCharacterDetails", "playerUpdate", "playerDeath",
        "playerActiveServer", "playerDisconnected"}

Init == /\ profile = {} /\ attempts = [p \in Player |-> 0] /\ survivor = <<>>
        /\ queue = [s \in Server |-> <<>>] /\ pc = [s \in Server |-> "start"]
        /\ process = [s \in Server |-> "up"]
        /\ at = [p \in Player |-> NoServer]
        /\ phase = [p \in Player |-> "away"] /\ id = [p \in Player |-> 0]
        /\ joins = 0 /\ crashes = 0 /\ failures = 0
        /\ torn = FALSE /\ hurried = FALSE /\ lost = {}

Pending(s, op, p) == {i \in DOMAIN queue[s] : /\ queue[s][i].op = op
                                              /\ queue[s][i].p = p}

----------------------------------------------------------------------------
(* The statements. *)

(* Server s executes the statement `here` of a call of kind op. *)
Executing(s, op, here) == /\ process[s] = "up"
                          /\ queue[s] # <<>> /\ Head(queue[s]).op = op
                          /\ pc[s] = here
                          /\ UNCHANGED <<process, lost, history>>

ThisCall(s) == Head(queue[s])

(* Server s executes the last statement of a release. *)
Releasing(s) == /\ process[s] = "up"
                /\ queue[s] # <<>>
                /\ \/ ThisCall(s).op = "playerActiveServer" /\ pc[s] = "releasePlayer"
                   \/ ThisCall(s).op = "playerDisconnected" /\ pc[s] = "start"
                /\ lost' = lost \ {<<s, ThisCall(s).p>>}
                /\ UNCHANGED <<process, history>>

GoesOn(s, there) == /\ pc' = [pc EXCEPT ![s] = there]
                    /\ UNCHANGED <<queue, session>>

Finishes(s) == /\ pc' = [pc EXCEPT ![s] = "start"]
               /\ queue' = [queue EXCEPT ![s] = Tail(@)]

Returns(s) == Finishes(s) /\ UNCHANGED session

(* The rows the WHERE of a statement selects, and their update. *)
Alive(s, p) == {c \in DOMAIN survivor : /\ survivor[c].unique_id = p
                                        /\ survivor[c].world_id = world_id[s]
                                        /\ ~survivor[c].is_dead}
Where(P(_)) == {c \in DOMAIN survivor : P(survivor[c])}
Released(rows) == [c \in DOMAIN survivor |->
  IF c \in rows THEN [survivor[c] EXCEPT !.activeserver = NoServer]
                ELSE survivor[c]]

(* External: the script takes the answer of loadPlayer, unless the player  *)
(* has left since, and asks for the details if the claim lets it.          *)
Answers(s, p, c, active) ==
  IF at[p] = s /\ phase[p] = "loading" /\ Cardinality(Pending(s, "loadPlayer", p)) = 1
    THEN IF c # 0 /\ active \in {NoServer, s}
      THEN /\ phase' = [phase EXCEPT ![p] = "details"]
           /\ id' = [id EXCEPT ![p] = c]
           /\ pc' = [pc EXCEPT ![s] = "start"]
           /\ queue' = [queue EXCEPT ![s] =
                Append(Tail(@), Call("loadCharacterDetails", p, c))]
           /\ UNCHANGED at
      ELSE /\ phase' = [phase EXCEPT ![p] = "refused"]
           /\ Finishes(s)
           /\ UNCHANGED <<at, id>>
    ELSE Returns(s)

(* fetchCharacterInitial.  The name in the profile is not modelled. *)
SelectProfile(s) ==
  /\ Executing(s, "loadPlayer", "start")
  /\ GoesOn(s, IF ThisCall(s).p \in profile THEN "selectCharacter"
                                            ELSE "insertProfile")
  /\ UNCHANGED tables

(* The key is unique: the statement fails, and the call, if the profile is *)
(* there by now.                                                           *)
InsertProfile(s) ==
  /\ Executing(s, "loadPlayer", "insertProfile")
  /\ profile' = profile \union {ThisCall(s).p}
  /\ IF ThisCall(s).p \in profile THEN Answers(s, ThisCall(s).p, 0, NoServer)
                                  ELSE GoesOn(s, "selectCharacter")
  /\ UNCHANGED <<attempts, survivor>>

(* Fault: only a character without a claim is found. *)
SelectCharacterUnclaimed(s) ==
  /\ Executing(s, "loadPlayer", "selectCharacter")
  /\ LET p == ThisCall(s).p
         found == {c \in Alive(s, p) : survivor[c].activeserver = NoServer}
     IN \/ \E c \in found : Answers(s, p, c, NoServer)
        \/ found = {} /\ GoesOn(s, "insertCharacter")
  /\ UNCHANGED tables

SelectCharacter(s) ==
  /\ Executing(s, "loadPlayer", "selectCharacter")
  /\ LET p == ThisCall(s).p
     IN \/ \E c \in Alive(s, p) : Answers(s, p, c, survivor[c].activeserver)
        \/ Alive(s, p) = {} /\ GoesOn(s, "insertCharacter")
  /\ UNCHANGED tables

InsertCharacter(s) ==
  /\ Executing(s, "loadPlayer", "insertCharacter")
  /\ survivor' = Append(survivor, Row(ThisCall(s).p, s))
  /\ GoesOn(s, "selectNew")
  /\ UNCHANGED <<profile, attempts>>

SelectNew(s) ==
  /\ Executing(s, "loadPlayer", "selectNew")
  /\ LET p == ThisCall(s).p
     IN \/ \E c \in Alive(s, p) : Answers(s, p, c, NoServer)
        \/ Alive(s, p) = {} /\ Answers(s, p, 0, NoServer)
  /\ UNCHANGED tables

(* External: the script takes the answer of loadCharacterDetails, unless    *)
(* the player has left since.                                              *)
Told(s, ph) ==
  /\ Finishes(s)
  /\ LET p == ThisCall(s).p
     IN IF at[p] = s /\ phase[p] = "details" /\ id[p] = ThisCall(s).c
          THEN phase' = [phase EXCEPT ![p] = ph] /\ UNCHANGED <<at, id>>
          ELSE UNCHANGED session

(* Fault: only `lastserver` is set. *)
ClaimCharacterNot(s) ==
  /\ Executing(s, "loadCharacterDetails", "start")
  /\ survivor' = [survivor EXCEPT ![ThisCall(s).c].lastserver = s]
  /\ Told(s, "playing")
  /\ UNCHANGED <<profile, attempts>>

(* fetchCharacterDetails: what it reads is not modelled. *)
ClaimCharacter(s) ==
  /\ Executing(s, "loadCharacterDetails", "start")
  /\ survivor' = [survivor EXCEPT ![ThisCall(s).c].lastserver = s,
                                  ![ThisCall(s).c].activeserver = s]
  /\ Told(s, "playing")
  /\ UNCHANGED <<profile, attempts>>

(* updateCharacter: what it writes is not modelled. *)
SaveCharacter(s) ==
  /\ Executing(s, "playerUpdate", "start")
  /\ Returns(s)
  /\ UNCHANGED tables

(* Fault: `is_dead` is not looked at. *)
CountDeathAgain(s) ==
  /\ Executing(s, "playerDeath", "start")
  /\ attempts' = [attempts EXCEPT ![ThisCall(s).p] = @ + 1]
  /\ GoesOn(s, "kill")
  /\ UNCHANGED <<profile, survivor>>

(* killCharacter. *)
CountDeath(s) ==
  /\ Executing(s, "playerDeath", "start")
  /\ attempts' = IF survivor[ThisCall(s).c].is_dead THEN attempts
                 ELSE [attempts EXCEPT ![ThisCall(s).p] = @ + 1]
  /\ GoesOn(s, "kill")
  /\ UNCHANGED <<profile, survivor>>

KillCharacter(s) ==
  /\ Executing(s, "playerDeath", "kill")
  /\ survivor' = [survivor EXCEPT ![ThisCall(s).c].is_dead = TRUE]
  /\ Returns(s)
  /\ UNCHANGED <<profile, attempts>>

(* clearActiveServer with a character... *)
ReleaseCharacter(s) ==
  /\ Executing(s, "playerActiveServer", "start")
  /\ survivor' = Released({ThisCall(s).c})
  /\ GoesOn(s, "releasePlayer")
  /\ UNCHANGED <<profile, attempts>>

(* Fault: whichever server claims them. *)
ReleasePlayerOfAny(s) ==
  /\ Releasing(s)
  /\ survivor' = Released(Where(LAMBDA r : r.unique_id = ThisCall(s).p))
  /\ Returns(s)
  /\ UNCHANGED <<profile, attempts>>

(* Fault: without a character nothing is done. *)
ReleasePlayerWithCharacter(s) ==
  /\ Releasing(s)
  /\ survivor' = IF ThisCall(s).op = "playerDisconnected" THEN survivor
                 ELSE Released(Where(LAMBDA r : /\ r.unique_id = ThisCall(s).p
                                                /\ r.activeserver = s))
  /\ Returns(s)
  /\ UNCHANGED <<profile, attempts>>

(* ... and, with or without, its last statement. *)
ReleasePlayer(s) ==
  /\ Releasing(s)
  /\ survivor' = Released(Where(LAMBDA r : /\ r.unique_id = ThisCall(s).p
                                           /\ r.activeserver = s))
  /\ Returns(s)
  /\ UNCHANGED <<profile, attempts>>

Statement(s) ==
  \/ SelectProfile(s) \/ InsertProfile(s) \/ SelectCharacter(s)
  \/ InsertCharacter(s) \/ SelectNew(s) \/ ClaimCharacter(s)
  \/ SaveCharacter(s) \/ CountDeath(s) \/ KillCharacter(s)
  \/ ReleaseCharacter(s) \/ ReleasePlayer(s)

(* The statement of a call fails.  Who loads is answered by ERROR, and any *)
(* other call by nothing: the script does not hear of it, and              *)
(* connectionFailure has no call made again.                               *)
Fail(s) ==
  /\ process[s] = "up" /\ queue[s] # <<>> /\ failures < MaxFailures
  /\ failures' = failures + 1
  /\ \/ ThisCall(s).op = "loadPlayer" /\ Answers(s, ThisCall(s).p, 0, NoServer)
     \/ ThisCall(s).op = "loadCharacterDetails" /\ Told(s, "refused")
     \/ ThisCall(s).op \notin {"loadPlayer", "loadCharacterDetails"} /\ Returns(s)
  /\ torn' = (torn \/ pc[s] = "kill")
  /\ lost' = IF ThisCall(s).op = "playerDisconnected" THEN lost \union {<<s, ThisCall(s).p>>}
             ELSE lost
  /\ UNCHANGED <<tables, process, joins, crashes, hurried>>

----------------------------------------------------------------------------
(* External: the server processes.  The mission streams the objects before *)
(* it takes players.                                                       *)

Crash(s) ==
  /\ process[s] # "down" /\ crashes < MaxCrashes
  /\ process' = [process EXCEPT ![s] = "down"]
  /\ torn' = (torn \/ pc[s] = "kill")
  /\ queue' = [queue EXCEPT ![s] = <<>>]
  /\ pc' = [pc EXCEPT ![s] = "start"]
  /\ at' = [p \in Player |-> IF at[p] = s THEN NoServer ELSE at[p]]
  /\ phase' = [p \in Player |-> IF at[p] = s THEN "away" ELSE phase[p]]
  /\ id' = [p \in Player |-> IF at[p] = s THEN 0 ELSE id[p]]
  /\ crashes' = crashes + 1
  /\ UNCHANGED <<tables, lost, joins, failures, hurried>>

Boot(s) ==
  /\ process[s] = "down"
  /\ process' = [process EXCEPT ![s] = "booted"]
  /\ UNCHANGED <<tables, queue, pc, session, lost, history>>

(* populateObjects, called for the first object with an empty queue: the   *)
(* claims of the server are reset once the objects have been selected...   *)

(* Fault: claims are not reset. *)
ResetGhostingNot(s) ==
  /\ process[s] = "booted"
  /\ process' = [process EXCEPT ![s] = "up"]
  /\ lost' = lost \ ({s} \X Player)
  /\ UNCHANGED <<tables, queue, pc, session, history>>

ResetGhosting(s) ==
  /\ process[s] = "booted"
  /\ process' = [process EXCEPT ![s] = "up"]
  /\ survivor' = [c \in DOMAIN survivor |->
       IF s \in {survivor[c].lastserver, survivor[c].activeserver}
         THEN [survivor[c] EXCEPT !.lastserver = NoServer,
                                  !.activeserver = NoServer]
         ELSE survivor[c]]
  /\ lost' = lost \ ({s} \X Player)
  /\ UNCHANGED <<profile, attempts, queue, pc, session, history>>

(* ... and if the one or the other fails, the mission goes on without.     *)
FailToReset(s) ==
  /\ process[s] = "booted" /\ failures < MaxFailures
  /\ process' = [process EXCEPT ![s] = "up"]
  /\ failures' = failures + 1
  /\ lost' = lost \union ({s} \X Player)
  /\ UNCHANGED <<tables, queue, pc, session, joins, crashes, torn, hurried>>

----------------------------------------------------------------------------
(* External: the players and the script. *)

Calls(s, calls) == /\ queue' = [queue EXCEPT ![s] = @ \o calls]
                   /\ UNCHANGED <<tables, pc, process, crashes, failures, torn, lost>>

Becomes(p, s, ph, c) == /\ at' = [at EXCEPT ![p] = s]
                        /\ phase' = [phase EXCEPT ![p] = ph]
                        /\ id' = [id EXCEPT ![p] = c]

Join(p, s) ==
  /\ at[p] = NoServer /\ process[s] = "up" /\ joins < MaxJoins
  /\ joins' = joins + 1
  /\ hurried' = (hurried \/ \E t \in Server \ {s} :
                   Pending(t, "loadPlayer", p) \union
                   Pending(t, "loadCharacterDetails", p) # {})
  /\ Becomes(p, s, "loading", 0)
  /\ Calls(s, <<Call("loadPlayer", p, 0)>>)

AskAgain(p) ==
  /\ at[p] # NoServer /\ phase[p] = "refused"
  /\ Becomes(p, at[p], "loading", 0)
  /\ Calls(at[p], <<Call("loadPlayer", p, 0)>>)
  /\ UNCHANGED <<joins, hurried>>

Save(p) ==
  /\ phase[p] = "playing"
  /\ Cardinality(Pending(at[p], "playerUpdate", p)) < MaxSaves
  /\ Calls(at[p], <<Call("playerUpdate", p, id[p])>>)
  /\ UNCHANGED <<session, joins, hurried>>

(* The event of a death may be seen twice. *)
Die(p) ==
  /\ phase[p] = "playing" /\ Len(survivor) < MaxRows
  /\ Becomes(p, at[p], "dead", id[p])
  /\ \E n \in 1..2 :
       Calls(at[p], [i \in 1..n |-> Call("playerDeath", p, id[p])])
  /\ UNCHANGED <<joins, hurried>>

Respawn(p) ==
  /\ phase[p] = "dead"
  /\ Becomes(p, at[p], "loading", 0)
  /\ Calls(at[p], <<Call("loadPlayer", p, 0)>>)
  /\ UNCHANGED <<joins, hurried>>

(* A server releases the character it saved last, if it gets to it, before *)
(* the player is gone.                                                     *)
Leave(p) ==
  /\ at[p] # NoServer
  /\ Becomes(p, NoServer, "away", 0)
  /\ LET gone == <<Call("playerDisconnected", p, 0)>>
     IN \/ Calls(at[p], gone)
        \/ /\ phase[p] = "playing"
           /\ Calls(at[p], <<Call("playerActiveServer", p, id[p])>> \o gone)
  /\ UNCHANGED <<joins, hurried>>

(* Nothing is left to do: everybody is away for good. *)
Quiet == /\ joins = MaxJoins /\ UNCHANGED vars
         /\ \A p \in Player : at[p] = NoServer
         /\ \A s \in Server : process[s] = "up" /\ queue[s] = <<>>

Next == \/ \E s \in Server : \/ Statement(s) \/ Fail(s)
                            \/ Crash(s) \/ Boot(s) \/ ResetGhosting(s) \/ FailToReset(s)
        \/ \E p \in Player : \/ \E s \in Server : Join(p, s)
                             \/ AskAgain(p) \/ Save(p) \/ Die(p) \/ Respawn(p)
                             \/ Leave(p)
        \/ Quiet

Spec == Init /\ [][Next]_vars

FairSpec == Spec /\ \A s \in Server :
              WF_vars(Statement(s)) /\ WF_vars(Boot(s)) /\ WF_vars(ResetGhosting(s))

----------------------------------------------------------------------------
(* Properties. *)

TypeOK ==
  /\ profile \subseteq Player /\ attempts \in [Player -> Nat]
  /\ survivor \in Seq([unique_id : Player,
                       world_id : {world_id[s] : s \in Server},
                       is_dead : BOOLEAN,
                       lastserver : Server \union {NoServer},
                       activeserver : Server \union {NoServer}])
  /\ queue \in [Server -> Seq([op : Ops, p : Player, c : Nat])]
  /\ pc \in [Server -> {"start", "insertProfile", "selectCharacter",
                        "insertCharacter", "selectNew", "kill",
                        "releasePlayer"}]
  /\ process \in [Server -> {"down", "booted", "up"}]
  /\ at \in [Player -> Server \union {NoServer}]
  /\ phase \in [Player -> {"away", "loading", "refused", "details", "playing",
                           "dead"}]
  /\ id \in [Player -> 0..Len(survivor)]
  /\ joins \in 0..MaxJoins /\ crashes \in 0..MaxCrashes
  /\ failures \in 0..MaxFailures /\ lost \subseteq Server \X Player
  /\ torn \in BOOLEAN /\ hurried \in BOOLEAN

(* A claim is honest: a server that claims a character has its player, or  *)
(* is still to hear that the player is gone, or is to reset its claims     *)
(* before it takes players.  No other claim locks a player out, unless the *)
(* statement that should have released it has failed.                      *)
ClaimHonest ==
  \A c \in DOMAIN survivor :
    LET s == survivor[c].activeserver
        p == survivor[c].unique_id
    IN s # NoServer => \/ at[p] = s
                       \/ process[s] # "up"
                       \/ Pending(s, "playerDisconnected", p) # {}
                       \/ <<s, p>> \in lost

(* As long as no player comes to a server while another still loads its   *)
(* character: a character being played is claimed by the server it is      *)
(* played on, whatever calls of other servers are still under way.         *)
ClaimHeld == ~hurried => \A p \in Player :
  phase[p] = "playing" => survivor[id[p]].activeserver = at[p]

(* Nor is a character let in, then, while an update or a death of it is    *)
(* under way: what is loaded is what was saved, and nothing overwrites it  *)
(* later.                                                                  *)
FreshLoad ==
  [][~hurried => \A p \in Player : phase[p] = "loading" /\ phase'[p] = "details" =>
       \A s \in Server : \A i \in DOMAIN queue[s] :
         queue[s][i].op \in {"playerUpdate", "playerDeath"}
           => queue[s][i].c # id'[p]]_vars

(* And a player has one living character in a world: the three statements  *)
(* that look for one and insert it meet no other server that does the same.*)
OneAlive == ~hurried =>
  \A c, d \in DOMAIN survivor :
    /\ survivor[c].unique_id = survivor[d].unique_id
    /\ survivor[c].world_id = survivor[d].world_id
    /\ ~survivor[c].is_dead /\ ~survivor[d].is_dead
    => c = d

(* Crash or not, no death is left out of the profile; and each is counted  *)
(* once, however often it is reported, unless a crash or a failure came    *)
(* between the two statements of a kill, or the player hurried to another  *)
(* server.                                                                 *)
Dead(p) == Where(LAMBDA r : r.unique_id = p /\ r.is_dead)
BeingKilled(p) == {c \in DOMAIN survivor : /\ ~survivor[c].is_dead
                     /\ \E s \in Server : /\ pc[s] = "kill" /\ ThisCall(s).c = c
                                          /\ ThisCall(s).p = p}
StatsOnce == \A p \in Player :
  /\ attempts[p] >= Cardinality(Dead(p))
  /\ ~torn /\ ~hurried =>
       attempts[p] = Cardinality(Dead(p)) + Cardinality(BeingKilled(p))

(* The claims on the characters of a player who stays away are released,   *)
(* but for those of a server whose release, or reset, has failed.          *)
ClaimsReleased == \A p \in Player :
  at[p] = NoServer ~> \/ at[p] # NoServer
                      \/ Where(LAMBDA r : /\ r.unique_id = p
                                          /\ r.activeserver # NoServer
                                          /\ <<r.activeserver, p>> \notin lost) = {}
=============================================================================
