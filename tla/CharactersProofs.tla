--------------------------- MODULE CharactersProofs ---------------------------
(***************************************************************************)
(* Proofs about Characters, for any servers, worlds and players and any    *)
(* number of visits, crashes and failures. The server a player is on has   *)
(* its calls in the order of the visit (InTurn); a call that saves, kills  *)
(* or releases a character is preceded by the claim on it and followed by  *)
(* the release (Custody), as long as no player hurries.                    *)
(***************************************************************************)
EXTENDS Characters, FiniteSetTheorems, TLAPS

(* The calls by what they do to a character: those that end in a claim,    *)
(* those of a server that has claimed it, those that release.              *)
Loads  == {"loadPlayer", "loadCharacterDetails"}
Owners == {"playerUpdate", "playerDeath", "playerActiveServer"}
Frees  == {"playerActiveServer", "playerDisconnected"}

(* The call that is executed is at the head of the queue.  A server that   *)
(* is not up has no calls and no players.                                  *)
Executes ==
  /\ \A s \in Server :
       /\ pc[s] # "start" => queue[s] # <<>>
       /\ pc[s] \in {"insertProfile", "selectCharacter", "insertCharacter", "selectNew"}
            => queue[s][1].op = "loadPlayer"
       /\ pc[s] = "kill" => queue[s][1].op = "playerDeath"
       /\ pc[s] = "releasePlayer" => queue[s][1].op = "playerActiveServer"
       /\ process[s] # "up" => queue[s] = <<>> /\ \A p \in Player : at[p] # s
  /\ \A p \in Player : at[p] = NoServer <=> phase[p] = "away"

(* A call about a character is made for the player whose it is. *)
Owned ==
  /\ \A s \in Server : \A i \in DOMAIN queue[s] :
       queue[s][i].op \in Owners \union {"loadCharacterDetails"} =>
         /\ queue[s][i].c \in DOMAIN survivor
         /\ survivor[queue[s][i].c].unique_id = queue[s][i].p
  /\ \A p \in Player : phase[p] \in {"details", "playing", "dead"} =>
       /\ id[p] \in DOMAIN survivor
       /\ survivor[id[p]].unique_id = p

(* What the server of player p has still to do for it: while it loads, a   *)
(* load comes last; later, no call of an earlier visit or life is left.    *)
InTurn ==
  \A p \in Player : at[p] # NoServer =>
    /\ phase[p] = "loading" =>
         \E j \in DOMAIN queue[at[p]] :
           /\ queue[at[p]][j].op = "loadPlayer" /\ queue[at[p]][j].p = p
           /\ \A i \in DOMAIN queue[at[p]] : i > j => queue[at[p]][i].p # p
    /\ phase[p] # "loading" => \A i \in DOMAIN queue[at[p]] :
         queue[at[p]][i].p = p =>
           /\ phase[p] # "refused"
           /\ queue[at[p]][i].c = id[p]
           /\ phase[p] = "details" =>
                /\ queue[at[p]][i].op = "loadCharacterDetails"
                /\ \A j \in DOMAIN queue[at[p]] : queue[at[p]][j].p = p => i = j
           /\ phase[p] = "playing" => queue[at[p]][i].op = "playerUpdate"
           /\ phase[p] = "dead" => queue[at[p]][i].op \in {"playerUpdate", "playerDeath"}

(* A server that has a release to do has no later call that needs the      *)
(* claim.                                                                  *)
FreedLast ==
  \A s \in Server : \A i, j \in DOMAIN queue[s] :
    i < j /\ queue[s][i].op \in Frees /\ queue[s][j].op \in Owners
      => queue[s][i].p # queue[s][j].p

(* A claim to come is for a player who is there, or is released later. *)
ClaimFollowed ==
  \A s \in Server : \A i \in DOMAIN queue[s] :
    queue[s][i].op = "loadCharacterDetails" =>
      \/ at[queue[s][i].p] = s
      \/ \E j \in DOMAIN queue[s] : /\ j > i /\ queue[s][j].p = queue[s][i].p
                                    /\ queue[s][j].op = "playerDisconnected"

LastClaimed == \A c \in DOMAIN survivor :
  survivor[c].activeserver \in {NoServer, survivor[c].lastserver}

(* Unless it hurries, only one server at a time loads for a player, that   *)
(* on which the player is, if it is on one.                                *)
OneLoads == ~hurried =>
  \A s \in Server : \A i \in DOMAIN queue[s] : queue[s][i].op \in Loads =>
    /\ at[queue[s][i].p] \in {s, NoServer}
    /\ \A t \in Server : \A j \in DOMAIN queue[t] :
         queue[t][j].op \in Loads /\ queue[t][j].p = queue[s][i].p => t = s

(* Server s is still to execute what needs the claim on c. *)
Needs(s, i) == /\ queue[s][i].op \in Owners
               /\ ~(i = 1 /\ pc[s] = "releasePlayer")

Custody == ~hurried =>
  /\ \A s \in Server : \A i \in DOMAIN queue[s] :
       Needs(s, i) => survivor[queue[s][i].c].activeserver = s
  /\ \A s \in Server : \A i \in DOMAIN queue[s] :
       queue[s][i].op = "loadCharacterDetails" =>
         survivor[queue[s][i].c].activeserver \in {s, NoServer}

(* What loadPlayer has found out still holds. *)
StillNone == ~hurried => \A s \in Server :
  /\ pc[s] = "insertCharacter" => Alive(s, queue[s][1].p) = {}
  /\ pc[s] = "selectNew" => \A c \in Alive(s, queue[s][1].p) :
       survivor[c].activeserver = NoServer

(* The characters of a player whose death has been counted. *)
Counted(p) == Dead(p) \union BeingKilled(p)
Counts == \A p \in Player :
  /\ attempts[p] >= Cardinality(Counted(p))
  /\ ~torn /\ ~hurried => attempts[p] = Cardinality(Counted(p))

(* The inductive invariant: the first part says in which order a server    *)
(* has its calls, the second what holds of the tables meanwhile.           *)
CallsInOrder == Executes /\ Owned /\ InTurn /\ FreedLast /\ ClaimFollowed /\ OneLoads
TablesAgree  == LastClaimed /\ Custody /\ StillNone /\ Counts /\ ClaimHonest /\ ClaimHeld /\ OneAlive
Inv == TypeOK /\ CallsInOrder /\ TablesAgree

----------------------------------------------------------------------------
(* Types. *)
CallSet == [op : Ops, p : Player, c : Nat]
RowSet == [unique_id : Player, world_id : {world_id[s] : s \in Server},
           is_dead : BOOLEAN, lastserver : Server \union {NoServer},
           activeserver : Server \union {NoServer}]

LEMMA CallTyped ==
  ASSUME NEW op \in Ops, NEW p \in Player, NEW c \in Nat
  PROVE  /\ Call(op, p, c) \in CallSet
         /\ Call(op, p, c).op = op /\ Call(op, p, c).p = p /\ Call(op, p, c).c = c
BY DEF Call, CallSet

LEMMA RowTyped ==
  ASSUME NEW p \in Player, NEW s \in Server
  PROVE  Row(p, s) \in RowSet
BY DEF Row, RowSet

(* What the statements do to a row. *)
Claimed(r, s) == [r EXCEPT !.lastserver = s, !.activeserver = s]
Reset(r)      == [r EXCEPT !.lastserver = NoServer, !.activeserver = NoServer]
Freed(r)      == [r EXCEPT !.activeserver = NoServer]
Killed(r)     == [r EXCEPT !.is_dead = TRUE]

SameOwner(r, q) == /\ q \in RowSet
                   /\ q.unique_id = r.unique_id /\ q.world_id = r.world_id

LEMMA RowChanged ==
  ASSUME NEW r \in RowSet, NEW s \in Server
  PROVE  /\ /\ SameOwner(r, Claimed(r, s)) /\ Claimed(r, s).is_dead = r.is_dead
            /\ Claimed(r, s).lastserver = s /\ Claimed(r, s).activeserver = s
         /\ /\ SameOwner(r, Reset(r)) /\ Reset(r).is_dead = r.is_dead
            /\ Reset(r).lastserver = NoServer /\ Reset(r).activeserver = NoServer
         /\ /\ SameOwner(r, Freed(r)) /\ Freed(r).is_dead = r.is_dead
            /\ Freed(r).lastserver = r.lastserver /\ Freed(r).activeserver = NoServer
         /\ /\ SameOwner(r, Killed(r)) /\ Killed(r).is_dead
            /\ Killed(r).lastserver = r.lastserver /\ Killed(r).activeserver = r.activeserver
BY DEF RowSet, SameOwner, Claimed, Reset, Freed, Killed

LEMMA SeqOf ==
  ASSUME NEW S, NEW n \in Nat, NEW f, f = [i \in 1..n |-> f[i]], \A i \in 1..n : f[i] \in S
  PROVE  f \in Seq(S) /\ Len(f) = n /\ DOMAIN f = 1..n
OBVIOUS

(* What they do to the table. *)
LEMMA InsertEffect ==
  ASSUME survivor \in Seq(RowSet), NEW r \in RowSet, survivor' = Append(survivor, r)
  PROVE  /\ survivor' \in Seq(RowSet) /\ Len(survivor') = Len(survivor) + 1
         /\ DOMAIN survivor' = DOMAIN survivor \union {Len(survivor) + 1}
         /\ \A c \in DOMAIN survivor : survivor'[c] = survivor[c]
         /\ survivor'[Len(survivor) + 1] = r
         /\ Len(survivor) + 1 \notin DOMAIN survivor
OBVIOUS

LEMMA PutEffect ==
  ASSUME survivor \in Seq(RowSet), NEW c \in DOMAIN survivor, NEW r \in RowSet,
         survivor' = [survivor EXCEPT ![c] = r]
  PROVE  /\ survivor' \in Seq(RowSet) /\ Len(survivor') = Len(survivor)
         /\ DOMAIN survivor' = DOMAIN survivor
         /\ \A d \in DOMAIN survivor : d # c => survivor'[d] = survivor[d]
         /\ survivor'[c] = r
OBVIOUS

LEMMA ClaimEffect ==
  ASSUME survivor \in Seq(RowSet), NEW s \in Server, ClaimCharacter(s),
         NEW c \in DOMAIN survivor, c = ThisCall(s).c
  PROVE  /\ survivor' \in Seq(RowSet) /\ Len(survivor') = Len(survivor)
         /\ DOMAIN survivor' = DOMAIN survivor
         /\ \A d \in DOMAIN survivor : d # c => survivor'[d] = survivor[d]
         /\ survivor'[c] = Claimed(survivor[c], s)
<1>1. survivor' = [survivor EXCEPT ![c] = Claimed(survivor[c], s)]
  BY Zenon DEF ClaimCharacter, Claimed
<1>2. survivor[c] \in RowSet
  OBVIOUS
<1>3. Claimed(survivor[c], s) \in RowSet
  BY <1>2, RowChanged DEF SameOwner
<1> QED
  BY <1>1, <1>3, PutEffect

LEMMA KillEffect ==
  ASSUME survivor \in Seq(RowSet), NEW s \in Server, KillCharacter(s),
         NEW c \in DOMAIN survivor, c = ThisCall(s).c
  PROVE  /\ survivor' \in Seq(RowSet) /\ Len(survivor') = Len(survivor)
         /\ DOMAIN survivor' = DOMAIN survivor
         /\ \A d \in DOMAIN survivor : d # c => survivor'[d] = survivor[d]
         /\ survivor'[c] = Killed(survivor[c])
<1>1. survivor' = [survivor EXCEPT ![c] = Killed(survivor[c])]
  BY Zenon DEF KillCharacter, Killed
<1>2. survivor[c] \in RowSet
  OBVIOUS
<1>3. Killed(survivor[c]) \in RowSet
  BY <1>2, RowChanged DEF SameOwner
<1> QED
  BY <1>1, <1>3, PutEffect

LEMMA ReleaseEffect ==
  ASSUME survivor \in Seq(RowSet), NEW R, survivor' = Released(R)
  PROVE  /\ survivor' \in Seq(RowSet) /\ Len(survivor') = Len(survivor)
         /\ DOMAIN survivor' = DOMAIN survivor
         /\ \A c \in DOMAIN survivor \ R : survivor'[c] = survivor[c]
         /\ \A c \in DOMAIN survivor \intersect R : survivor'[c] = Freed(survivor[c])
<1>1. /\ DOMAIN survivor' = 1..Len(survivor) /\ Len(survivor) \in Nat
      /\ survivor' = [c \in 1..Len(survivor) |-> survivor'[c]]
      /\ \A c \in DOMAIN survivor :
           survivor'[c] = IF c \in R THEN Freed(survivor[c]) ELSE survivor[c]
  BY DEF Released, Freed
<1>2. \A c \in 1..Len(survivor) : survivor[c] \in RowSet /\ Freed(survivor[c]) \in RowSet
  <2>1. \A r \in RowSet : Freed(r) \in RowSet
    BY DEF Freed, RowSet
  <2> QED
    BY <2>1
<1>3. survivor' \in Seq(RowSet) /\ Len(survivor') = Len(survivor)
  BY <1>1, <1>2, SeqOf
<1> QED
  BY <1>1, <1>3

LEMMA ResetEffect ==
  ASSUME survivor \in Seq(RowSet), NEW s \in Server, ResetGhosting(s)
  PROVE  /\ survivor' \in Seq(RowSet) /\ Len(survivor') = Len(survivor)
         /\ DOMAIN survivor' = DOMAIN survivor
         /\ \A c \in DOMAIN survivor :
              survivor'[c] = IF s \in {survivor[c].lastserver, survivor[c].activeserver}
                               THEN Reset(survivor[c]) ELSE survivor[c]
<1>1. /\ DOMAIN survivor' = 1..Len(survivor) /\ Len(survivor) \in Nat
      /\ survivor' = [c \in 1..Len(survivor) |-> survivor'[c]]
      /\ \A c \in DOMAIN survivor :
           survivor'[c] = IF s \in {survivor[c].lastserver, survivor[c].activeserver}
                               THEN Reset(survivor[c]) ELSE survivor[c]
  <2>1. survivor' = [c \in DOMAIN survivor |->
              IF s \in {survivor[c].lastserver, survivor[c].activeserver}
                THEN Reset(survivor[c]) ELSE survivor[c]]
    BY Zenon DEF ResetGhosting, Reset
  <2> QED
    BY <2>1
<1>2. \A c \in 1..Len(survivor) : survivor[c] \in RowSet /\ Reset(survivor[c]) \in RowSet
  <2>1. \A r \in RowSet : Reset(r) \in RowSet
    BY DEF Reset, RowSet
  <2> QED
    BY <2>1
<1>3. survivor' \in Seq(RowSet) /\ Len(survivor') = Len(survivor)
  BY <1>1, <1>2, SeqOf
<1> QED
  BY <1>1, <1>3
----------------------------------------------------------------------------
(* What the steps do to the queue of a server s: the first d calls of it   *)
(* are gone, new ones have come.                                           *)
Queues == [Server -> Seq(CallSet)]

Moved(s, d, new) ==
  /\ \A t \in Server : t # s => queue'[t] = queue[t]
  /\ DOMAIN queue[s] = 1..Len(queue[s]) /\ DOMAIN queue'[s] = 1..(Len(queue[s]) - d + Len(new))
  /\ DOMAIN new = 1..Len(new) /\ Len(queue[s]) \in Nat /\ Len(new) \in Nat /\ Len(queue[s]) >= d
  /\ \A i \in DOMAIN queue'[s] :
       \/ i + d \in DOMAIN queue[s] /\ queue'[s][i] = queue[s][i + d]
       \/ i + d - Len(queue[s]) \in DOMAIN new /\ queue'[s][i] = new[i + d - Len(queue[s])]

LEMMA MovedShort ==
  ASSUME queue \in Queues, NEW s \in Server, queue[s] # <<>>,
         queue' = [queue EXCEPT ![s] = Tail(@)]
  PROVE  queue' \in Queues /\ Moved(s, 1, <<>>)
<1>1. queue[s] \in Seq(CallSet)
  BY DEF Queues
<1> DEFINE q == Tail(queue[s])
<1>2. /\ q \in Seq(CallSet) /\ Len(queue[s]) \in Nat \ {0}
      /\ DOMAIN q = 1..(Len(queue[s]) - 1) /\ DOMAIN queue[s] = 1..Len(queue[s])
      /\ \A i \in 1..(Len(queue[s]) - 1) : q[i] = queue[s][i + 1]
  BY <1>1
<1>4. queue'[s] = q /\ \A t \in Server : t # s => queue'[t] = queue[t]
  BY DEF Queues
<1> HIDE DEF q
<1>3. queue' \in Queues
  BY <1>2, <1>4 DEF Queues
<1>5. Len(<<>>) = 0 /\ DOMAIN <<>> = 1..0
  OBVIOUS
<1>6. \A i \in 1..(Len(queue[s]) - 1) : i + 1 \in 1..Len(queue[s])
  BY <1>2
<1> QED
  BY <1>2, <1>3, <1>4, <1>5, <1>6 DEF Moved

LEMMA MovedOn ==
  ASSUME queue \in Queues, NEW s \in Server, queue[s] # <<>>, NEW call \in CallSet,
         queue' = [queue EXCEPT ![s] = Append(Tail(@), call)]
  PROVE  queue' \in Queues /\ Moved(s, 1, <<call>>)
<1>1. queue[s] \in Seq(CallSet)
  BY DEF Queues
<1> DEFINE q == Append(Tail(queue[s]), call)
<1>2. /\ q \in Seq(CallSet) /\ Len(queue[s]) \in Nat \ {0}
      /\ DOMAIN q = 1..Len(queue[s]) /\ DOMAIN queue[s] = 1..Len(queue[s])
      /\ \A i \in 1..(Len(queue[s]) - 1) : q[i] = queue[s][i + 1]
      /\ q[Len(queue[s])] = call
  BY <1>1
<1>4. queue'[s] = q /\ \A t \in Server : t # s => queue'[t] = queue[t]
  BY DEF Queues
<1> HIDE DEF q
<1>3. queue' \in Queues
  BY <1>2, <1>4 DEF Queues
<1>5. Len(<<call>>) = 1 /\ DOMAIN <<call>> = 1..1 /\ <<call>>[1] = call
  OBVIOUS
<1>6. \A i \in 1..Len(queue[s]) : i # Len(queue[s]) => i \in 1..(Len(queue[s]) - 1) /\ i + 1 \in 1..Len(queue[s])
  BY <1>2
<1> QED
  BY <1>2, <1>3, <1>4, <1>5, <1>6 DEF Moved

LEMMA MovedLong ==
  ASSUME queue \in Queues, NEW s \in Server, NEW new \in Seq(CallSet),
         queue' = [queue EXCEPT ![s] = @ \o new]
  PROVE  queue' \in Queues /\ Moved(s, 0, new)
<1>1. queue[s] \in Seq(CallSet)
  BY DEF Queues
<1> DEFINE q == queue[s] \o new
<1>2. /\ q \in Seq(CallSet) /\ Len(queue[s]) \in Nat /\ Len(new) \in Nat
      /\ DOMAIN q = 1..(Len(queue[s]) + Len(new)) /\ DOMAIN queue[s] = 1..Len(queue[s])
      /\ DOMAIN new = 1..Len(new)
      /\ \A i \in 1..Len(queue[s]) : q[i] = queue[s][i]
      /\ \A i \in 1..(Len(queue[s]) + Len(new)) : i > Len(queue[s]) => q[i] = new[i - Len(queue[s])]
  BY <1>1
<1>4. queue'[s] = q /\ \A t \in Server : t # s => queue'[t] = queue[t]
  BY DEF Queues
<1> HIDE DEF q
<1>3. queue' \in Queues
  BY <1>2, <1>4 DEF Queues
<1>6. \A i \in 1..(Len(queue[s]) + Len(new)) :
        i \in 1..Len(queue[s]) \/ (i > Len(queue[s]) /\ i - Len(queue[s]) \in 1..Len(new))
  BY <1>2
<1> QED
  BY <1>2, <1>3, <1>4, <1>6 DEF Moved

LEMMA MovedForward ==
  ASSUME NEW s, NEW d \in {0, 1}, NEW new, Moved(s, d, new)
  PROVE  \A i \in DOMAIN queue[s] : i > d =>
           i - d \in DOMAIN queue'[s] /\ queue'[s][i - d] = queue[s][i]
<1>1. /\ DOMAIN queue[s] = 1..Len(queue[s]) /\ DOMAIN queue'[s] = 1..(Len(queue[s]) - d + Len(new))
      /\ DOMAIN new = 1..Len(new) /\ Len(queue[s]) \in Nat /\ Len(new) \in Nat /\ Len(queue[s]) >= d
  BY DEF Moved
<1>2. \A i \in DOMAIN queue'[s] :
       \/ i + d \in DOMAIN queue[s] /\ queue'[s][i] = queue[s][i + d]
       \/ i + d - Len(queue[s]) \in DOMAIN new /\ queue'[s][i] = new[i + d - Len(queue[s])]
  BY DEF Moved
<1>3. ASSUME NEW i \in DOMAIN queue[s], i > d
      PROVE  i - d \in DOMAIN queue'[s] /\ queue'[s][i - d] = queue[s][i]
  <2>1. i - d \in DOMAIN queue'[s] /\ (i - d) + d = i /\ ~(i - Len(queue[s]) \in DOMAIN new)
    BY <1>1, <1>3
  <2> QED
    BY <1>2, <2>1
<1> QED
  BY <1>3

LEMMA MovedIn ==
  ASSUME NEW s, NEW d \in {0, 1}, NEW new, Moved(s, d, new)
  PROVE  \A k \in DOMAIN new : /\ Len(queue[s]) - d + k \in DOMAIN queue'[s]
                              /\ queue'[s][Len(queue[s]) - d + k] = new[k]
<1>1. /\ DOMAIN queue[s] = 1..Len(queue[s]) /\ DOMAIN queue'[s] = 1..(Len(queue[s]) - d + Len(new))
      /\ DOMAIN new = 1..Len(new) /\ Len(queue[s]) \in Nat /\ Len(new) \in Nat /\ Len(queue[s]) >= d
  BY DEF Moved
<1>2. \A i \in DOMAIN queue'[s] :
       \/ i + d \in DOMAIN queue[s] /\ queue'[s][i] = queue[s][i + d]
       \/ i + d - Len(queue[s]) \in DOMAIN new /\ queue'[s][i] = new[i + d - Len(queue[s])]
  BY DEF Moved
<1>3. \A m, n \in Nat : \A k : m >= d /\ k \in 1..n =>
        LET j == m - d + k IN j \in 1..(m - d + n) /\ j + d - m = k /\ ~(j + d \in 1..m)
  OBVIOUS
<1>4. ASSUME NEW k \in DOMAIN new
      PROVE  /\ Len(queue[s]) - d + k \in DOMAIN queue'[s]
             /\ queue'[s][Len(queue[s]) - d + k] = new[k]
  <2> DEFINE i == Len(queue[s]) - d + k
  <2>1. i \in DOMAIN queue'[s] /\ i + d - Len(queue[s]) = k /\ ~(i + d \in DOMAIN queue[s])
    BY <1>1, <1>3
  <2> QED
    BY <1>2, <2>1
<1> QED
  BY <1>4

(* The next call of a server that has one. *)
LEMMA NextCall ==
  ASSUME queue \in Queues, NEW s \in Server, queue[s] # <<>>
  PROVE  /\ ThisCall(s) = queue[s][1] /\ 1 \in DOMAIN queue[s] /\ queue[s][1] \in CallSet
         /\ Head(queue[s]) = queue[s][1]
<1>1. queue[s] \in Seq(CallSet)
  BY DEF Queues
<1> QED
  BY <1>1 DEF ThisCall

LEMMA QueueIs ==
  ASSUME queue \in Queues, NEW s \in Server
  PROVE  /\ Len(queue[s]) \in Nat /\ DOMAIN queue[s] = 1..Len(queue[s])
         /\ \A i \in DOMAIN queue[s] : queue[s][i] \in CallSet /\ i \in Nat
         /\ queue[s] = <<>> <=> DOMAIN queue[s] = {}
<1>1. ASSUME NEW q \in Seq(CallSet)
      PROVE  /\ Len(q) \in Nat /\ DOMAIN q = 1..Len(q)
             /\ \A i \in DOMAIN q : q[i] \in CallSet /\ i \in Nat
             /\ q = <<>> <=> DOMAIN q = {}
  <2>1. q = <<>> <=> Len(q) = 0
    OBVIOUS
  <2> QED
    BY <2>1
<1> QED
  BY <1>1 DEF Queues

LEMMA OneIsLeft ==
  ASSUME queue \in Queues, NEW s \in Server, NEW p, queue[s] # <<>>,
         queue[s][1].op = "loadPlayer", queue[s][1].p = p,
         Cardinality(Pending(s, "loadPlayer", p)) = 1
  PROVE  \A i \in DOMAIN queue[s] :
           queue[s][i].op = "loadPlayer" /\ queue[s][i].p = p => i = 1
<1> DEFINE L == Pending(s, "loadPlayer", p)
<1>1. IsFiniteSet(L)
  <2>1. IsFiniteSet(DOMAIN queue[s])
    BY QueueIs, FS_Interval
  <2>2. L \subseteq DOMAIN queue[s]
    BY DEF Pending
  <2> QED
    BY <2>1, <2>2, FS_Subset
<1>2. PICK x : L = {x}
  BY <1>1, FS_Singleton
<1>3. 1 \in L
  BY NextCall DEF Pending
<1> QED
  BY <1>2, <1>3 DEF Pending

LEMMA MoreAreLeft ==
  ASSUME queue \in Queues, NEW s \in Server, NEW p, queue[s] # <<>>,
         queue[s][1].op = "loadPlayer", queue[s][1].p = p,
         Cardinality(Pending(s, "loadPlayer", p)) # 1
  PROVE  \E i \in DOMAIN queue[s] : i # 1 /\ queue[s][i].p = p
<1> DEFINE L == Pending(s, "loadPlayer", p)
<1>1. 1 \in L
  BY NextCall DEF Pending
<1>2. L # {1}
  BY FS_Singleton
<1>3. PICK x \in L : x # 1
  BY <1>1, <1>2
<1> QED
  BY <1>3 DEF Pending

----------------------------------------------------------------------------
(* What the steps do to queues and sessions, but for a crash. *)
Stays == UNCHANGED <<queue, session>>

Returned(s) ==
  /\ Moved(s, 1, <<>>) /\ UNCHANGED session
  /\ queue[s][1].op = "loadPlayer" /\ at[queue[s][1].p] = s /\ phase[queue[s][1].p] = "loading" =>
       \E i \in DOMAIN queue[s] : i # 1 /\ queue[s][i].p = queue[s][1].p

(* A load is answered: its player is let in with character c... *)
Answered(s, p) ==
  /\ queue[s][1].op = "loadPlayer" /\ queue[s][1].p = p
  /\ at[p] = s /\ phase[p] = "loading"
  /\ \A i \in DOMAIN queue[s] : queue[s][i].op = "loadPlayer" /\ queue[s][i].p = p => i = 1
  /\ UNCHANGED <<at, survivor>>

Accepted(s, p, c) ==
  /\ Answered(s, p)
  /\ c \in Alive(s, p) /\ pc[s] \in {"selectCharacter", "selectNew"}
  /\ pc[s] = "selectCharacter" => survivor[c].activeserver \in {NoServer, s}
  /\ Moved(s, 1, <<Call("loadCharacterDetails", p, c)>>)
  /\ phase' = [phase EXCEPT ![p] = "details"] /\ id' = [id EXCEPT ![p] = c]

(* ... or not. *)
Refused(s, p) ==
  /\ Answered(s, p)
  /\ Moved(s, 1, <<>>)
  /\ phase' = [phase EXCEPT ![p] = "refused"] /\ UNCHANGED id

Entered(s, p) ==
  /\ ClaimCharacter(s)
  /\ queue[s][1].op = "loadCharacterDetails" /\ queue[s][1].p = p
  /\ at[p] = s /\ phase[p] = "details" /\ id[p] = queue[s][1].c
  /\ Moved(s, 1, <<>>)
  /\ phase' = [phase EXCEPT ![p] = "playing"] /\ UNCHANGED <<at, id>>

(* The script makes the calls new about player p. *)
Asked(p, s, new) ==
  /\ Moved(s, 0, new) /\ process[s] = "up"
  /\ \A k \in DOMAIN new : new[k].p = p
  /\ \A q \in Player : q # p => at'[q] = at[q] /\ phase'[q] = phase[q] /\ id'[q] = id[q]
  /\ UNCHANGED <<tables, pc, process>>

AskedLoad(p, s) ==
  /\ Asked(p, s, <<Call("loadPlayer", p, 0)>>)
  /\ \/ /\ at[p] = NoServer
        /\ hurried' \/ \A t \in Server : t # s => \A i \in DOMAIN queue[t] :
                         queue[t][i].op \in Loads => queue[t][i].p # p
     \/ at[p] = s /\ phase[p] \in {"refused", "dead"}
  /\ at'[p] = s /\ phase'[p] = "loading" /\ id'[p] = 0

AskedSave(p, s) ==
  /\ Asked(p, s, <<Call("playerUpdate", p, id[p])>>)
  /\ at[p] = s /\ phase[p] = "playing" /\ UNCHANGED session

AskedDeath(p, s, n) ==
  /\ Asked(p, s, [i \in 1..n |-> Call("playerDeath", p, id[p])])
  /\ at[p] = s /\ phase[p] = "playing"
  /\ at'[p] = s /\ phase'[p] = "dead" /\ id'[p] = id[p]

AskedLeave(p, s, new) ==
  /\ Asked(p, s, new)
  /\ \/ new = <<Call("playerDisconnected", p, 0)>>
     \/ /\ phase[p] = "playing"
        /\ new = <<Call("playerActiveServer", p, id[p]), Call("playerDisconnected", p, 0)>>
  /\ at[p] = s /\ at'[p] = NoServer /\ phase'[p] = "away" /\ id'[p] = 0

(* The details of a character could not be read. *)
Denied(s, p) ==
  /\ queue[s][1].op = "loadCharacterDetails" /\ queue[s][1].p = p
  /\ at[p] = s /\ phase[p] = "details" /\ id[p] = queue[s][1].c
  /\ Moved(s, 1, <<>>)
  /\ phase' = [phase EXCEPT ![p] = "refused"] /\ UNCHANGED <<at, id>>

LEMMA AnswersEffect ==
  ASSUME TypeOK, NEW s \in Server, NEW p \in Player, NEW c \in Nat, NEW active,
         queue[s] # <<>>, queue[s][1].op = "loadPlayer", queue[s][1].p = p,
         Answers(s, p, c, active), UNCHANGED survivor
  PROVE  /\ queue' \in Queues /\ pc' = [pc EXCEPT ![s] = "start"]
         /\ \/ Returned(s)
            \/ Refused(s, p)
            \/ /\ c # 0 /\ active \in {NoServer, s} /\ Answered(s, p)
               /\ Moved(s, 1, <<Call("loadCharacterDetails", p, c)>>)
               /\ phase' = [phase EXCEPT ![p] = "details"] /\ id' = [id EXCEPT ![p] = c]
<1>1. queue \in Queues
  BY DEF TypeOK, Queues, CallSet
<1>2. Call("loadCharacterDetails", p, c) \in CallSet
  BY CallTyped DEF Ops
<1>3. CASE ~(at[p] = s /\ phase[p] = "loading" /\ Cardinality(Pending(s, "loadPlayer", p)) = 1)
  <2>1. at[p] = s /\ phase[p] = "loading" =>
          \E i \in DOMAIN queue[s] : i # 1 /\ queue[s][i].p = p
    BY <1>1, <1>3, MoreAreLeft
  <2>2. queue' = [queue EXCEPT ![s] = Tail(@)] /\ pc' = [pc EXCEPT ![s] = "start"] /\ UNCHANGED session
    BY <1>3 DEF Answers, Returns, Finishes
  <2> QED
    BY <1>1, <2>1, <2>2, MovedShort DEF Returned
<1>4. CASE at[p] = s /\ phase[p] = "loading" /\ Cardinality(Pending(s, "loadPlayer", p)) = 1
  <2>1. /\ UNCHANGED at => Answered(s, p)
    BY <1>1, <1>4, OneIsLeft DEF Answered
  <2>2. CASE c # 0 /\ active \in {NoServer, s}
    BY <1>1, <1>2, <1>4, <2>1, <2>2, MovedOn DEF Answers
  <2>3. CASE ~(c # 0 /\ active \in {NoServer, s})
    BY <1>1, <1>4, <2>1, <2>3, MovedShort DEF Answers, Finishes, Refused
  <2> QED
    BY <2>2, <2>3
<1> QED
  BY <1>3, <1>4

(* The parts of TypeOK. *)
TablesTyped == profile \subseteq Player /\ attempts \in [Player -> Nat] /\ survivor \in Seq(RowSet)

Statements == {"start", "insertProfile", "selectCharacter", "insertCharacter", "selectNew",
               "kill", "releasePlayer"}

ServersTyped == queue \in Queues /\ pc \in [Server -> Statements] /\ process \in [Server -> {"down", "booted", "up"}]

SessionTyped ==
  /\ at \in [Player -> Server \union {NoServer}]
  /\ phase \in [Player -> {"away", "loading", "refused", "details", "playing", "dead"}]
  /\ id \in [Player -> 0..Len(survivor)]

HistoryTyped == /\ joins \in 0..MaxJoins /\ crashes \in 0..MaxCrashes
                /\ failures \in 0..MaxFailures
                /\ torn \in BOOLEAN /\ hurried \in BOOLEAN

LostTyped == lost \subseteq Server \X Player

LEMMA TypeParts == TypeOK <=> TablesTyped /\ ServersTyped /\ SessionTyped /\ HistoryTyped /\ LostTyped
BY Zenon DEF TypeOK, TablesTyped, ServersTyped, SessionTyped, HistoryTyped, LostTyped, Queues, CallSet,
             RowSet, Statements

LoadSteps == {"insertProfile", "selectCharacter", "insertCharacter", "selectNew"}

(* Server s has executed a statement: the call goes on, or is over. *)
GoneOn(s) ==
  /\ Stays
  /\ \/ pc'[s] \in LoadSteps /\ queue[s][1].op = "loadPlayer"
     \/ pc'[s] = "kill" /\ queue[s][1].op = "playerDeath"
     \/ pc'[s] = "releasePlayer" /\ queue[s][1].op = "playerActiveServer"

Over(s) ==
  /\ pc'[s] = "start"
  /\ \/ Returned(s)
     \/ \E p \in Player : \/ Refused(s, p) \/ Denied(s, p) \/ Entered(s, p)
                           \/ \E c \in DOMAIN survivor : Accepted(s, p, c)

LEMMA Found ==
  ASSUME survivor \in Seq(RowSet), NEW s \in Server, NEW p, NEW c \in Alive(s, p)
  PROVE  c \in DOMAIN survivor /\ c \in Nat /\ c # 0
BY DEF Alive

LEMMA StatementEffect ==
  ASSUME TypeOK, NEW s \in Server, Statement(s)
  PROVE  /\ queue' \in Queues /\ queue[s] # <<>> /\ process[s] = "up"
         /\ UNCHANGED <<process, history>>
         /\ pc' = [pc EXCEPT ![s] = pc'[s]]
         /\ GoneOn(s) \/ Over(s)
<1>1. /\ queue \in Queues /\ pc \in [Server -> Statements] /\ survivor \in Seq(RowSet)
  BY TypeParts DEF TablesTyped, ServersTyped
<1>2. \A op, here : Executing(s, op, here) =>
        /\ queue[s] # <<>> /\ process[s] = "up" /\ UNCHANGED <<process, history>>
        /\ pc[s] = here
        /\ ThisCall(s) = queue[s][1] /\ queue[s][1].op = op /\ queue[s][1].p \in Player
        /\ queue[s][1].c \in Nat
  BY <1>1, NextCall DEF Executing, CallSet
<1>3. \A there : GoesOn(s, there) => Stays /\ pc' = [pc EXCEPT ![s] = there] /\ pc'[s] = there
                                     /\ queue' \in Queues
  BY <1>1 DEF GoesOn, Stays
<1>4. queue[s] # <<>> /\ Finishes(s) =>
        Moved(s, 1, <<>>) /\ pc' = [pc EXCEPT ![s] = "start"] /\ pc'[s] = "start" /\ queue' \in Queues
  BY <1>1, MovedShort DEF Finishes
<1>5. queue[s] # <<>> /\ Returns(s) /\ queue[s][1].op # "loadPlayer" =>
        Over(s) /\ pc' = [pc EXCEPT ![s] = "start"] /\ queue' \in Queues
  BY <1>4 DEF Returns, Over, Returned
<1>6. ASSUME NEW p, p = queue[s][1].p, NEW c \in Alive(s, p), NEW active,
             \/ Executing(s, "loadPlayer", "selectCharacter") /\ active = survivor[c].activeserver
             \/ Executing(s, "loadPlayer", "selectNew"),
             Answers(s, p, c, active), UNCHANGED survivor
      PROVE  Over(s) /\ pc' = [pc EXCEPT ![s] = "start"] /\ queue' \in Queues
  <2>1. c \in DOMAIN survivor /\ c \in Nat /\ c # 0 /\ p \in Player
    BY <1>1, <1>2, <1>6, Found
  <2>2. pc[s] \in {"selectCharacter", "selectNew"} /\ queue[s] # <<>> /\ queue[s][1].op = "loadPlayer"
        /\ (pc[s] = "selectCharacter" => active = survivor[c].activeserver)
    BY <1>2, <1>6
  <2>3. /\ queue' \in Queues /\ pc' = [pc EXCEPT ![s] = "start"]
        /\ Returned(s) \/ Refused(s, p) \/ Accepted(s, p, c)
    BY <1>6, <2>1, <2>2, AnswersEffect DEF Accepted
  <2> QED
    BY <1>1, <2>1, <2>3 DEF Over
<1>7. ASSUME NEW p, p = queue[s][1].p,
             \E here : Executing(s, "loadPlayer", here),
             Answers(s, p, 0, NoServer), UNCHANGED survivor
      PROVE  Over(s) /\ pc' = [pc EXCEPT ![s] = "start"] /\ queue' \in Queues
  <2>2. queue[s] # <<>> /\ queue[s][1].op = "loadPlayer" /\ p \in Player
    BY <1>2, <1>7
  <2>3. /\ queue' \in Queues /\ pc' = [pc EXCEPT ![s] = "start"]
        /\ Returned(s) \/ Refused(s, p)
    BY <1>7, <2>2, AnswersEffect
  <2> QED
    BY <1>1, <2>2, <2>3 DEF Over
<1> USE DEF LoadSteps
<1>8. CASE SelectProfile(s)
  BY <1>1, <1>2, <1>3, <1>8 DEF SelectProfile, GoneOn
<1>9. CASE InsertProfile(s)
  BY <1>1, <1>2, <1>3, <1>7, <1>9 DEF InsertProfile, GoneOn
<1>10. CASE SelectCharacter(s)
  <2>1. CASE \E c \in Alive(s, ThisCall(s).p) : Answers(s, ThisCall(s).p, c, survivor[c].activeserver)
    BY <1>1, <1>2, <1>6, <1>10, <2>1 DEF SelectCharacter, tables
  <2> QED
    BY <1>1, <1>2, <1>3, <1>10, <2>1 DEF SelectCharacter, GoneOn
<1>11. CASE InsertCharacter(s)
  BY <1>1, <1>2, <1>3, <1>11 DEF InsertCharacter, GoneOn
<1>12. CASE SelectNew(s)
  <2>1. CASE \E c \in Alive(s, ThisCall(s).p) : Answers(s, ThisCall(s).p, c, NoServer)
    BY <1>1, <1>2, <1>6, <1>12, <2>1 DEF SelectNew, tables
  <2>2. CASE Answers(s, ThisCall(s).p, 0, NoServer)
    BY <1>1, <1>2, <1>7, <1>12, <2>2 DEF SelectNew, tables
  <2> QED
    BY <1>12, <2>1, <2>2 DEF SelectNew
<1>13. CASE ClaimCharacter(s)
  <2>1. Executing(s, "loadCharacterDetails", "start") /\ Finishes(s)
    BY <1>13 DEF ClaimCharacter, Told
  <2>2. UNCHANGED session \/ \E p \in Player :
          /\ p = ThisCall(s).p /\ at[p] = s /\ phase[p] = "details" /\ id[p] = ThisCall(s).c
          /\ phase' = [phase EXCEPT ![p] = "playing"] /\ UNCHANGED <<at, id>>
    BY <1>2, <2>1, <1>13 DEF ClaimCharacter, Told
  <2>3. Over(s)
    BY <1>2, <1>4, <1>13, <2>1, <2>2 DEF Over, Returned, Entered
  <2> QED
    BY <1>1, <1>2, <1>4, <2>1, <2>3
<1>14. CASE SaveCharacter(s) \/ KillCharacter(s)
  BY <1>1, <1>2, <1>5, <1>14 DEF SaveCharacter, KillCharacter
<1>16. CASE ReleasePlayer(s)
  BY <1>1, <1>5, <1>16, NextCall DEF ReleasePlayer, Releasing
<1>15. CASE CountDeath(s) \/ ReleaseCharacter(s)
  BY <1>1, <1>2, <1>3, <1>15 DEF CountDeath, ReleaseCharacter, GoneOn
<1> QED
  BY <1>8, <1>9, <1>10, <1>11, <1>12, <1>13, <1>14, <1>15, <1>16 DEF Statement

(* A statement fails: the call is over. *)
LEMMA FailEffect ==
  ASSUME TypeOK, NEW s \in Server, Fail(s)
  PROVE  /\ queue' \in Queues /\ queue[s] # <<>> /\ process[s] = "up"
         /\ queue[s][1].p \in Player /\ ThisCall(s) = queue[s][1]
         /\ UNCHANGED <<tables, process, joins, crashes, hurried>>
         /\ pc' = [pc EXCEPT ![s] = pc'[s]] /\ Over(s)
<1>1. /\ queue \in Queues /\ pc \in [Server -> Statements]
  BY TypeParts DEF ServersTyped
<1>2. /\ queue[s] # <<>> /\ process[s] = "up" /\ UNCHANGED <<tables, process, joins, crashes, hurried>>
  BY DEF Fail
<1>3. /\ ThisCall(s) = queue[s][1] /\ queue[s][1].p \in Player /\ UNCHANGED survivor
  BY <1>1, <1>2, NextCall DEF CallSet, ThisCall, tables
<1>4. Finishes(s) =>
        Moved(s, 1, <<>>) /\ pc' = [pc EXCEPT ![s] = "start"] /\ pc'[s] = "start" /\ queue' \in Queues
  BY <1>1, <1>2, MovedShort DEF Finishes
<1>5. CASE ThisCall(s).op = "loadPlayer" /\ Answers(s, ThisCall(s).p, 0, NoServer)
  <2>1. queue' \in Queues /\ pc' = [pc EXCEPT ![s] = "start"] /\ (Returned(s) \/ Refused(s, queue[s][1].p))
    BY <1>2, <1>3, <1>5, AnswersEffect
  <2> QED
    BY <1>1, <1>2, <1>3, <2>1 DEF Over
<1>6. CASE ThisCall(s).op = "loadCharacterDetails" /\ Told(s, "refused")
  <2>1. Finishes(s)
    BY <1>6 DEF Told
  <2>2. UNCHANGED session \/ \E p \in Player :
          /\ p = ThisCall(s).p /\ at[p] = s /\ phase[p] = "details" /\ id[p] = ThisCall(s).c
          /\ phase' = [phase EXCEPT ![p] = "refused"] /\ UNCHANGED <<at, id>>
    BY <1>3, <1>6 DEF Told
  <2>3. Over(s)
    BY <1>3, <1>4, <1>6, <2>1, <2>2 DEF Over, Returned, Denied
  <2> QED
    BY <1>2, <1>3, <1>4, <2>1, <2>3
<1>7. CASE ThisCall(s).op \notin {"loadPlayer", "loadCharacterDetails"} /\ Returns(s)
  <2>1. Finishes(s) /\ UNCHANGED session
    BY <1>7 DEF Returns
  <2>2. Over(s)
    BY <1>3, <1>4, <1>7, <2>1 DEF Over, Returned
  <2> QED
    BY <1>2, <1>3, <1>4, <2>1, <2>2
<1> QED
  BY <1>5, <1>6, <1>7 DEF Fail

LEMMA CallsEffect ==
  ASSUME TypeOK, NEW s \in Server, NEW new \in Seq(CallSet), Calls(s, new)
  PROVE  queue' \in Queues /\ Moved(s, 0, new) /\ UNCHANGED <<tables, pc, process, crashes, failures, torn, lost>>
<1>1. queue \in Queues
  BY TypeParts DEF ServersTyped
<1> QED
  BY <1>1, MovedLong DEF Calls

LEMMA BecomesEffect ==
  ASSUME TypeOK, NEW p \in Player, NEW s, NEW ph, NEW c, Becomes(p, s, ph, c)
  PROVE  /\ at'[p] = s /\ phase'[p] = ph /\ id'[p] = c
         /\ \A q \in Player : q # p => at'[q] = at[q] /\ phase'[q] = phase[q] /\ id'[q] = id[q]
BY TypeParts DEF SessionTyped, Becomes

(* A player who is on a server is on one that is up. *)
LEMMA Present ==
  ASSUME TypeOK, Executes, NEW p \in Player, phase[p] # "away"
  PROVE  /\ at[p] \in Server /\ process[at[p]] = "up"
BY TypeParts DEF SessionTyped, ServersTyped, Executes

LEMMA NewCallsTyped ==
  ASSUME TypeOK, NEW p \in Player
  PROVE  /\ Call("loadPlayer", p, 0) \in CallSet /\ Call("playerUpdate", p, id[p]) \in CallSet
         /\ Call("playerDeath", p, id[p]) \in CallSet /\ Call("playerDisconnected", p, 0) \in CallSet
         /\ Call("playerActiveServer", p, id[p]) \in CallSet
<1>1. id[p] \in Nat
  BY TypeParts DEF SessionTyped, TablesTyped
<1> QED
  BY <1>1, CallTyped DEF Ops

LEMMA NewCalls ==
  ASSUME TypeOK, NEW p \in Player
  PROVE  /\ <<Call("loadPlayer", p, 0)>> \in Seq(CallSet)
         /\ <<Call("playerUpdate", p, id[p])>> \in Seq(CallSet)
         /\ \A n \in 1..2 : [i \in 1..n |-> Call("playerDeath", p, id[p])] \in Seq(CallSet)
         /\ <<Call("playerDisconnected", p, 0)>> \in Seq(CallSet)
         /\ <<Call("playerActiveServer", p, id[p]), Call("playerDisconnected", p, 0)>> \in Seq(CallSet)
<1>3. ASSUME NEW x \in CallSet, NEW y \in CallSet
      PROVE  /\ <<x>> \in Seq(CallSet) /\ <<x, y>> \in Seq(CallSet)
             /\ \A n \in 1..2 : [i \in 1..n |-> x] \in Seq(CallSet)
  OBVIOUS
<1> QED
  BY <1>3, NewCallsTyped

LEMMA ConcatPair ==
  ASSUME NEW S, NEW x \in S, NEW y \in S
  PROVE  <<x>> \o <<y>> = <<x, y>>
<1>1. ASSUME NEW a \in Seq(S), NEW b \in Seq(S)
      PROVE  /\ a \o b \in Seq(S) /\ Len(a \o b) = Len(a) + Len(b)
             /\ \A i \in 1..Len(a) : (a \o b)[i] = a[i]
             /\ \A i \in 1..(Len(a) + Len(b)) : i > Len(a) => (a \o b)[i] = b[i - Len(a)]
  OBVIOUS
<1>2. <<x>> \in Seq(S) /\ <<y>> \in Seq(S) /\ Len(<<x>>) = 1 /\ Len(<<y>>) = 1 /\ <<x>>[1] = x /\ <<y>>[1] = y
  OBVIOUS
<1>3. ASSUME NEW q \in Seq(S), Len(q) = 2, q[1] = x, q[2] = y PROVE q = <<x, y>>
  BY <1>3
<1> DEFINE a == <<x>>
           b == <<y>>
<1> HIDE DEF a, b
<1>4. /\ a \in Seq(S) /\ b \in Seq(S) /\ Len(a) = 1 /\ Len(b) = 1 /\ a[1] = x /\ b[1] = y
  BY <1>2 DEF a, b
<1>5. /\ a \o b \in Seq(S) /\ Len(a \o b) = 2 /\ (a \o b)[1] = x /\ (a \o b)[2] = y
  BY <1>1, <1>4
<1>6. a \o b = <<x, y>>
  BY <1>3, <1>5
<1> QED
  BY <1>6 DEF a, b

LEMMA ScriptEffect ==
  ASSUME TypeOK, Executes, NEW p \in Player
  PROVE  /\ \A s \in Server : Join(p, s) => AskedLoad(p, s)
         /\ AskAgain(p) => AskedLoad(p, at[p]) /\ UNCHANGED hurried
         /\ Respawn(p) => AskedLoad(p, at[p]) /\ UNCHANGED hurried
         /\ Save(p) => AskedSave(p, at[p]) /\ UNCHANGED hurried
         /\ Die(p) => (\E n \in 1..2 : AskedDeath(p, at[p], n)) /\ UNCHANGED hurried
         /\ Leave(p) => (\E new : AskedLeave(p, at[p], new)) /\ UNCHANGED hurried
<1> DEFINE load == <<Call("loadPlayer", p, 0)>>
           save == <<Call("playerUpdate", p, id[p])>>
           death(n) == [i \in 1..n |-> Call("playerDeath", p, id[p])]
           gone == <<Call("playerDisconnected", p, 0)>>
           free == <<Call("playerActiveServer", p, id[p]), Call("playerDisconnected", p, 0)>>
<1>1. /\ load \in Seq(CallSet) /\ save \in Seq(CallSet) /\ gone \in Seq(CallSet) /\ free \in Seq(CallSet)
      /\ \A n \in 1..2 : death(n) \in Seq(CallSet)
  BY NewCalls
<1>2. /\ \A k \in DOMAIN load : load[k].p = p
      /\ \A k \in DOMAIN save : save[k].p = p
      /\ \A k \in DOMAIN gone : gone[k].p = p
      /\ \A k \in DOMAIN free : free[k].p = p
      /\ \A n \in 1..2 : \A k \in DOMAIN death(n) : death(n)[k].p = p
  BY DEF Call
<1>3. <<Call("playerActiveServer", p, id[p])>> \o gone = free
  <2>1. ASSUME NEW S, NEW x \in S, NEW y \in S PROVE <<x>> \o <<y>> = <<x, y>>
    BY ConcatPair
  <2>2. Call("playerActiveServer", p, id[p]) \in CallSet /\ Call("playerDisconnected", p, 0) \in CallSet
    BY NewCallsTyped
  <2> QED
    BY <2>1, <2>2
<1> HIDE DEF load, save, death, gone, free
<1>4. ASSUME NEW s \in Server, Join(p, s) PROVE AskedLoad(p, s)
  <2>3. Calls(s, load) /\ Becomes(p, s, "loading", 0) /\ process[s] = "up"
    BY <1>4 DEF Join, load
  <2>1. Asked(p, s, load)
    BY <1>1, <1>2, <2>3, CallsEffect, BecomesEffect DEF Asked
  <2>2. ~hurried' => \A t \in Server : t # s => \A i \in DOMAIN queue[t] :
                         queue[t][i].op \in Loads => queue[t][i].p # p
    BY <1>4, Zenon DEF Join, Pending, Loads
  <2> QED
    BY <1>4, <2>1, <2>2, <2>3, BecomesEffect DEF Join, AskedLoad, load
<1>5. ASSUME AskAgain(p) \/ Respawn(p) PROVE AskedLoad(p, at[p]) /\ UNCHANGED hurried
  <2>1. at[p] \in Server /\ process[at[p]] = "up"
    BY <1>5, Present DEF AskAgain, Respawn
  <2>2. Calls(at[p], load) /\ Becomes(p, at[p], "loading", 0)
    BY <1>5 DEF AskAgain, Respawn, load
  <2>3. Asked(p, at[p], load)
    BY <1>1, <1>2, <2>1, <2>2, CallsEffect, BecomesEffect DEF Asked
  <2> QED
    BY <1>5, <2>2, <2>3, BecomesEffect DEF AskAgain, Respawn, AskedLoad, load
<1>6. ASSUME Save(p) PROVE AskedSave(p, at[p]) /\ UNCHANGED hurried
  <2>1. at[p] \in Server /\ process[at[p]] = "up"
    BY <1>6, Present DEF Save
  <2>2. Calls(at[p], save) /\ UNCHANGED session
    BY <1>6 DEF Save, save
  <2>3. Asked(p, at[p], save)
    BY <1>1, <1>2, <2>1, <2>2, CallsEffect DEF Asked, session
  <2> QED
    BY <1>6, <2>2, <2>3 DEF Save, AskedSave, save
<1>7. ASSUME Die(p) PROVE (\E n \in 1..2 : AskedDeath(p, at[p], n)) /\ UNCHANGED hurried
  <2>1. at[p] \in Server /\ process[at[p]] = "up"
    BY <1>7, Present DEF Die
  <2>2. PICK n \in 1..2 : Calls(at[p], death(n))
    BY <1>7 DEF Die, death
  <2>3. Becomes(p, at[p], "dead", id[p])
    BY <1>7 DEF Die
  <2>4. Asked(p, at[p], death(n))
    BY <1>1, <1>2, <2>1, <2>2, <2>3, CallsEffect, BecomesEffect DEF Asked
  <2>5. AskedDeath(p, at[p], n)
    BY <1>7, <2>3, <2>4, BecomesEffect DEF Die, AskedDeath, death
  <2> QED
    BY <1>7, <2>5 DEF Die
<1>8. ASSUME Leave(p) PROVE (\E new : AskedLeave(p, at[p], new)) /\ UNCHANGED hurried
  <2>1. at[p] \in Server /\ process[at[p]] = "up"
    BY <1>8, TypeParts DEF Leave, SessionTyped, ServersTyped, Executes
  <2>2. Becomes(p, NoServer, "away", 0)
    BY <1>8 DEF Leave
  <2>3. Calls(at[p], gone) \/ (phase[p] = "playing" /\ Calls(at[p], free))
    BY <1>3, <1>8 DEF Leave, gone
  <2>4. Asked(p, at[p], gone) \/ (phase[p] = "playing" /\ Asked(p, at[p], free))
    BY <1>1, <1>2, <2>1, <2>2, <2>3, CallsEffect, BecomesEffect DEF Asked
  <2>5. AskedLeave(p, at[p], gone) \/ AskedLeave(p, at[p], free)
    BY <2>2, <2>4, BecomesEffect DEF AskedLeave, gone, free
  <2> QED
    BY <1>8, <2>5 DEF Leave
<1> QED
  BY <1>4, <1>5, <1>6, <1>7, <1>8
----------------------------------------------------------------------------
(* No row goes, or changes its owner. *)
RowsStay ==
  /\ survivor' \in Seq(RowSet) /\ Len(survivor') >= Len(survivor) /\ Len(survivor') \in Nat
  /\ DOMAIN survivor \subseteq DOMAIN survivor'
  /\ \A c \in DOMAIN survivor : SameOwner(survivor[c], survivor'[c])

(* The character of the call that is executed. *)
LEMMA ItsCharacter ==
  ASSUME TypeOK, Owned, NEW s \in Server,
         ClaimCharacter(s) \/ CountDeath(s) \/ KillCharacter(s) \/ ReleaseCharacter(s)
  PROVE  /\ queue[s] # <<>> /\ 1 \in DOMAIN queue[s] /\ ThisCall(s) = queue[s][1]
         /\ ThisCall(s).c \in DOMAIN survivor /\ ThisCall(s).p \in Player
         /\ survivor[ThisCall(s).c].unique_id = ThisCall(s).p
<1>1. queue[s] # <<>> /\ ThisCall(s).op \in {"loadCharacterDetails", "playerDeath", "playerActiveServer"}
  BY DEF ClaimCharacter, CountDeath, KillCharacter, ReleaseCharacter, Executing, ThisCall
<1>2. ThisCall(s) = queue[s][1] /\ 1 \in DOMAIN queue[s] /\ queue[s][1] \in CallSet
  BY <1>1, TypeParts, NextCall DEF ServersTyped
<1> QED
  BY <1>1, <1>2 DEF Owned, Owners, CallSet

LEMMA RowsStayed ==
  ASSUME TypeOK, Owned, [Next]_vars
  PROVE  RowsStay
<1>1. survivor \in Seq(RowSet)
  BY TypeParts DEF TablesTyped
<1>2. \A c \in DOMAIN survivor : survivor[c] \in RowSet
  BY <1>1
<1>3. Len(survivor) \in Nat
  BY <1>1
<1>4. UNCHANGED survivor => RowsStay
  BY <1>1, <1>2, <1>3 DEF RowsStay, SameOwner
<1>5. ASSUME NEW s \in Server, ClaimCharacter(s) PROVE RowsStay
  <2> DEFINE c == ThisCall(s).c
  <2>1. c \in DOMAIN survivor
    BY <1>5, ItsCharacter
  <2>2. SameOwner(survivor[c], Claimed(survivor[c], s))
    BY <1>2, <2>1, RowChanged
  <2> HIDE DEF c
  <2>3. ThisCall(s).c = c
    BY DEF c
  <2> QED
    BY <1>1, <1>2, <1>3, <1>5, <2>1, <2>2, <2>3, ClaimEffect DEF RowsStay, SameOwner
<1>6. ASSUME NEW s \in Server, KillCharacter(s) PROVE RowsStay
  <2> DEFINE c == ThisCall(s).c
  <2>1. c \in DOMAIN survivor
    BY <1>6, ItsCharacter
  <2>2. SameOwner(survivor[c], Killed(survivor[c]))
    BY <1>2, <2>1, RowChanged
  <2> HIDE DEF c
  <2>3. ThisCall(s).c = c
    BY DEF c
  <2> QED
    BY <1>1, <1>2, <1>3, <1>6, <2>1, <2>2, <2>3, KillEffect DEF RowsStay, SameOwner
<1>7. ASSUME NEW s \in Server, ReleaseCharacter(s) \/ ReleasePlayer(s) PROVE RowsStay
  <2>1. PICK R : survivor' = Released(R)
    BY <1>7, Zenon DEF ReleaseCharacter, ReleasePlayer
  <2>2. \A c \in DOMAIN survivor : SameOwner(survivor[c], Freed(survivor[c]))
    BY <1>2, RowChanged
  <2> QED
    BY <1>1, <1>2, <1>3, <2>1, <2>2, ReleaseEffect DEF RowsStay, SameOwner
<1>8. ASSUME NEW s \in Server, ResetGhosting(s) PROVE RowsStay
  <2>2. \A c \in DOMAIN survivor : SameOwner(survivor[c], Reset(survivor[c]))
    BY <1>2, <1>8, RowChanged
  <2> QED
    BY <1>1, <1>2, <1>3, <1>8, <2>2, ResetEffect DEF RowsStay, SameOwner
<1>9. ASSUME NEW s \in Server, InsertCharacter(s) PROVE RowsStay
  <2>1. queue[s] # <<>>
    BY <1>9 DEF InsertCharacter, Executing
  <2>2. ThisCall(s).p \in Player
    BY <2>1, TypeParts, NextCall DEF ServersTyped, CallSet
  <2>3. Row(ThisCall(s).p, s) \in RowSet /\ survivor' = Append(survivor, Row(ThisCall(s).p, s))
    BY <1>9, <2>2, RowTyped DEF InsertCharacter
  <2> QED
    BY <1>1, <1>2, <1>3, <2>3, InsertEffect DEF RowsStay, SameOwner
<1>10. ASSUME NEW s \in Server,
             \/ SelectProfile(s) \/ InsertProfile(s) \/ SelectCharacter(s) \/ SelectNew(s)
             \/ SaveCharacter(s) \/ CountDeath(s)
       PROVE UNCHANGED survivor
  BY <1>10 DEF SelectProfile, InsertProfile, SelectCharacter, SelectNew, SaveCharacter, CountDeath, tables
<1>11. ASSUME NEW p \in Player,
             \/ \E s \in Server : Join(p, s)
             \/ AskAgain(p) \/ Save(p) \/ Die(p) \/ Respawn(p) \/ Leave(p)
       PROVE UNCHANGED survivor
  BY <1>11 DEF Join, AskAgain, Save, Die, Respawn, Leave, Calls, tables
<1>12. ASSUME NEW s \in Server, Crash(s) \/ Fail(s) \/ Boot(s) \/ FailToReset(s) PROVE UNCHANGED survivor
  BY <1>12 DEF Crash, Fail, Boot, FailToReset, tables
<1>13. CASE Quiet \/ UNCHANGED vars
  BY <1>4, <1>13 DEF Quiet, vars, tables
<1> QED
  BY <1>4, <1>5, <1>6, <1>7, <1>8, <1>9, <1>10, <1>11, <1>12, <1>13 DEF Next, Statement
----------------------------------------------------------------------------
(* Types. *)
Starts(s) == Boot(s) \/ FailToReset(s)

Asks(p) == (\E s \in Server : Join(p, s)) \/ AskAgain(p) \/ Save(p) \/ Die(p) \/ Respawn(p) \/ Leave(p)

LEMMA TypePartsNext ==
  TypeOK' <=> (SessionTyped /\ ServersTyped /\ TablesTyped /\ HistoryTyped /\ LostTyped)'
BY TypeParts, PTL

LEMMA NextCases ==
  ASSUME [Next]_vars
  PROVE  \/ \E s \in Server : Statement(s) \/ Fail(s) \/ Crash(s) \/ ResetGhosting(s) \/ Starts(s)
         \/ \E p \in Player : Asks(p)
         \/ UNCHANGED vars
BY DEF Next, Quiet, Asks, Starts

(* A server is booted, or fails to reset its claims. *)
LEMMA StartsEffect ==
  ASSUME TypeOK, NEW s \in Server, Starts(s)
  PROVE  /\ UNCHANGED <<tables, queue, pc, session, joins, crashes, torn, hurried>>
         /\ process[s] # "up" /\ process' \in [Server -> {"down", "booted", "up"}]
         /\ \A t \in Server : t # s => process'[t] = process[t]
         /\ \/ process'[s] = "booted" /\ UNCHANGED lost
            \/ process'[s] = "up" /\ lost' = lost \union ({s} \X Player)
BY TypeParts DEF Starts, Boot, FailToReset, ServersTyped, history

(* The releases that have failed. *)
LEMMA StatementLost ==
  ASSUME TypeOK, NEW s \in Server, Statement(s)
  PROVE  \/ UNCHANGED lost
         \/ ReleasePlayer(s) /\ lost' = lost \ {<<s, queue[s][1].p>>}
<1>1. \A op, here : Executing(s, op, here) => UNCHANGED lost
  BY DEF Executing
<1>2. CASE ReleasePlayer(s)
  <2>1. queue[s] # <<>> /\ lost' = lost \ {<<s, ThisCall(s).p>>}
    BY <1>2 DEF ReleasePlayer, Releasing
  <2>2. ThisCall(s) = queue[s][1]
    BY <2>1, NextCall, TypeParts DEF ServersTyped
  <2> QED
    BY <1>2, <2>1, <2>2
<1> QED
  BY <1>1, <1>2 DEF Statement, SelectProfile, InsertProfile, SelectCharacter, InsertCharacter, SelectNew,
       ClaimCharacter, SaveCharacter, CountDeath, KillCharacter, ReleaseCharacter

LEMMA LostKept == TypeOK /\ [Next]_vars => LostTyped'
<1> SUFFICES ASSUME TypeOK, [Next]_vars PROVE LostTyped'
  OBVIOUS
<1>0. lost \subseteq Server \X Player
  BY TypeParts DEF LostTyped
<1>1. ASSUME NEW s \in Server, Statement(s) PROVE LostTyped'
  BY <1>0, <1>1, StatementLost DEF LostTyped
<1>2. ASSUME NEW s \in Server, Fail(s) PROVE LostTyped'
  <2>1. <<s, ThisCall(s).p>> \in Server \X Player
    BY <1>2, FailEffect
  <2>2. lost' \subseteq lost \union {<<s, ThisCall(s).p>>}
    BY <1>2 DEF Fail
  <2> QED
    BY <1>0, <2>1, <2>2 DEF LostTyped
<1>3. ASSUME NEW s \in Server, Crash(s) \/ ResetGhosting(s) PROVE LostTyped'
  BY <1>0, <1>3 DEF Crash, ResetGhosting, LostTyped
<1>4. ASSUME NEW s \in Server, Starts(s) PROVE LostTyped'
  BY <1>0, <1>4, StartsEffect DEF LostTyped
<1>5. ASSUME NEW p \in Player, Asks(p) PROVE LostTyped'
  BY <1>0, <1>5 DEF Asks, Join, AskAgain, Save, Die, Respawn, Leave, Calls, LostTyped
<1>6. CASE UNCHANGED vars
  BY <1>0, <1>6 DEF vars, LostTyped
<1> QED
  BY <1>1, <1>2, <1>3, <1>4, <1>5, <1>6, NextCases

LEMMA AsksTyped ==
  ASSUME TypeOK, Executes, NEW p \in Player, Asks(p)
  PROVE  /\ queue' \in Queues /\ SessionTyped'
         /\ UNCHANGED <<tables, pc, process, crashes, failures, torn, lost>>
<1>0. UNCHANGED <<tables, pc, process, crashes, failures, torn, lost>>
  BY DEF Asks, Join, AskAgain, Save, Die, Respawn, Leave, Calls
<1>1. survivor \in Seq(RowSet) /\ Len(survivor) \in Nat
  BY TypeParts DEF TablesTyped
<1>2. \E s \in Server, new \in Seq(CallSet) : Calls(s, new)
  <2>1. CASE \E s \in Server : Join(p, s)
    BY <2>1, NewCalls DEF Join
  <2>2. CASE AskAgain(p) \/ Respawn(p)
    BY <2>2, NewCalls, Present DEF AskAgain, Respawn
  <2>3. CASE Save(p)
    BY <2>3, NewCalls, Present DEF Save
  <2>4. CASE Die(p)
    BY <2>4, NewCalls, Present DEF Die
  <2>5. CASE Leave(p)
    <3>1. at[p] \in Server
      BY <2>5, TypeParts DEF Leave, SessionTyped
    <3>2. \E new \in Seq(CallSet) : Calls(at[p], new)
      <4>1. /\ Call("playerDisconnected", p, 0) \in CallSet /\ Call("playerActiveServer", p, id[p]) \in CallSet
        BY NewCallsTyped
      <4>2. <<Call("playerActiveServer", p, id[p])>> \o <<Call("playerDisconnected", p, 0)>> =
            <<Call("playerActiveServer", p, id[p]), Call("playerDisconnected", p, 0)>>
        BY <4>1, ConcatPair
      <4> QED
        BY <2>5, <4>2, NewCalls DEF Leave
    <3> QED
      BY <3>1, <3>2
  <2> QED
    BY <2>1, <2>2, <2>3, <2>4, <2>5 DEF Asks
<1>3. queue' \in Queues
  BY <1>2, CallsEffect
<1>4. UNCHANGED session \/ \E s \in Server \union {NoServer}, c \in 0..Len(survivor),
           ph \in {"away", "loading", "refused", "details", "playing", "dead"} : Becomes(p, s, ph, c)
  <2>1. id[p] \in 0..Len(survivor) /\ 0 \in 0..Len(survivor) /\ at[p] \in Server \union {NoServer}
    BY <1>1, TypeParts DEF SessionTyped
  <2> QED
    BY <2>1 DEF Asks, Join, AskAgain, Save, Die, Respawn, Leave
<1>5. SessionTyped'
  <2>1. CASE UNCHANGED session
    BY <1>0, <2>1, TypeParts DEF SessionTyped, session, tables
  <2>2. CASE ~UNCHANGED session
    <3>1. PICK s \in Server \union {NoServer}, c \in 0..Len(survivor),
           ph \in {"away", "loading", "refused", "details", "playing", "dead"} : Becomes(p, s, ph, c)
      BY <1>4, <2>2
    <3>2. survivor' = survivor
      BY <1>0 DEF tables
    <3> QED
      BY <1>1, <3>1, <3>2, TypeParts DEF Becomes, SessionTyped
  <2> QED
    BY <2>1, <2>2
<1> QED
  BY <1>0, <1>3, <1>5

(* A session after a statement, whether it fails or not. *)
LEMMA StepSession ==
  ASSUME TypeOK, NEW s \in Server, GoneOn(s) \/ Over(s), RowsStay
  PROVE  SessionTyped'
<1>3. /\ survivor \in Seq(RowSet) /\ Len(survivor) \in Nat /\ Len(survivor') \in Nat
      /\ Len(survivor') >= Len(survivor)
      /\ DOMAIN survivor = 1..Len(survivor)
  BY TypeParts DEF TablesTyped, RowsStay
<1>4. \A q \in Player : id[q] \in 0..Len(survivor')
  BY <1>3, TypeParts DEF SessionTyped
<1>5. \A c \in DOMAIN survivor : c \in 0..Len(survivor')
  BY <1>3
<1>6. SessionTyped'
  <2>1. \/ UNCHANGED session
        \/ UNCHANGED <<at, id>> /\ \E p \in Player, ph \in {"refused", "playing"} : phase' = [phase EXCEPT ![p] = ph]
        \/ /\ UNCHANGED at
           /\ \E p \in Player, c \in DOMAIN survivor : /\ phase' = [phase EXCEPT ![p] = "details"]
                                                       /\ id' = [id EXCEPT ![p] = c]
    <3>1. CASE GoneOn(s) \/ Returned(s)
      BY <3>1 DEF GoneOn, Stays, Returned
    <3>2. ASSUME NEW p \in Player, Refused(s, p) \/ Denied(s, p) \/ Entered(s, p)
          PROVE  UNCHANGED <<at, id>> /\ \E ph \in {"refused", "playing"} : phase' = [phase EXCEPT ![p] = ph]
      BY <3>2 DEF Refused, Denied, Entered, Answered
    <3>3. ASSUME NEW p \in Player, NEW c \in DOMAIN survivor, Accepted(s, p, c)
          PROVE  /\ UNCHANGED at
                 /\ phase' = [phase EXCEPT ![p] = "details"] /\ id' = [id EXCEPT ![p] = c]
      BY <3>3 DEF Accepted, Answered
    <3> QED
      BY <3>1, <3>2, <3>3 DEF Over
  <2> QED
    BY <1>4, <1>5, <2>1, TypeParts DEF SessionTyped, session
<1> QED
  BY <1>6

LEMMA StatementTyped ==
  ASSUME TypeOK, Owned, NEW s \in Server, Statement(s), RowsStay
  PROVE  ServersTyped' /\ SessionTyped' /\ TablesTyped'
<1>1. /\ queue' \in Queues /\ UNCHANGED process /\ pc' = [pc EXCEPT ![s] = pc'[s]]
      /\ pc'[s] \in Statements
  BY StatementEffect DEF GoneOn, Over, LoadSteps, Statements
<1>2. ServersTyped'
  BY <1>1, TypeParts DEF ServersTyped
<1>6. SessionTyped'
  BY StatementEffect, StepSession
<1>7. TablesTyped'
  <2>1. survivor' \in Seq(RowSet)
    BY DEF RowsStay
  <2>2. profile' \subseteq Player /\ attempts' \in [Player -> Nat]
    <3>1. queue[s] # <<>> => ThisCall(s).p \in Player
      BY TypeParts, NextCall DEF ServersTyped, CallSet
    <3>2. \/ UNCHANGED <<profile, attempts>>
          \/ InsertProfile(s) \/ CountDeath(s)
      BY DEF Statement, SelectProfile, SelectCharacter, SelectNew, SaveCharacter, KillCharacter, tables,
             InsertCharacter, ClaimCharacter, ReleaseCharacter, ReleasePlayer
    <3>3. CASE UNCHANGED <<profile, attempts>>
      BY <3>3, TypeParts DEF TablesTyped
    <3>4. CASE InsertProfile(s)
      BY <3>1, <3>4, TypeParts DEF InsertProfile, Executing, TablesTyped
    <3>5. CASE CountDeath(s)
      <4>1. attempts' = attempts \/ attempts' = [attempts EXCEPT ![ThisCall(s).p] = @ + 1]
        BY <3>5 DEF CountDeath
      <4>2. UNCHANGED profile /\ ThisCall(s).p \in Player
        BY <3>1, <3>5 DEF CountDeath, Executing
      <4> QED
        BY <4>1, <4>2, TypeParts DEF TablesTyped
    <3> QED
      BY <3>2, <3>3, <3>4, <3>5
  <2> QED
    BY <2>1, <2>2 DEF TablesTyped
<1> QED
  BY <1>2, <1>6, <1>7

LEMMA FailTyped ==
  ASSUME TypeOK, NEW s \in Server, Fail(s), RowsStay
  PROVE  ServersTyped' /\ SessionTyped' /\ TablesTyped'
<1>1. /\ queue' \in Queues /\ UNCHANGED <<tables, process>> /\ pc' = [pc EXCEPT ![s] = pc'[s]]
      /\ pc'[s] \in Statements /\ Over(s)
  BY FailEffect DEF Over, Statements
<1>2. ServersTyped'
  BY <1>1, TypeParts DEF ServersTyped
<1>3. SessionTyped'
  BY <1>1, StepSession
<1>4. TablesTyped'
  BY <1>1, TypeParts DEF TablesTyped, tables
<1> QED
  BY <1>2, <1>3, <1>4

LEMMA CrashTyped ==
  ASSUME TypeOK, NEW s \in Server, Crash(s)
  PROVE  ServersTyped' /\ SessionTyped' /\ TablesTyped'
<1>1. queue' \in Queues
  <2>1. <<>> \in Seq(CallSet)
    OBVIOUS
  <2> QED
    BY <2>1, TypeParts DEF ServersTyped, Queues, Crash
<1>2. ServersTyped'
  BY <1>1, TypeParts DEF ServersTyped, Crash, Statements
<1>3. TablesTyped' /\ survivor' = survivor
  BY TypeParts DEF TablesTyped, Crash, tables
<1>4. \A q \in Player : id[q] \in 0..Len(survivor') /\ 0 \in 0..Len(survivor')
  BY <1>3, TypeParts DEF SessionTyped, TablesTyped
<1>5. SessionTyped'
  BY <1>4, TypeParts DEF SessionTyped, Crash
<1> QED
  BY <1>2, <1>3, <1>5

LEMMA HistoryKept == TypeOK /\ [Next]_vars => HistoryTyped'
<1> SUFFICES ASSUME TypeOK, [Next]_vars PROVE HistoryTyped'
  OBVIOUS
<1>0. HistoryTyped
  BY TypeParts
<1>b. MaxJoins \in Nat /\ MaxCrashes \in Nat /\ MaxFailures \in Nat
  BY BoundsAssumption
<1>1. UNCHANGED history => HistoryTyped'
  BY <1>0 DEF HistoryTyped, history
<1>2. ASSUME NEW s \in Server, Statement(s) PROVE HistoryTyped'
  BY <1>1, <1>2, StatementEffect
<1>3. ASSUME NEW s \in Server, ResetGhosting(s) PROVE HistoryTyped'
  BY <1>1, <1>3 DEF ResetGhosting
<1>4. ASSUME NEW s \in Server, Crash(s) PROVE HistoryTyped'
  <2>1. crashes' \in 0..MaxCrashes /\ joins' \in 0..MaxJoins /\ failures' \in 0..MaxFailures
    BY <1>b, <1>0, <1>4 DEF HistoryTyped, Crash
  <2>2. torn' \in BOOLEAN /\ hurried' \in BOOLEAN
    BY <1>0, <1>4, Zenon DEF HistoryTyped, Crash
  <2> QED
    BY <2>1, <2>2, Zenon DEF HistoryTyped
<1>5. ASSUME NEW p \in Player, Asks(p) PROVE HistoryTyped'
  <2>0. UNCHANGED <<joins, hurried>> \/ \E s \in Server : Join(p, s)
    BY <1>5 DEF Asks, AskAgain, Save, Die, Respawn, Leave
  <2>c. UNCHANGED <<crashes, failures, torn>>
    BY <1>5 DEF Asks, Join, AskAgain, Save, Die, Respawn, Leave, Calls
  <2>1. crashes' \in 0..MaxCrashes /\ joins' \in 0..MaxJoins /\ failures' \in 0..MaxFailures
    BY <1>b, <1>0, <2>0, <2>c DEF HistoryTyped, Join
  <2>2. torn' \in BOOLEAN /\ hurried' \in BOOLEAN
    BY <1>0, <2>0, <2>c, Zenon DEF HistoryTyped, Join
  <2> QED
    BY <2>1, <2>2, Zenon DEF HistoryTyped
<1>6. CASE UNCHANGED vars
  BY <1>1, <1>6 DEF vars
<1>7. ASSUME NEW s \in Server, Fail(s) PROVE HistoryTyped'
  <2>1. crashes' \in 0..MaxCrashes /\ joins' \in 0..MaxJoins /\ failures' \in 0..MaxFailures
    BY <1>b, <1>0, <1>7 DEF HistoryTyped, Fail
  <2>2. torn' \in BOOLEAN /\ hurried' \in BOOLEAN
    BY <1>0, <1>7, Zenon DEF HistoryTyped, Fail
  <2> QED
    BY <2>1, <2>2, Zenon DEF HistoryTyped
<1>8. ASSUME NEW s \in Server, Starts(s) PROVE HistoryTyped'
  <2>1. CASE Boot(s)
    BY <1>1, <2>1 DEF Boot
  <2>2. CASE FailToReset(s)
    <3>1. crashes' \in 0..MaxCrashes /\ joins' \in 0..MaxJoins /\ failures' \in 0..MaxFailures
      BY <1>b, <1>0, <2>2 DEF HistoryTyped, FailToReset
    <3>2. torn' \in BOOLEAN /\ hurried' \in BOOLEAN
      BY <1>0, <2>2, Zenon DEF HistoryTyped, FailToReset
    <3> QED
      BY <3>1, <3>2, Zenon DEF HistoryTyped
  <2> QED
    BY <1>8, <2>1, <2>2 DEF Starts
<1> QED
  BY <1>2, <1>3, <1>4, <1>5, <1>6, <1>7, <1>8, NextCases

LEMMA TypesKept == TypeOK /\ Executes /\ Owned /\ [Next]_vars => TypeOK'
<1> SUFFICES ASSUME TypeOK, Executes, Owned, [Next]_vars PROVE TypeOK'
  OBVIOUS
<1>1. HistoryTyped'
  BY HistoryKept
<1>2. RowsStay
  BY RowsStayed
<1>3. SessionTyped' /\ ServersTyped' /\ TablesTyped'
  <2>1. ASSUME NEW s \in Server, Statement(s) PROVE SessionTyped' /\ ServersTyped' /\ TablesTyped'
    BY <1>2, <2>1, StatementTyped
  <2>2. ASSUME NEW s \in Server, Crash(s) PROVE SessionTyped' /\ ServersTyped' /\ TablesTyped'
    BY <2>2, CrashTyped
  <2>3. ASSUME NEW s \in Server, ResetGhosting(s) PROVE SessionTyped' /\ ServersTyped' /\ TablesTyped'
    <3>1. UNCHANGED <<profile, attempts, queue, pc, session>> /\ process' = [process EXCEPT ![s] = "up"]
      BY <2>3 DEF ResetGhosting
    <3>2. survivor' \in Seq(RowSet) /\ Len(survivor') = Len(survivor)
      BY <2>3, TypeParts, ResetEffect DEF TablesTyped
    <3> QED
      BY <3>1, <3>2, TypeParts DEF SessionTyped, ServersTyped, TablesTyped, session
  <2>4. ASSUME NEW p \in Player, Asks(p) PROVE SessionTyped' /\ ServersTyped' /\ TablesTyped'
    BY <2>4, AsksTyped, TypeParts DEF ServersTyped, TablesTyped, tables
  <2>5. CASE UNCHANGED vars
    BY <2>5, TypeParts DEF vars, SessionTyped, ServersTyped, TablesTyped, session, tables
  <2>6. ASSUME NEW s \in Server, Fail(s) PROVE SessionTyped' /\ ServersTyped' /\ TablesTyped'
    BY <1>2, <2>6, FailTyped
  <2>7. ASSUME NEW s \in Server, Starts(s) PROVE SessionTyped' /\ ServersTyped' /\ TablesTyped'
    BY <2>7, StartsEffect, TypeParts DEF SessionTyped, ServersTyped, TablesTyped, session, tables
  <2> QED
    BY <2>1, <2>2, <2>3, <2>4, <2>5, <2>6, <2>7, NextCases
<1>5. LostTyped'
  BY LostKept
<1>4. (SessionTyped /\ ServersTyped /\ TablesTyped /\ HistoryTyped /\ LostTyped)'
  BY <1>1, <1>3, <1>5
<1> QED
  BY <1>4, TypePartsNext
----------------------------------------------------------------------------
(* The statement that is executed. *)
ServerExecutes(s) ==
  /\ pc[s] # "start" => queue[s] # <<>>
  /\ pc[s] \in LoadSteps => queue[s][1].op = "loadPlayer"
  /\ pc[s] = "kill" => queue[s][1].op = "playerDeath"
  /\ pc[s] = "releasePlayer" => queue[s][1].op = "playerActiveServer"
  /\ process[s] # "up" => queue[s] = <<>> /\ \A p \in Player : at[p] # s

IsPresent(p) == at[p] = NoServer <=> phase[p] = "away"

LEMMA ExecutesParts == Executes <=> (\A s \in Server : ServerExecutes(s)) /\ \A p \in Player : IsPresent(p)
BY Zenon DEF Executes, ServerExecutes, IsPresent, LoadSteps

LEMMA ExecutesPartsNext ==
  Executes' <=> ((\A s \in Server : ServerExecutes(s)) /\ \A p \in Player : IsPresent(p))'
BY ExecutesParts, PTL

LEMMA ExecutesStatement ==
  ASSUME TypeOK, TypeOK', Executes, NEW s \in Server, Statement(s) \/ Fail(s)
  PROVE  Executes'
<1>1. \A t \in Server : ServerExecutes(t)
  BY ExecutesParts
<1>2. queue' \in Queues /\ queue[s] # <<>> /\ process[s] = "up" /\ UNCHANGED process
      /\ \A t \in Server : t # s => pc'[t] = pc[t]
  BY StatementEffect, FailEffect, TypeParts DEF ServersTyped
<1>3. GoneOn(s) \/ Over(s)
  BY StatementEffect, FailEffect
<1>4. UNCHANGED at /\ \A t \in Server : t # s => queue'[t] = queue[t]
  BY <1>3 DEF GoneOn, Over, Stays, Returned, Refused, Denied, Entered, Accepted, Answered, Moved, session
<1>5. ServerExecutes(s)'
  BY <1>2, <1>3 DEF GoneOn, Over, Stays, ServerExecutes, LoadSteps
<1>6. \A t \in Server : t # s => ServerExecutes(t)'
  BY <1>1, <1>2, <1>4 DEF ServerExecutes
<1>7. \A p \in Player : IsPresent(p)'
  <2>1. \A p \in Player : phase'[p] = phase[p] \/ (phase'[p] # "away" /\ at[p] = s)
    <3>1. CASE UNCHANGED phase
      BY <3>1
    <3>2. ASSUME NEW p \in Player, at[p] = s, NEW ph, ph # "away", phase' = [phase EXCEPT ![p] = ph]
          PROVE  \A q \in Player : phase'[q] = phase[q] \/ (phase'[q] # "away" /\ at[q] = s)
      BY <3>2, TypeParts DEF SessionTyped
    <3> QED
      BY <1>3, <3>1, <3>2 DEF GoneOn, Over, Stays, Returned, Refused, Denied, Entered, Accepted, Answered, session
  <2>2. s # NoServer
    BY NoServerAssumption
  <2> QED
    BY <1>4, <2>1, <2>2, ExecutesParts DEF IsPresent
<1>8. (\A t \in Server : ServerExecutes(t))'
  BY <1>5, <1>6
<1>9. ((\A t \in Server : ServerExecutes(t)) /\ \A p \in Player : IsPresent(p))'
  BY <1>7, <1>8
<1> QED
  BY <1>9, ExecutesPartsNext

LEMMA ExecutesAsked ==
  ASSUME TypeOK, TypeOK', Executes, NEW p \in Player, NEW s \in Server, NEW new, Asked(p, s, new),
         at'[p] \in {s, NoServer}, at'[p] = NoServer <=> phase'[p] = "away"
  PROVE  Executes'
<1>1. (\A t \in Server : ServerExecutes(t)) /\ \A q \in Player : IsPresent(q)
  BY ExecutesParts
<1>2. /\ UNCHANGED <<pc, process>> /\ process[s] = "up" /\ Moved(s, 0, new)
      /\ \A q \in Player : q # p => at'[q] = at[q] /\ phase'[q] = phase[q]
  BY DEF Asked
<1>3. queue[s] # <<>> => queue'[s] # <<>> /\ queue'[s][1] = queue[s][1]
  <2>1. queue \in Queues /\ queue' \in Queues
    BY TypeParts, TypePartsNext DEF ServersTyped
  <2>2. queue[s] # <<>> => 1 \in DOMAIN queue[s]
    BY <2>1, NextCall
  <2>3. \A i \in DOMAIN queue[s] : i > 0 => i - 0 \in DOMAIN queue'[s] /\ queue'[s][i - 0] = queue[s][i]
    BY <1>2, MovedForward
  <2>4. queue[s] # <<>> => 1 \in DOMAIN queue'[s] /\ queue'[s][1] = queue[s][1]
    BY <2>2, <2>3
  <2>5. DOMAIN <<>> = {}
    OBVIOUS
  <2> QED
    BY <2>4, <2>5
<1>4. ServerExecutes(s)'
  BY <1>1, <1>2, <1>3 DEF ServerExecutes, LoadSteps
<1>5. \A t \in Server : t # s => ServerExecutes(t)'
  <2>1. \A t \in Server : t # s => queue'[t] = queue[t]
    BY <1>2 DEF Moved
  <2> QED
    BY <1>1, <1>2, <2>1, NoServerAssumption DEF ServerExecutes
<1>6. \A q \in Player : IsPresent(q)'
  BY <1>1, <1>2 DEF IsPresent
<1>7. ((\A t \in Server : ServerExecutes(t)) /\ \A q \in Player : IsPresent(q))'
  BY <1>4, <1>5, <1>6
<1> QED
  BY <1>7, ExecutesPartsNext

LEMMA AskedIs ==
  ASSUME TypeOK, Executes, NEW p \in Player, Asks(p)
  PROVE  \E s \in Server :
           \/ AskedLoad(p, s) \/ AskedSave(p, s) \/ \E n \in 1..2 : AskedDeath(p, s, n)
           \/ \E new : AskedLeave(p, s, new)
<1>1. Asks(p) /\ ~(\E s \in Server : Join(p, s)) => at[p] \in Server
  BY TypeParts DEF Asks, AskAgain, Save, Die, Respawn, Leave, SessionTyped, Executes
<1> QED
  BY <1>1, ScriptEffect DEF Asks

LEMMA ExecutesKept == TypeOK /\ TypeOK' /\ Executes /\ [Next]_vars => Executes'
<1> SUFFICES ASSUME TypeOK, TypeOK', Executes, [Next]_vars PROVE Executes'
  OBVIOUS
<1>1. ASSUME NEW p \in Player, Asks(p) PROVE Executes'
  <2>1. PICK s \in Server :
           \/ AskedLoad(p, s) \/ AskedSave(p, s) \/ \E n \in 1..2 : AskedDeath(p, s, n)
           \/ \E new : AskedLeave(p, s, new)
    BY <1>1, AskedIs
  <2>2. /\ \E new : Asked(p, s, new)
        /\ at'[p] \in {s, NoServer} /\ (at'[p] = NoServer <=> phase'[p] = "away")
    BY <2>1, NoServerAssumption DEF AskedLoad, AskedSave, AskedDeath, AskedLeave, session
  <2> QED
    BY <2>2, ExecutesAsked
<1>2. ASSUME NEW s \in Server, Crash(s) PROVE Executes'
  <2>1. (\A t \in Server : ServerExecutes(t)) /\ \A q \in Player : IsPresent(q)
    BY ExecutesParts
  <2>2. /\ queue'[s] = <<>> /\ pc'[s] = "start"
        /\ \A t \in Server : t # s => queue'[t] = queue[t] /\ pc'[t] = pc[t] /\ process'[t] = process[t]
    BY <1>2, TypeParts DEF Crash, ServersTyped, Queues
  <2>3. \A q \in Player : IF at[q] = s THEN at'[q] = NoServer /\ phase'[q] = "away"
                                       ELSE at'[q] = at[q] /\ phase'[q] = phase[q]
    BY <1>2 DEF Crash
  <2>4. ServerExecutes(s)'
    BY <2>2, <2>3, NoServerAssumption DEF ServerExecutes, LoadSteps
  <2>5. \A t \in Server : t # s => ServerExecutes(t)'
    BY <2>1, <2>2, <2>3, NoServerAssumption DEF ServerExecutes
  <2>6. \A q \in Player : IsPresent(q)'
    BY <2>1, <2>3 DEF IsPresent
  <2>7. ((\A t \in Server : ServerExecutes(t)) /\ \A q \in Player : IsPresent(q))'
    BY <2>4, <2>5, <2>6
  <2> QED
    BY <2>7, ExecutesPartsNext
<1>3. ASSUME NEW s \in Server, ResetGhosting(s) PROVE Executes'
  <2>1. UNCHANGED <<queue, pc, session>> /\ process' = [process EXCEPT ![s] = "up"]
    BY <1>3 DEF ResetGhosting
  <2>2. \A t \in Server : process'[t] # "up" => process[t] # "up"
    BY <2>1, TypeParts DEF ServersTyped
  <2> QED
    BY <2>1, <2>2 DEF Executes, session
<1>5. ASSUME NEW s \in Server, Starts(s) PROVE Executes'
  <2>1. /\ UNCHANGED <<queue, pc, session>>
        /\ \A t \in Server : process'[t] # "up" => process[t] # "up"
    BY <1>5, StartsEffect
  <2> QED
    BY <2>1 DEF Executes, session
<1>4. CASE UNCHANGED vars
  BY <1>4 DEF vars, Executes, session
<1> QED
  BY <1>1, <1>2, <1>3, <1>4, <1>5, ExecutesStatement, NextCases
----------------------------------------------------------------------------
(* The steps by what they do to queues and sessions. *)
LEMMA SessionCases ==
  ASSUME TypeOK, Executes, [Next]_vars
  PROVE  \/ Stays /\ \A t \in Server : pc[t] = "releasePlayer" => pc'[t] = "releasePlayer"
         \/ \E s \in Server :
              /\ queue[s] # <<>> /\ process[s] = "up"
              /\ pc'[s] = "start" /\ \A t \in Server : t # s => pc'[t] = pc[t]
              /\ \/ Returned(s)
                 \/ \E p \in Player : \/ Refused(s, p) \/ Denied(s, p) \/ Entered(s, p)
                                       \/ \E c \in DOMAIN survivor : Accepted(s, p, c)
         \/ \E s \in Server : Crash(s)
         \/ \E p \in Player, s \in Server :
              \/ AskedLoad(p, s) \/ AskedSave(p, s) \/ \E n \in 1..2 : AskedDeath(p, s, n)
              \/ \E new : AskedLeave(p, s, new)
<1> DEFINE Goes == Stays /\ \A t \in Server : pc[t] = "releasePlayer" => pc'[t] = "releasePlayer"
<1>1. ASSUME NEW s \in Server, Statement(s) \/ Fail(s)
      PROVE  Goes \/ /\ queue[s] # <<>> /\ process[s] = "up"
                     /\ pc'[s] = "start" /\ \A t \in Server : t # s => pc'[t] = pc[t]
                     /\ \/ Returned(s)
                        \/ \E p \in Player : \/ Refused(s, p) \/ Denied(s, p) \/ Entered(s, p)
                                              \/ \E c \in DOMAIN survivor : Accepted(s, p, c)
  <2>1. queue[s] # <<>> /\ process[s] = "up" /\ \A t \in Server : t # s => pc'[t] = pc[t]
    BY <1>1, StatementEffect, FailEffect, TypeParts DEF ServersTyped
  <2>2. GoneOn(s) => Goes
    BY <2>1 DEF GoneOn, Executes, LoadSteps
  <2>3. GoneOn(s) \/ Over(s)
    BY <1>1, StatementEffect, FailEffect
  <2> QED
    BY <2>1, <2>2, <2>3 DEF Over
<1>2. ASSUME NEW s \in Server, ResetGhosting(s) \/ Starts(s) PROVE Goes
  BY <1>2, StartsEffect DEF ResetGhosting, Stays
<1>3. UNCHANGED vars => Goes
  BY DEF vars, Stays
<1> QED
  BY <1>1, <1>2, <1>3, AskedIs, NextCases

LEMMA HurriedStays == [Next]_vars => (hurried => hurried')
<1> SUFFICES ASSUME [Next]_vars, hurried PROVE hurried'
  OBVIOUS
<1>1. ASSUME NEW s \in Server, Statement(s) PROVE hurried'
  BY <1>1, Zenon DEF Statement, SelectProfile, InsertProfile, SelectCharacter, InsertCharacter, SelectNew,
       ClaimCharacter, SaveCharacter, CountDeath, KillCharacter, ReleaseCharacter, ReleasePlayer,
       Executing, Releasing, history
<1>2. ASSUME NEW s \in Server, Crash(s) \/ ResetGhosting(s) \/ Fail(s) \/ Starts(s) PROVE hurried'
  BY <1>2, Zenon DEF Crash, ResetGhosting, Fail, Starts, Boot, FailToReset, history
<1>3. ASSUME NEW p \in Player, Asks(p) PROVE hurried'
  BY <1>3, Zenon DEF Asks, Join, AskAgain, Save, Die, Respawn, Leave
<1>4. CASE UNCHANGED vars
  BY <1>4, Zenon DEF vars, history
<1> QED
  BY <1>1, <1>2, <1>3, <1>4, NextCases

(* The calls of a new queue are old calls or new ones. *)
LEMMA MovedCalls ==
  ASSUME TypeOK, NEW s \in Server, NEW d \in {0, 1}, NEW new, Moved(s, d, new)
  PROVE  \A t \in Server : \A i \in DOMAIN queue'[t] :
           \/ \E j \in DOMAIN queue[t] : queue'[t][i] = queue[t][j]
           \/ t = s /\ \E k \in DOMAIN new : queue'[t][i] = new[k]
BY DEF Moved

----------------------------------------------------------------------------
(* The characters of calls and sessions. *)
OwnCall(call) ==
  call.op \in Owners \union {"loadCharacterDetails"} =>
    call.c \in DOMAIN survivor /\ survivor[call.c].unique_id = call.p

LEMMA OwnedMoved ==
  ASSUME TypeOK, Owned, RowsStay, NEW s \in Server, NEW d \in {0, 1}, NEW new, Moved(s, d, new),
         \A k \in DOMAIN new : OwnCall(new[k])
  PROVE  \A t \in Server : \A i \in DOMAIN queue'[t] :
           queue'[t][i].op \in Owners \union {"loadCharacterDetails"} =>
             /\ queue'[t][i].c \in DOMAIN survivor'
             /\ survivor'[queue'[t][i].c].unique_id = queue'[t][i].p
<1>1. \A t \in Server : \A i \in DOMAIN queue[t] : OwnCall(queue[t][i])
  BY DEF Owned, OwnCall
<1>2. \A t \in Server : \A i \in DOMAIN queue'[t] : OwnCall(queue'[t][i])
  BY <1>1, MovedCalls
<1> QED
  BY <1>2 DEF OwnCall, RowsStay, SameOwner

LEMMA OwnedKept == TypeOK /\ TypeOK' /\ Executes /\ Owned /\ [Next]_vars => Owned'
<1> SUFFICES ASSUME TypeOK, TypeOK', Executes, Owned, [Next]_vars PROVE Owned'
  OBVIOUS
<1>1. RowsStay
  BY RowsStayed
<1> DEFINE Mine(p) == phase[p] \in {"details", "playing", "dead"} =>
                        /\ id[p] \in DOMAIN survivor /\ survivor[id[p]].unique_id = p
<1>2. \A p \in Player : Mine(p)
  BY DEF Owned
<1>3. ASSUME \A p \in Player : \/ phase'[p] \notin {"details", "playing", "dead"}
                               \/ id'[p] = id[p] /\ phase[p] \in {"details", "playing", "dead"}
                               \/ id'[p] \in DOMAIN survivor /\ survivor[id'[p]].unique_id = p
      PROVE  \A p \in Player : Mine(p)'
  BY <1>1, <1>2, <1>3 DEF RowsStay, SameOwner
<1> DEFINE Calls2 == \A t \in Server : \A i \in DOMAIN queue'[t] :
                       queue'[t][i].op \in Owners \union {"loadCharacterDetails"} =>
                         /\ queue'[t][i].c \in DOMAIN survivor'
                         /\ survivor'[queue'[t][i].c].unique_id = queue'[t][i].p
<1>4. Calls2 /\ (\A p \in Player : Mine(p)') => Owned'
  BY DEF Owned
<1> HIDE DEF Mine
<1>5. CASE Stays
  <2>1. Calls2
    BY <1>1, <1>5 DEF Owned, Stays, RowsStay, SameOwner
  <2>2. \A p \in Player : Mine(p)'
    BY <1>2, <1>3, <1>5 DEF Stays, session, Mine
  <2> QED
    BY <1>4, <2>1, <2>2
<1>e. DOMAIN <<>> = {}
  OBVIOUS
<1>6. ASSUME NEW s \in Server, Returned(s) PROVE Owned'
  <2>1. Calls2
    BY <1>1, <1>6, <1>e, OwnedMoved DEF Returned
  <2>2. \A p \in Player : Mine(p)'
    BY <1>2, <1>3, <1>6 DEF Returned, session, Mine
  <2> QED
    BY <1>4, <2>1, <2>2
<1>7. ASSUME NEW s \in Server, NEW p \in Player, Refused(s, p) \/ Denied(s, p) \/ Entered(s, p) PROVE Owned'
  <2>1. Calls2
    BY <1>1, <1>7, <1>e, OwnedMoved DEF Refused, Denied, Entered
  <2>2. \A q \in Player : id'[q] = id[q] /\ (phase'[q] # phase[q] => \/ phase'[q] = "refused"
                                                                    \/ phase[q] = "details")
    BY <1>7, TypeParts DEF Refused, Denied, Entered, SessionTyped
  <2>3. \A q \in Player : Mine(q)'
    BY <1>3, <2>2
  <2> QED
    BY <1>4, <2>1, <2>3
<1>8. ASSUME NEW s \in Server, NEW p \in Player, NEW c \in DOMAIN survivor, Accepted(s, p, c) PROVE Owned'
  <2>0. survivor[c].unique_id = p
    BY <1>8 DEF Accepted, Alive
  <2> DEFINE new == <<Call("loadCharacterDetails", p, c)>>
  <2>1. \A k \in DOMAIN new : new[k].c = c /\ new[k].p = p
    BY DEF Call
  <2>2. Moved(s, 1, new)
    BY <1>8 DEF Accepted
  <2> HIDE DEF new
  <2>3. Calls2
    BY <1>1, <2>0, <2>1, <2>2, OwnedMoved DEF OwnCall
  <2>4. \A q \in Player : IF q = p THEN id'[q] = c ELSE id'[q] = id[q] /\ phase'[q] = phase[q]
    BY <1>8, TypeParts DEF Accepted, SessionTyped
  <2>5. \A q \in Player : Mine(q)'
    BY <1>3, <2>0, <2>4
  <2> QED
    BY <1>4, <2>3, <2>5
<1>9. ASSUME NEW s \in Server, Crash(s) PROVE Owned'
  <2>1. Calls2
    <3>1. \A t \in Server : queue'[t] = queue[t] \/ queue'[t] = <<>>
      BY <1>9, TypeParts DEF Crash, ServersTyped, Queues
    <3> QED
      BY <1>1, <1>e, <3>1 DEF Owned, RowsStay, SameOwner
  <2>2. \A p \in Player : Mine(p)'
    BY <1>2, <1>3, <1>9 DEF Crash, Mine
  <2> QED
    BY <1>4, <2>1, <2>2
<1>10. ASSUME NEW p \in Player, NEW s \in Server, NEW new, Asked(p, s, new),
              \A k \in DOMAIN new : new[k].op \in Owners => new[k].c = id[p] /\ phase[p] = "playing",
              \A k \in DOMAIN new : new[k].op # "loadCharacterDetails",
              phase'[p] \in {"details", "playing", "dead"} => id'[p] = id[p] /\ phase[p] = "playing"
       PROVE Owned'
  <2>1. Moved(s, 0, new) /\ \A k \in DOMAIN new : new[k].p = p
    BY <1>10 DEF Asked
  <2>2. \A k \in DOMAIN new : OwnCall(new[k])
    BY <1>2, <1>10, <2>1 DEF OwnCall, Mine
  <2>3. Calls2
    BY <1>1, <2>1, <2>2, OwnedMoved
  <2>4. \A q \in Player : Mine(q)'
    BY <1>3, <1>10 DEF Asked
  <2> QED
    BY <1>4, <2>3, <2>4
<1>11. ASSUME NEW p \in Player, NEW s \in Server, AskedLoad(p, s) PROVE Owned'
  <2> DEFINE new == <<Call("loadPlayer", p, 0)>>
  <2>1. \A k \in DOMAIN new : new[k].op = "loadPlayer"
    BY DEF Call
  <2>2. Asked(p, s, new) /\ phase'[p] = "loading"
    BY <1>11 DEF AskedLoad
  <2> HIDE DEF new
  <2> QED
    BY <1>10, <2>1, <2>2 DEF Owners
<1>12. ASSUME NEW p \in Player, NEW s \in Server, AskedSave(p, s) PROVE Owned'
  <2> DEFINE new == <<Call("playerUpdate", p, id[p])>>
  <2>1. \A k \in DOMAIN new : new[k].op = "playerUpdate" /\ new[k].c = id[p]
    BY DEF Call
  <2>2. Asked(p, s, new) /\ phase[p] = "playing" /\ UNCHANGED session
    BY <1>12 DEF AskedSave
  <2> HIDE DEF new
  <2> QED
    BY <1>10, <2>1, <2>2 DEF Owners, session
<1>13. ASSUME NEW p \in Player, NEW s \in Server, NEW n \in 1..2, AskedDeath(p, s, n) PROVE Owned'
  <2> DEFINE new == [i \in 1..n |-> Call("playerDeath", p, id[p])]
  <2>1. \A k \in DOMAIN new : new[k].op = "playerDeath" /\ new[k].c = id[p]
    BY DEF Call
  <2>2. Asked(p, s, new) /\ phase[p] = "playing" /\ id'[p] = id[p]
    BY <1>13 DEF AskedDeath
  <2> HIDE DEF new
  <2> QED
    BY <1>10, <2>1, <2>2 DEF Owners
<1>14. ASSUME NEW p \in Player, NEW s \in Server, NEW new, AskedLeave(p, s, new) PROVE Owned'
  <2>1. \A k \in DOMAIN new : \/ new[k].op = "playerDisconnected"
                              \/ new[k].op = "playerActiveServer" /\ new[k].c = id[p] /\ phase[p] = "playing"
    BY <1>14 DEF AskedLeave, Call
  <2>2. Asked(p, s, new) /\ phase'[p] = "away"
    BY <1>14 DEF AskedLeave
  <2> QED
    BY <1>10, <2>1, <2>2 DEF Owners
<1> QED
  BY <1>5, <1>6, <1>7, <1>8, <1>9, <1>11, <1>12, <1>13, <1>14, SessionCases
----------------------------------------------------------------------------
(* The calls that the script makes. *)
LEMMA NewCallIs ==
  /\ \A op, p, c : Call(op, p, c).op = op /\ Call(op, p, c).c = c
  /\ \A x : /\ DOMAIN <<x>> = {1} /\ <<x>>[1] = x
            /\ \A k \in DOMAIN <<x>> : <<x>>[k] = x
            /\ \A n \in 1..2 : \A k \in DOMAIN [i \in 1..n |-> x] : [i \in 1..n |-> x][k] = x
            /\ \A y : DOMAIN <<x, y>> = {1, 2} /\ <<x, y>>[1] = x /\ <<x, y>>[2] = y
<1>1. \A op, p, c : Call(op, p, c).op = op /\ Call(op, p, c).c = c
  BY DEF Call
<1>2. ASSUME NEW x
      PROVE  /\ DOMAIN <<x>> = {1} /\ <<x>>[1] = x
             /\ \A k \in DOMAIN <<x>> : <<x>>[k] = x
             /\ \A n \in 1..2 : \A k \in DOMAIN [i \in 1..n |-> x] : [i \in 1..n |-> x][k] = x
             /\ \A y : DOMAIN <<x, y>> = {1, 2} /\ <<x, y>>[1] = x /\ <<x, y>>[2] = y
  OBVIOUS
<1> QED
  BY <1>1, <1>2

LEMMA LoadIsFor ==
  ASSUME NEW p \in Player, NEW s \in Server, AskedLoad(p, s)
  PROVE  \E calls : Asked(p, s, calls) /\ DOMAIN calls = {1} /\ calls[1].op = "loadPlayer"
BY NewCallIs DEF AskedLoad

LEMMA SaveIsFor ==
  ASSUME NEW p \in Player, NEW s \in Server, AskedSave(p, s)
  PROVE  \E calls : /\ Asked(p, s, calls)
                    /\ \A k \in DOMAIN calls : calls[k].op = "playerUpdate" /\ calls[k].c = id[p]
BY NewCallIs DEF AskedSave

LEMMA DeathIsFor ==
  ASSUME NEW p \in Player, NEW s \in Server, NEW n \in 1..2, AskedDeath(p, s, n)
  PROVE  \E calls : /\ Asked(p, s, calls)
                    /\ \A k \in DOMAIN calls : calls[k].op = "playerDeath" /\ calls[k].c = id[p]
BY NewCallIs DEF AskedDeath

LEMMA LeaveIsFor ==
  ASSUME NEW p \in Player, NEW s \in Server, NEW calls, AskedLeave(p, s, calls)
  PROVE  \E l \in DOMAIN calls :
           /\ \A k \in DOMAIN calls : k <= l
           /\ calls[l].op = "playerDisconnected"
           /\ \A k \in DOMAIN calls : k # l =>
                /\ k = 1 /\ calls[k].op = "playerActiveServer" /\ calls[k].c = id[p]
                /\ phase[p] = "playing"
<1>1. CASE calls = <<Call("playerDisconnected", p, 0)>>
  <2>1. DOMAIN calls = {1} /\ calls[1].op = "playerDisconnected"
    BY <1>1, NewCallIs
  <2> QED
    BY <2>1
<1>2. CASE /\ phase[p] = "playing"
           /\ calls = <<Call("playerActiveServer", p, id[p]), Call("playerDisconnected", p, 0)>>
  <2>1. /\ DOMAIN calls = {1, 2} /\ calls[2].op = "playerDisconnected"
        /\ calls[1].op = "playerActiveServer" /\ calls[1].c = id[p]
    BY <1>2, NewCallIs
  <2> QED
    BY <1>2, <2>1
<1> QED
  BY <1>1, <1>2 DEF AskedLeave

----------------------------------------------------------------------------
(* The calls of the visit. *)
Tidy(p) ==
  at[p] # NoServer =>
    /\ phase[p] = "loading" =>
         \E j \in DOMAIN queue[at[p]] :
           /\ queue[at[p]][j].op = "loadPlayer" /\ queue[at[p]][j].p = p
           /\ \A i \in DOMAIN queue[at[p]] : i > j => queue[at[p]][i].p # p
    /\ phase[p] # "loading" => \A i \in DOMAIN queue[at[p]] :
         queue[at[p]][i].p = p =>
           /\ phase[p] # "refused"
           /\ queue[at[p]][i].c = id[p]
           /\ phase[p] = "details" =>
                /\ queue[at[p]][i].op = "loadCharacterDetails"
                /\ \A j \in DOMAIN queue[at[p]] : queue[at[p]][j].p = p => i = j
           /\ phase[p] = "playing" => queue[at[p]][i].op = "playerUpdate"
           /\ phase[p] = "dead" => queue[at[p]][i].op \in {"playerUpdate", "playerDeath"}

LEMMA TidyAll == InTurn <=> \A p \in Player : Tidy(p)
BY Zenon DEF InTurn, Tidy

(* Nothing has been asked about the player, and no load of it is over. *)
LEMMA TidyStays ==
  ASSUME TypeOK, TypeOK', NEW p \in Player, Tidy(p),
         at'[p] = at[p], phase'[p] = phase[p], id'[p] = id[p],
         NEW s \in Server, NEW d \in {0, 1}, NEW new, Moved(s, d, new),
         \A k \in DOMAIN new : new[k].p # p,
         d = 1 /\ at[p] = s /\ phase[p] = "loading" /\ queue[s][1].op = "loadPlayer" /\ queue[s][1].p = p
           => \E i \in DOMAIN queue[s] : i # 1 /\ queue[s][i].p = p
  PROVE  Tidy(p)'
<1>1. CASE at[p] # s
  <2>1. at[p] # NoServer => queue'[at[p]] = queue[at[p]]
    BY <1>1, TypeParts DEF Moved, SessionTyped
  <2> QED
    BY <2>1 DEF Tidy
<1>2. CASE at[p] = s
  <2>1. \A i \in DOMAIN queue'[s] : queue'[s][i].p = p =>
          i + d \in DOMAIN queue[s] /\ queue'[s][i] = queue[s][i + d]
    BY DEF Moved
  <2>2. DOMAIN queue[s] \subseteq Nat \ {0} /\ DOMAIN queue'[s] \subseteq Nat \ {0}
    BY QueueIs, TypeParts, TypePartsNext DEF ServersTyped, Moved
  <2>3. \A i, j \in DOMAIN queue'[s] : i + d = j + d => i = j
    BY <2>2
  <2>4. CASE phase[p] # "loading"
    BY <1>2, <2>1, <2>3, <2>4 DEF Tidy
  <2>5. CASE phase[p] = "loading"
    <3>1. PICK j \in DOMAIN queue[s] :
            /\ queue[s][j].op = "loadPlayer" /\ queue[s][j].p = p
            /\ \A i \in DOMAIN queue[s] : i > j => queue[s][i].p # p
      BY <1>2, <2>5, NoServerAssumption DEF Tidy
    <3>2. j > d
      <4>1. d = 1 /\ j = 1 => \E i \in DOMAIN queue[s] : i # 1 /\ queue[s][i].p = p
        BY <1>2, <2>5, <3>1
      <4> QED
        BY <2>2, <3>1, <4>1
    <3>3. j - d \in DOMAIN queue'[s] /\ queue'[s][j - d] = queue[s][j]
      BY <3>2, MovedForward
    <3>4. \A i \in DOMAIN queue'[s] : i > j - d => i + d > j
      BY <2>2, <3>1
    <3>5. \A i \in DOMAIN queue'[s] : i > j - d => queue'[s][i].p # p
      BY <2>1, <3>1, <3>4
    <3> QED
      BY <1>2, <2>5, <3>1, <3>3, <3>5 DEF Tidy
  <2> QED
    BY <2>4, <2>5
<1> QED
  BY <1>1, <1>2

(* The last load of a player is answered: no call about it is left. *)
LEMMA LastLoad ==
  ASSUME TypeOK, NEW s \in Server, NEW p \in Player, Answered(s, p), Tidy(p)
  PROVE  \A i \in DOMAIN queue[s] : i > 1 => queue[s][i].p # p
<1>1. PICK j \in DOMAIN queue[s] :
            /\ queue[s][j].op = "loadPlayer" /\ queue[s][j].p = p
            /\ \A i \in DOMAIN queue[s] : i > j => queue[s][i].p # p
  BY NoServerAssumption DEF Answered, Tidy
<1>2. j = 1
  BY <1>1 DEF Answered
<1> QED
  BY <1>1, <1>2

LEMMA TidyAllNext == InTurn' <=> (\A p \in Player : Tidy(p))'
BY TidyAll, PTL

(* A player is not let in. *)
Barred(s, p) == Refused(s, p) \/ Denied(s, p)

LEMMA TidyAnswered ==
  ASSUME TypeOK, TypeOK', InTurn, NEW s \in Server, queue[s] # <<>>, NEW p \in Player,
         Barred(s, p) \/ Entered(s, p) \/ \E c \in DOMAIN survivor : Accepted(s, p, c)
  PROVE  \A q \in Player : Tidy(q)'
<1> DEFINE new == IF Barred(s, p) \/ Entered(s, p) THEN <<>>
                  ELSE <<Call("loadCharacterDetails", p, id'[p])>>
<1>1. /\ Moved(s, 1, new) /\ at[p] = s /\ UNCHANGED at /\ s # NoServer /\ queue[s][1].p = p
      /\ \A q \in Player : q # p => phase'[q] = phase[q] /\ id'[q] = id[q]
      /\ Barred(s, p) => phase'[p] = "refused"
      /\ ~Barred(s, p) /\ Entered(s, p) => phase'[p] = "playing"
      /\ ~Barred(s, p) /\ ~Entered(s, p) => phase'[p] = "details"
  <2>1. CASE Barred(s, p)
    BY <2>1, NoServerAssumption, TypeParts DEF Barred, Refused, Denied, Answered, SessionTyped
  <2>2. CASE ~Barred(s, p) /\ Entered(s, p)
    BY <2>2, NoServerAssumption, TypeParts DEF Entered, SessionTyped
  <2>3. ASSUME NEW c \in DOMAIN survivor, Accepted(s, p, c), ~Barred(s, p), ~Entered(s, p)
        PROVE  /\ id'[p] = c /\ at[p] = s /\ UNCHANGED at /\ s # NoServer /\ queue[s][1].p = p
               /\ \A q \in Player : q # p => phase'[q] = phase[q] /\ id'[q] = id[q]
               /\ phase'[p] = "details" /\ Moved(s, 1, <<Call("loadCharacterDetails", p, c)>>)
    BY <2>3, NoServerAssumption, TypeParts DEF Accepted, Answered, SessionTyped
  <2> QED
    BY <2>1, <2>2, <2>3
<1>2. /\ \A k \in DOMAIN new : /\ new[k].p = p /\ new[k].op = "loadCharacterDetails" /\ new[k].c = id'[p]
                               /\ k = 1
                               /\ ~Barred(s, p) /\ ~Entered(s, p)
  BY DEF Call
<1> HIDE DEF new
<1>3. \A q \in Player : Tidy(q)
  BY TidyAll
<1>4. ASSUME NEW q \in Player, q # p PROVE Tidy(q)'
  BY <1>1, <1>2, <1>3, <1>4, TidyStays
<1>5. \A i \in DOMAIN queue[s] : i > 1 => queue[s][i].p # p
  <2>1. CASE Refused(s, p) \/ \E c \in DOMAIN survivor : Accepted(s, p, c)
    BY <1>3, <2>1, LastLoad DEF Refused, Accepted
  <2>2. CASE Denied(s, p) \/ Entered(s, p)
    <3>1. 1 \in DOMAIN queue[s]
      BY NextCall, TypeParts DEF ServersTyped
    <3>2. \A i \in DOMAIN queue[s] : queue[s][i].p = p => i = 1
      BY <1>1, <1>3, <2>2, <3>1 DEF Denied, Entered, Tidy
    <3> QED
      BY <3>2
  <2> QED
    BY <2>1, <2>2 DEF Barred
<1>6. \A i \in DOMAIN queue'[s] : queue'[s][i].p = p =>
        i + 1 - Len(queue[s]) \in DOMAIN new /\ queue'[s][i] = new[i + 1 - Len(queue[s])]
  <2>1. \A i \in DOMAIN queue'[s] : i + 1 > 1
    BY <1>1 DEF Moved
  <2>2. \A i \in DOMAIN queue'[s] :
          \/ i + 1 \in DOMAIN queue[s] /\ queue'[s][i] = queue[s][i + 1]
          \/ i + 1 - Len(queue[s]) \in DOMAIN new /\ queue'[s][i] = new[i + 1 - Len(queue[s])]
    BY <1>1 DEF Moved
  <2> QED
    BY <1>5, <2>1, <2>2
<1>7. /\ \A i \in DOMAIN queue'[s] : queue'[s][i].p = p =>
           /\ queue'[s][i].op = "loadCharacterDetails" /\ queue'[s][i].c = id'[p]
           /\ i + 1 - Len(queue[s]) = 1
           /\ ~Barred(s, p) /\ ~Entered(s, p)
  BY <1>2, <1>6
<1>8. \A i, j \in DOMAIN queue'[s] : i + 1 - Len(queue[s]) = 1 /\ j + 1 - Len(queue[s]) = 1 => i = j
  <2>1. DOMAIN queue'[s] \subseteq Int /\ Len(queue[s]) \in Int
    BY <1>1 DEF Moved
  <2> QED
    BY <2>1
<1>9. Tidy(p)'
  BY <1>1, <1>7, <1>8 DEF Tidy
<1> QED
  BY <1>4, <1>9

LEMMA TidyAsked ==
  ASSUME TypeOK, TypeOK', InTurn, NEW s \in Server, NEW p \in Player,
         \/ AskedLoad(p, s) \/ AskedSave(p, s) \/ \E n \in 1..2 : AskedDeath(p, s, n)
         \/ \E new : AskedLeave(p, s, new)
  PROVE  \A q \in Player : Tidy(q)'
<1>1. \A q \in Player : Tidy(q)
  BY TidyAll
<1>2. PICK new : Asked(p, s, new)
  BY DEF AskedLoad, AskedSave, AskedDeath, AskedLeave
<1>3. ASSUME NEW q \in Player, q # p PROVE Tidy(q)'
  BY <1>1, <1>2, <1>3, TidyStays DEF Asked
<1>4. CASE AskedLoad(p, s)
  <2>1. PICK load : Asked(p, s, load) /\ DOMAIN load = {1} /\ load[1].op = "loadPlayer"
    BY <1>4, LoadIsFor
  <2> DEFINE j == Len(queue[s]) - 0 + 1
  <2>2. j \in DOMAIN queue'[s] /\ queue'[s][j] = load[1] /\ load[1].p = p
    BY <2>1, MovedIn DEF Asked
  <2>3. \A i \in DOMAIN queue'[s] : ~(i > j)
    <3>1. Len(load) = 1 /\ DOMAIN queue'[s] = 1..(Len(queue[s]) - 0 + Len(load)) /\ Len(queue[s]) \in Nat
      <4>1. DOMAIN load = 1..Len(load) /\ Len(load) \in Nat
        BY <2>1 DEF Asked, Moved
      <4>2. Len(load) = 1
        BY <2>1, <4>1
      <4> QED
        BY <2>1, <4>2 DEF Asked, Moved
    <3> QED
      BY <3>1
  <2> HIDE DEF j
  <2>4. at'[p] = s /\ phase'[p] = "loading"
    BY <1>4 DEF AskedLoad
  <2>5. Tidy(p)'
    BY <2>1, <2>2, <2>3, <2>4 DEF Tidy
  <2> QED
    BY <1>3, <2>5
<1>5. ASSUME AskedSave(p, s) \/ \E n \in 1..2 : AskedDeath(p, s, n)
      PROVE  Tidy(p)'
  <2>1. /\ at[p] = s /\ phase[p] = "playing" /\ at'[p] = s /\ id'[p] = id[p]
        /\ AskedSave(p, s) => phase'[p] = "playing"
        /\ ~AskedSave(p, s) => phase'[p] = "dead"
    BY <1>5 DEF AskedSave, AskedDeath, session
  <2>2. PICK calls : /\ Asked(p, s, calls)
                     /\ \A k \in DOMAIN calls :
                          /\ calls[k].op = IF AskedSave(p, s) THEN "playerUpdate" ELSE "playerDeath"
                          /\ calls[k].c = id[p]
    <3>1. CASE AskedSave(p, s)
      <4>1. \E calls : /\ Asked(p, s, calls)
                       /\ \A k \in DOMAIN calls : calls[k].op = "playerUpdate" /\ calls[k].c = id[p]
        BY <3>1, SaveIsFor
      <4> QED
        BY <3>1, <4>1
    <3>2. ASSUME ~AskedSave(p, s), NEW n \in 1..2, AskedDeath(p, s, n)
          PROVE  \E calls : /\ Asked(p, s, calls)
                            /\ \A k \in DOMAIN calls : calls[k].op = "playerDeath" /\ calls[k].c = id[p]
      BY <3>2, DeathIsFor
    <3> QED
      BY <1>5, <3>1, <3>2
  <2>3. \A i \in DOMAIN queue[s] : queue[s][i].p = p => queue[s][i].op = "playerUpdate" /\ queue[s][i].c = id[p]
    BY <1>1, <2>1, NoServerAssumption DEF Tidy
  <2>4. \A i \in DOMAIN queue'[s] : \/ \E j \in DOMAIN queue[s] : queue'[s][i] = queue[s][j]
                                    \/ \E k \in DOMAIN calls : queue'[s][i] = calls[k]
    BY <2>2, MovedCalls DEF Asked
  <2>5. \A i \in DOMAIN queue'[s] : queue'[s][i].p = p =>
          /\ queue'[s][i].c = id'[p]
          /\ queue'[s][i].op \in (IF AskedSave(p, s) THEN {"playerUpdate"} ELSE {"playerUpdate", "playerDeath"})
    BY <2>1, <2>2, <2>3, <2>4
  <2> QED
    BY <2>1, <2>5 DEF Tidy
<1>6. ASSUME NEW calls, AskedLeave(p, s, calls) PROVE Tidy(p)'
  BY <1>6 DEF AskedLeave, Tidy
<1>7. Tidy(p)'
  BY <1>4, <1>5, <1>6
<1> QED
  BY <1>3, <1>7

LEMMA InTurnKept == TypeOK /\ TypeOK' /\ Executes /\ InTurn /\ [Next]_vars => InTurn'
<1> SUFFICES ASSUME TypeOK, TypeOK', Executes, InTurn, [Next]_vars PROVE InTurn'
  OBVIOUS
<1>1. \A q \in Player : Tidy(q)
  BY TidyAll
<1>2. CASE Stays
  <2>1. UNCHANGED <<queue, at, phase, id>>
    BY <1>2 DEF Stays, session
  <2>2. ASSUME NEW q \in Player PROVE Tidy(q)'
    BY <1>1, <2>1 DEF Tidy
  <2> QED
    BY <2>2, TidyAllNext
<1>e. DOMAIN <<>> = {}
  OBVIOUS
<1>3. ASSUME NEW s \in Server, queue[s] # <<>>, Returned(s) PROVE \A q \in Player : Tidy(q)'
  BY <1>1, <1>3, <1>e, TidyStays DEF Returned, session
<1>4. ASSUME NEW s \in Server, Crash(s) PROVE \A q \in Player : Tidy(q)'
  <2>1. \A q \in Player : \/ at'[q] = NoServer
                          \/ at'[q] = at[q] /\ phase'[q] = phase[q] /\ id'[q] = id[q] /\ at[q] \in Server
                             /\ at[q] # s
    BY <1>4, TypeParts DEF Crash, SessionTyped
  <2>2. \A t \in Server : t # s => queue'[t] = queue[t]
    BY <1>4, TypeParts DEF Crash, ServersTyped, Queues
  <2> QED
    BY <1>1, <2>1, <2>2 DEF Tidy
<1>5. (\A q \in Player : Tidy(q)) ' \/ InTurn'
  BY <1>2, <1>3, <1>4, TidyAnswered, TidyAsked, SessionCases DEF Barred
<1> QED
  BY <1>5, TidyAllNext
----------------------------------------------------------------------------
(* Two calls of a new queue are two old ones, in the same order, an old    *)
(* one and a new one, or two new ones.                                     *)
LEMMA MovedPairs ==
  ASSUME TypeOK, NEW s \in Server, NEW d \in {0, 1}, NEW new, Moved(s, d, new),
         NEW i \in DOMAIN queue'[s], NEW j \in DOMAIN queue'[s], i < j
  PROVE  \/ \E k, l \in DOMAIN queue[s] :
              k < l /\ queue'[s][i] = queue[s][k] /\ queue'[s][j] = queue[s][l]
         \/ \E k \in DOMAIN queue[s], l \in DOMAIN new :
              queue'[s][i] = queue[s][k] /\ queue'[s][j] = new[l]
         \/ \E k, l \in DOMAIN new : k < l /\ queue'[s][i] = new[k] /\ queue'[s][j] = new[l]
<1>1. /\ DOMAIN queue[s] = 1..Len(queue[s]) /\ DOMAIN new = 1..Len(new) /\ Len(queue[s]) \in Nat /\ Len(new) \in Nat
      /\ DOMAIN queue'[s] = 1..(Len(queue[s]) - d + Len(new))
  BY DEF Moved
<1>2. \A k \in DOMAIN queue'[s] :
       \/ k + d \in DOMAIN queue[s] /\ queue'[s][k] = queue[s][k + d]
       \/ k + d - Len(queue[s]) \in DOMAIN new /\ queue'[s][k] = new[k + d - Len(queue[s])]
  BY DEF Moved
<1>3. /\ i + d < j + d /\ i + d - Len(queue[s]) < j + d - Len(queue[s])
      /\ ~(i + d - Len(queue[s]) \in DOMAIN new /\ j + d \in DOMAIN queue[s])
  <2>1. i \in Nat /\ j \in Nat /\ d \in Nat
    BY <1>1
  <2>2. \A m \in Nat : i + d < j + d /\ i + d - m < j + d - m
    BY <2>1
  <2>3. \A m, n \in Nat : ~(i + d - m \in 1..n /\ j + d \in 1..m)
    BY <2>1
  <2> QED
    BY <1>1, <2>2, <2>3
<1> QED
  BY <1>2, <1>3

LEMMA FreedLastMoved ==
  ASSUME TypeOK, FreedLast, NEW s \in Server, NEW d \in {0, 1}, NEW new, Moved(s, d, new),
         \A l \in DOMAIN new : new[l].op \in Owners =>
           /\ \A i \in DOMAIN queue[s] : queue[s][i].op \in Frees => queue[s][i].p # new[l].p
           /\ \A k \in DOMAIN new : k < l => new[k].op \notin Frees
  PROVE  FreedLast'
<1>1. ASSUME NEW t \in Server, NEW i \in DOMAIN queue'[t], NEW j \in DOMAIN queue'[t],
             i < j, queue'[t][i].op \in Frees, queue'[t][j].op \in Owners
      PROVE  queue'[t][i].p # queue'[t][j].p
  <2>1. CASE t # s
    BY <1>1, <2>1 DEF Moved, FreedLast
  <2>2. CASE t = s
    <3>1. \/ \E k, l \in DOMAIN queue[s] :
              k < l /\ queue'[s][i] = queue[s][k] /\ queue'[s][j] = queue[s][l]
          \/ \E k \in DOMAIN queue[s], l \in DOMAIN new :
              queue'[s][i] = queue[s][k] /\ queue'[s][j] = new[l]
          \/ \E k, l \in DOMAIN new : k < l /\ queue'[s][i] = new[k] /\ queue'[s][j] = new[l]
      BY <1>1, <2>2, MovedPairs
    <3> QED
      BY <1>1, <2>2, <3>1 DEF FreedLast
  <2> QED
    BY <2>1, <2>2
<1> QED
  BY <1>1 DEF FreedLast

(* Every step but a crash moves one queue. *)
LEMMA CrashEmpties ==
  ASSUME TypeOK, NEW s \in Server, Crash(s)
  PROVE  /\ DOMAIN queue'[s] = {}
         /\ \A t \in Server : t # s => queue'[t] = queue[t]
         /\ \A p \in Player : IF at[p] = s THEN at'[p] = NoServer /\ phase'[p] = "away"
                              ELSE at'[p] = at[p] /\ phase'[p] = phase[p] /\ id'[p] = id[p]
         /\ pc'[s] = "start" /\ process'[s] = "down"
         /\ \A t \in Server : t # s => pc'[t] = pc[t] /\ process'[t] = process[t]
         /\ UNCHANGED <<profile, attempts, survivor, hurried>>
         /\ torn' = (torn \/ pc[s] = "kill")
<1>1. DOMAIN <<>> = {}
  OBVIOUS
<1> QED
  BY <1>1, TypeParts DEF Crash, ServersTyped, Queues, tables

LEMMA FreedLastKept == TypeOK /\ Executes /\ InTurn /\ FreedLast /\ [Next]_vars => FreedLast'
<1> SUFFICES ASSUME TypeOK, Executes, InTurn, FreedLast, [Next]_vars PROVE FreedLast'
  OBVIOUS
<1>e. DOMAIN <<>> = {}
  OBVIOUS
<1>1. CASE Stays
  BY <1>1 DEF Stays, FreedLast
<1>2. ASSUME NEW s \in Server, NEW p \in Player, Barred(s, p) \/ Entered(s, p) PROVE FreedLast'
  BY <1>2, <1>e, FreedLastMoved DEF Barred, Refused, Denied, Entered
<1>2a. ASSUME NEW s \in Server, Returned(s) PROVE FreedLast'
  BY <1>2a, <1>e, FreedLastMoved DEF Returned
<1>3. ASSUME NEW s \in Server, NEW p \in Player, NEW c \in DOMAIN survivor, Accepted(s, p, c) PROVE FreedLast'
  <2>1. ASSUME NEW x PROVE \A k \in DOMAIN <<x>> : <<x>>[k] = x
    OBVIOUS
  <2>2. PICK new : Moved(s, 1, new) /\ \A k \in DOMAIN new : new[k].op = "loadCharacterDetails"
    BY <1>3, <2>1 DEF Accepted, Call
  <2> QED
    BY <2>2, FreedLastMoved DEF Owners
<1>4. ASSUME NEW s \in Server, Crash(s) PROVE FreedLast'
  BY <1>4, CrashEmpties DEF FreedLast
<1>5. ASSUME NEW p \in Player, NEW s \in Server, AskedLoad(p, s) PROVE FreedLast'
  <2>1. PICK new : Asked(p, s, new) /\ DOMAIN new = {1} /\ new[1].op = "loadPlayer"
    BY <1>5, LoadIsFor
  <2> QED
    BY <2>1, FreedLastMoved DEF Asked, Owners
<1>6. ASSUME NEW p \in Player, NEW s \in Server, at[p] = s, phase[p] = "playing"
      PROVE  \A i \in DOMAIN queue[s] : queue[s][i].op \in Frees => queue[s][i].p # p
  BY <1>6, NoServerAssumption DEF InTurn, Frees
<1>7. ASSUME NEW p \in Player, NEW s \in Server, AskedSave(p, s) \/ \E n \in 1..2 : AskedDeath(p, s, n)
      PROVE  FreedLast'
  <2>1. at[p] = s /\ phase[p] = "playing"
    BY <1>7 DEF AskedSave, AskedDeath
  <2>2. PICK new : Asked(p, s, new) /\ \A k \in DOMAIN new : new[k].op \in {"playerUpdate", "playerDeath"}
    <3>1. CASE AskedSave(p, s)
      BY <3>1, SaveIsFor
    <3>2. ASSUME NEW n \in 1..2, AskedDeath(p, s, n)
          PROVE  \E new : Asked(p, s, new) /\ \A k \in DOMAIN new : new[k].op \in {"playerUpdate", "playerDeath"}
      BY <3>2, DeathIsFor
    <3> QED
      BY <1>7, <3>1, <3>2
  <2>3. Moved(s, 0, new) /\ \A k \in DOMAIN new : new[k].p = p /\ new[k].op \notin Frees
    BY <2>2 DEF Asked, Frees
  <2> QED
    BY <1>6, <2>1, <2>3, FreedLastMoved
<1>8. ASSUME NEW p \in Player, NEW s \in Server, NEW new, AskedLeave(p, s, new) PROVE FreedLast'
  <2>1. PICK l \in DOMAIN new :
                   /\ \A k \in DOMAIN new : k <= l
                   /\ new[l].op = "playerDisconnected"
                   /\ \A k \in DOMAIN new : k # l => k = 1 /\ phase[p] = "playing"
    BY <1>8, LeaveIsFor
  <2>2. Moved(s, 0, new) /\ at[p] = s /\ \A k \in DOMAIN new : new[k].p = p
    BY <1>8 DEF AskedLeave, Asked
  <2>3. DOMAIN new \subseteq Nat \ {0}
    BY <2>2 DEF Moved
  <2>4. \A k \in DOMAIN new : new[k].op \in Owners => k = 1 /\ phase[p] = "playing"
    BY <2>1 DEF Owners
  <2>5. \A k \in DOMAIN new : ~(k < 1)
    BY <2>3
  <2> QED
    BY <1>6, <2>2, <2>4, <2>5, FreedLastMoved
<1> QED
  BY <1>1, <1>2, <1>2a, <1>3, <1>4, <1>5, <1>7, <1>8, SessionCases DEF Barred

(* A claim to come is for a player who is there, or is released later. *)
Followed(t, i) ==
  \/ at[queue[t][i].p] = t
  \/ \E j \in DOMAIN queue[t] : /\ j > i /\ queue[t][j].p = queue[t][i].p
                                /\ queue[t][j].op = "playerDisconnected"

LEMMA ClaimFollowedMoved ==
  ASSUME TypeOK, ClaimFollowed, NEW s \in Server, NEW d \in {0, 1}, NEW new, Moved(s, d, new),
         \A t \in Server : \A i \in DOMAIN queue[t] :
           queue[t][i].op = "loadCharacterDetails" /\ at[queue[t][i].p] = t =>
             \/ at'[queue[t][i].p] = t
             \/ t = s /\ \E k \in DOMAIN new : new[k].p = queue[t][i].p /\ new[k].op = "playerDisconnected",
         \A k \in DOMAIN new : new[k].op = "loadCharacterDetails" => at'[new[k].p] = s
  PROVE  ClaimFollowed'
<1>1. ASSUME NEW t \in Server, NEW i \in DOMAIN queue'[t], queue'[t][i].op = "loadCharacterDetails"
      PROVE  \/ at'[queue'[t][i].p] = t
             \/ \E j \in DOMAIN queue'[t] : /\ j > i /\ queue'[t][j].p = queue'[t][i].p
                                            /\ queue'[t][j].op = "playerDisconnected"
  <2>1. CASE t # s
    <3>1. queue'[t] = queue[t]
      BY <2>1 DEF Moved
    <3> QED
      BY <1>1, <2>1, <3>1 DEF ClaimFollowed
  <2>2. CASE t = s /\ i + d - Len(queue[s]) \in DOMAIN new /\ queue'[s][i] = new[i + d - Len(queue[s])]
    BY <1>1, <2>2
  <2>3. CASE t = s /\ i + d \in DOMAIN queue[s] /\ queue'[s][i] = queue[s][i + d]
    <3> DEFINE k == i + d
    <3>1. k \in DOMAIN queue[s] /\ queue'[s][i] = queue[s][k]
      BY <2>3
    <3>a. /\ DOMAIN queue[s] = 1..Len(queue[s]) /\ DOMAIN new = 1..Len(new) /\ Len(queue[s]) \in Nat
          /\ DOMAIN queue'[s] = 1..(Len(queue[s]) - d + Len(new)) /\ Len(new) \in Nat
      BY DEF Moved
    <3>2. \A j \in DOMAIN queue[s] : j > k => j > d /\ j - d > i
      BY <2>3, <3>a
    <3>3. \A l \in DOMAIN new : Len(queue[s]) - d + l > i
      BY <2>3, <3>a
    <3> HIDE DEF k
    <3>4. \/ at'[queue[s][k].p] = s
          \/ \E l \in DOMAIN new : new[l].p = queue[s][k].p /\ new[l].op = "playerDisconnected"
          \/ \E j \in DOMAIN queue[s] : /\ j > k /\ queue[s][j].p = queue[s][k].p
                                        /\ queue[s][j].op = "playerDisconnected"
      BY <1>1, <2>3, <3>1 DEF ClaimFollowed
    <3>5. CASE \E l \in DOMAIN new : new[l].p = queue[s][k].p /\ new[l].op = "playerDisconnected"
      <4>1. PICK l \in DOMAIN new : new[l].p = queue[s][k].p /\ new[l].op = "playerDisconnected"
        BY <3>5
      <4>2. /\ Len(queue[s]) - d + l \in DOMAIN queue'[s]
            /\ queue'[s][Len(queue[s]) - d + l] = new[l]
        BY MovedIn
      <4>3. Len(queue[s]) - d + l > i
        BY <3>3
      <4> QED
        BY <2>3, <3>1, <4>1, <4>2, <4>3
    <3>6. CASE \E j \in DOMAIN queue[s] : /\ j > k /\ queue[s][j].p = queue[s][k].p
                                          /\ queue[s][j].op = "playerDisconnected"
      BY <2>3, <3>1, <3>2, <3>6, MovedForward
    <3> QED
      BY <2>3, <3>1, <3>4, <3>5, <3>6
  <2> QED
    BY <2>1, <2>2, <2>3 DEF Moved
<1> QED
  BY <1>1 DEF ClaimFollowed

LEMMA ClaimFollowedKept == TypeOK /\ Executes /\ ClaimFollowed /\ [Next]_vars => ClaimFollowed'
<1> SUFFICES ASSUME TypeOK, Executes, ClaimFollowed, [Next]_vars PROVE ClaimFollowed'
  OBVIOUS
<1>e. DOMAIN <<>> = {}
  OBVIOUS
<1>p. \A t \in Server : \A i \in DOMAIN queue[t] : queue[t][i].p \in Player
  BY QueueIs, TypeParts DEF ServersTyped, CallSet
<1>1. CASE Stays
  BY <1>1 DEF Stays, session, ClaimFollowed
<1>2. ASSUME NEW s \in Server, Returned(s) PROVE ClaimFollowed'
  BY <1>2, <1>e, ClaimFollowedMoved DEF Returned, session
<1>3. ASSUME NEW s \in Server, NEW p \in Player, Barred(s, p) \/ Entered(s, p) PROVE ClaimFollowed'
  BY <1>3, <1>e, ClaimFollowedMoved DEF Barred, Refused, Denied, Answered, Entered
<1>4. ASSUME NEW s \in Server, NEW p \in Player, NEW c \in DOMAIN survivor, Accepted(s, p, c) PROVE ClaimFollowed'
  <2>1. ASSUME NEW x PROVE \A k \in DOMAIN <<x>> : <<x>>[k] = x
    OBVIOUS
  <2>2. PICK new : Moved(s, 1, new) /\ \A k \in DOMAIN new : new[k].p = p
    BY <1>4, <2>1 DEF Accepted, Call
  <2> QED
    BY <1>4, <2>2, ClaimFollowedMoved DEF Accepted, Answered
<1>5. ASSUME NEW s \in Server, Crash(s) PROVE ClaimFollowed'
  BY <1>5, <1>p, CrashEmpties DEF ClaimFollowed
<1>6. ASSUME NEW p \in Player, NEW s \in Server, NEW new, Asked(p, s, new), at'[p] = at[p] \/ at[p] = NoServer,
             \A k \in DOMAIN new : new[k].op # "loadCharacterDetails"
      PROVE  ClaimFollowed'
  BY <1>6, <1>p, NoServerAssumption, ClaimFollowedMoved DEF Asked
<1>7. ASSUME NEW p \in Player, NEW s \in Server, AskedLoad(p, s) PROVE ClaimFollowed'
  <2>1. PICK new : Asked(p, s, new) /\ DOMAIN new = {1} /\ new[1].op = "loadPlayer"
    BY <1>7, LoadIsFor
  <2> QED
    BY <1>6, <1>7, <2>1 DEF AskedLoad
<1>8. ASSUME NEW p \in Player, NEW s \in Server, AskedSave(p, s) PROVE ClaimFollowed'
  <2>1. PICK new : Asked(p, s, new) /\ \A k \in DOMAIN new : new[k].op = "playerUpdate"
    BY <1>8, SaveIsFor
  <2> QED
    BY <1>6, <1>8, <2>1 DEF AskedSave, session
<1>9. ASSUME NEW p \in Player, NEW s \in Server, NEW n \in 1..2, AskedDeath(p, s, n) PROVE ClaimFollowed'
  <2>1. PICK new : Asked(p, s, new) /\ \A k \in DOMAIN new : new[k].op = "playerDeath"
    BY <1>9, DeathIsFor
  <2> QED
    BY <1>6, <1>9, <2>1 DEF AskedDeath
<1>10. ASSUME NEW p \in Player, NEW s \in Server, NEW new, AskedLeave(p, s, new) PROVE ClaimFollowed'
  <2>1. PICK l \in DOMAIN new :
                   /\ new[l].op = "playerDisconnected"
                   /\ \A k \in DOMAIN new : k # l => new[k].op = "playerActiveServer"
    BY <1>10, LeaveIsFor
  <2>2. Asked(p, s, new) /\ at[p] = s
    BY <1>10 DEF AskedLeave
  <2>3. \A k \in DOMAIN new : new[k].op # "loadCharacterDetails"
    BY <2>1
  <2> QED
    BY <1>p, <2>1, <2>2, <2>3, ClaimFollowedMoved DEF Asked
<1> QED
  BY <1>1, <1>2, <1>3, <1>4, <1>5, <1>7, <1>8, <1>9, <1>10, SessionCases DEF Barred

(* Server t loads for player p. *)
LoadsFor(t, p) == \E i \in DOMAIN queue[t] : queue[t][i].op \in Loads /\ queue[t][i].p = p

LEMMA OneLoadsIs ==
  OneLoads <=> (~hurried => \A t \in Server : \A i \in DOMAIN queue[t] : queue[t][i].op \in Loads =>
                  /\ at[queue[t][i].p] \in {t, NoServer}
                  /\ \A u \in Server : LoadsFor(u, queue[t][i].p) => u = t)
BY DEF OneLoads, LoadsFor

LEMMA OneLoadsKept == TypeOK /\ Executes /\ OneLoads /\ [Next]_vars => OneLoads'
<1> SUFFICES ASSUME TypeOK, Executes, OneLoads, [Next]_vars, ~hurried' PROVE OneLoads'
  BY DEF OneLoads
<1>h. ~hurried
  BY HurriedStays
<1>e. DOMAIN <<>> = {}
  OBVIOUS
<1>p. \A t \in Server : \A i \in DOMAIN queue[t] : queue[t][i].p \in Player
  BY QueueIs, TypeParts DEF ServersTyped, CallSet
<1>0. \A t, u \in Server, p \in Player :
        LoadsFor(t, p) => at[p] \in {t, NoServer} /\ (LoadsFor(u, p) => u = t)
  BY <1>h DEF OneLoads, LoadsFor
<1>1. ASSUME \A t \in Server : \A i \in DOMAIN queue'[t] : queue'[t][i].op \in Loads =>
               /\ queue'[t][i].p \in Player /\ LoadsFor(t, queue'[t][i].p)
               /\ at'[queue'[t][i].p] \in {at[queue'[t][i].p], NoServer}
      PROVE  OneLoads'
  BY <1>0, <1>1 DEF OneLoads
<1>2. ASSUME NEW s \in Server, NEW d \in {0, 1}, NEW new, Moved(s, d, new),
             \A k \in DOMAIN new : new[k].op \in Loads => new[k].p \in Player /\ LoadsFor(s, new[k].p),
             \A p \in Player : at'[p] \in {at[p], NoServer}
      PROVE  OneLoads'
  <2>1. \A t \in Server : \A i \in DOMAIN queue'[t] :
           \/ \E j \in DOMAIN queue[t] : queue'[t][i] = queue[t][j]
           \/ t = s /\ \E k \in DOMAIN new : queue'[t][i] = new[k]
    BY <1>2, MovedCalls
  <2>2. ASSUME NEW t \in Server, NEW i \in DOMAIN queue'[t], queue'[t][i].op \in Loads
        PROVE  queue'[t][i].p \in Player /\ LoadsFor(t, queue'[t][i].p)
    BY <1>2, <1>p, <2>1, <2>2 DEF LoadsFor
  <2> QED
    BY <1>1, <1>2, <2>2
<1>3. CASE Stays
  BY <1>1, <1>3, <1>p DEF Stays, session, LoadsFor
<1>4. ASSUME NEW s \in Server, Returned(s) PROVE OneLoads'
  BY <1>2, <1>4, <1>e DEF Returned, session
<1>5. ASSUME NEW s \in Server, NEW p \in Player, Barred(s, p) \/ Entered(s, p) PROVE OneLoads'
  BY <1>2, <1>5, <1>e DEF Barred, Refused, Denied, Answered, Entered
<1>6. ASSUME NEW s \in Server, queue[s] # <<>>, NEW p \in Player, NEW c \in DOMAIN survivor, Accepted(s, p, c)
      PROVE  OneLoads'
  <2>1. ASSUME NEW x PROVE \A k \in DOMAIN <<x>> : <<x>>[k] = x
    OBVIOUS
  <2>2. PICK new : Moved(s, 1, new) /\ \A k \in DOMAIN new : new[k].p = p
    BY <1>6, <2>1 DEF Accepted, Call
  <2>3. LoadsFor(s, p)
    BY <1>6, NextCall, TypeParts DEF Accepted, Answered, LoadsFor, Loads, ServersTyped
  <2> QED
    BY <1>2, <1>6, <2>2, <2>3 DEF Accepted, Answered
<1>7. ASSUME NEW s \in Server, Crash(s) PROVE OneLoads'
  BY <1>1, <1>7, <1>p, CrashEmpties DEF LoadsFor
<1>8. ASSUME NEW p \in Player, NEW s \in Server, AskedLoad(p, s) PROVE OneLoads'
  <2>1. PICK new : Asked(p, s, new) /\ DOMAIN new = {1} /\ new[1].op = "loadPlayer"
    BY <1>8, LoadIsFor
  <2>2. /\ Moved(s, 0, new) /\ at'[p] = s
        /\ \A q \in Player : q # p => at'[q] = at[q]
        /\ \A k \in DOMAIN new : new[k].p = p
    BY <1>8, <2>1 DEF AskedLoad, Asked
  <2>3. \A t \in Server : LoadsFor(t, p) => t = s
    <3>1. CASE at[p] = NoServer
      BY <1>8, <3>1, NoServerAssumption DEF AskedLoad, LoadsFor
    <3>2. CASE at[p] = s
      BY <1>0, <3>2, NoServerAssumption
    <3> QED
      BY <1>8, <3>1, <3>2 DEF AskedLoad
  <2>4. ASSUME NEW t \in Server, NEW i \in DOMAIN queue'[t], queue'[t][i].op \in Loads
        PROVE  \/ queue'[t][i].p = p /\ t = s
               \/ queue'[t][i].p \in Player \ {p} /\ LoadsFor(t, queue'[t][i].p)
    <3>1. \/ \E j \in DOMAIN queue[t] : queue'[t][i] = queue[t][j]
          \/ t = s /\ \E k \in DOMAIN new : queue'[t][i] = new[k]
      BY <2>2, MovedCalls
    <3>2. CASE \E j \in DOMAIN queue[t] : queue'[t][i] = queue[t][j]
      <4>1. PICK j \in DOMAIN queue[t] : queue'[t][i] = queue[t][j]
        BY <3>2
      <4>2. LoadsFor(t, queue'[t][i].p) /\ queue'[t][i].p \in Player
        BY <1>p, <2>4, <4>1 DEF LoadsFor
      <4> QED
        BY <2>3, <4>2
    <3>3. CASE t = s /\ \E k \in DOMAIN new : queue'[t][i] = new[k]
      <4>1. PICK k \in DOMAIN new : queue'[t][i] = new[k]
        BY <3>3
      <4>2. new[k].p = p
        BY <2>2
      <4> QED
        BY <3>3, <4>1, <4>2
    <3> QED
      BY <3>1, <3>2, <3>3
  <2> QED
    BY <1>0, <2>2, <2>4 DEF OneLoads
<1>9. ASSUME NEW p \in Player, NEW s \in Server, NEW new, Asked(p, s, new), at'[p] \in {at[p], NoServer},
             \A k \in DOMAIN new : new[k].op \notin Loads
      PROVE  OneLoads'
  BY <1>2, <1>9 DEF Asked
<1>10. ASSUME NEW p \in Player, NEW s \in Server, AskedSave(p, s) PROVE OneLoads'
  <2>1. PICK new : Asked(p, s, new) /\ \A k \in DOMAIN new : new[k].op = "playerUpdate"
    BY <1>10, SaveIsFor
  <2> QED
    BY <1>9, <1>10, <2>1 DEF AskedSave, session, Loads
<1>11. ASSUME NEW p \in Player, NEW s \in Server, NEW n \in 1..2, AskedDeath(p, s, n) PROVE OneLoads'
  <2>1. PICK new : Asked(p, s, new) /\ \A k \in DOMAIN new : new[k].op = "playerDeath"
    BY <1>11, DeathIsFor
  <2> QED
    BY <1>9, <1>11, <2>1 DEF AskedDeath, Loads
<1>12. ASSUME NEW p \in Player, NEW s \in Server, NEW new, AskedLeave(p, s, new) PROVE OneLoads'
  <2>1. PICK l \in DOMAIN new :
                   /\ new[l].op = "playerDisconnected"
                   /\ \A k \in DOMAIN new : k # l => new[k].op = "playerActiveServer"
    BY <1>12, LeaveIsFor
  <2>2. Asked(p, s, new) /\ at'[p] = NoServer
    BY <1>12 DEF AskedLeave
  <2>3. \A k \in DOMAIN new : new[k].op \notin Loads
    BY <2>1 DEF Loads
  <2> QED
    BY <1>9, <2>2, <2>3
<1> QED
  BY <1>3, <1>4, <1>5, <1>6, <1>7, <1>8, <1>10, <1>11, <1>12, SessionCases DEF Barred
----------------------------------------------------------------------------
(* The statements that change rows, field by field. *)
LEMMA Rows ==
  ASSUME TypeOK
  PROVE  /\ survivor \in Seq(RowSet) /\ \A c \in DOMAIN survivor : survivor[c] \in RowSet
BY TypeParts DEF TablesTyped

LEMMA HeadIs ==
  ASSUME TypeOK, NEW s \in Server, NEW op, NEW here, Executing(s, op, here)
  PROVE  /\ queue[s] # <<>> /\ 1 \in DOMAIN queue[s] /\ ThisCall(s) = queue[s][1] /\ queue[s][1].op = op
         /\ pc[s] = here /\ process[s] = "up" /\ queue[s][1].p \in Player /\ UNCHANGED <<process, history>>
BY NextCall, TypeParts DEF Executing, ServersTyped, CallSet

LEMMA ClaimFields ==
  ASSUME TypeOK, Owned, NEW s \in Server, ClaimCharacter(s), NEW c, c = queue[s][1].c
  PROVE  /\ queue[s] # <<>> /\ 1 \in DOMAIN queue[s] /\ queue[s][1].op = "loadCharacterDetails" /\ pc[s] = "start"
         /\ c \in DOMAIN survivor /\ survivor[c].unique_id = queue[s][1].p
         /\ DOMAIN survivor' = DOMAIN survivor
         /\ \A d \in DOMAIN survivor : d # c => survivor'[d] = survivor[d]
         /\ survivor'[c].is_dead = survivor[c].is_dead
         /\ survivor'[c].lastserver = s /\ survivor'[c].activeserver = s
         /\ UNCHANGED attempts
<1>1. Executing(s, "loadCharacterDetails", "start") /\ UNCHANGED attempts
  BY DEF ClaimCharacter
<1>2. c \in DOMAIN survivor /\ survivor[c].unique_id = queue[s][1].p /\ c = ThisCall(s).c
  BY ItsCharacter
<1>3. survivor[c] \in RowSet
  BY <1>2, Rows
<1>4. /\ Claimed(survivor[c], s).is_dead = survivor[c].is_dead
      /\ Claimed(survivor[c], s).lastserver = s /\ Claimed(survivor[c], s).activeserver = s
  BY <1>3, RowChanged
<1> QED
  BY <1>1, <1>2, <1>4, HeadIs, ClaimEffect, Rows

LEMMA KillFields ==
  ASSUME TypeOK, Owned, NEW s \in Server, KillCharacter(s), NEW c, c = queue[s][1].c
  PROVE  /\ queue[s] # <<>> /\ 1 \in DOMAIN queue[s] /\ queue[s][1].op = "playerDeath" /\ pc[s] = "kill"
         /\ c \in DOMAIN survivor /\ survivor[c].unique_id = queue[s][1].p
         /\ DOMAIN survivor' = DOMAIN survivor
         /\ \A d \in DOMAIN survivor : d # c => survivor'[d] = survivor[d]
         /\ survivor'[c].is_dead
         /\ survivor'[c].lastserver = survivor[c].lastserver
         /\ survivor'[c].activeserver = survivor[c].activeserver
         /\ UNCHANGED attempts
<1>1. Executing(s, "playerDeath", "kill") /\ UNCHANGED attempts
  BY DEF KillCharacter
<1>2. c \in DOMAIN survivor /\ survivor[c].unique_id = queue[s][1].p /\ c = ThisCall(s).c
  BY ItsCharacter
<1>3. survivor[c] \in RowSet
  BY <1>2, Rows
<1>4. /\ Killed(survivor[c]).is_dead
      /\ Killed(survivor[c]).lastserver = survivor[c].lastserver
      /\ Killed(survivor[c]).activeserver = survivor[c].activeserver
  BY <1>3, RowChanged
<1> QED
  BY <1>1, <1>2, <1>4, HeadIs, KillEffect, Rows

LEMMA FreedFields ==
  ASSUME TypeOK
  PROVE  \A c \in DOMAIN survivor : /\ Freed(survivor[c]).is_dead = survivor[c].is_dead
                                    /\ Freed(survivor[c]).lastserver = survivor[c].lastserver
                                    /\ Freed(survivor[c]).activeserver = NoServer
BY RowChanged, Rows DEF Freed, RowSet

LEMMA ReleaseFields ==
  ASSUME TypeOK, Owned, NEW s \in Server, ReleaseCharacter(s), NEW c, c = queue[s][1].c
  PROVE  /\ queue[s] # <<>> /\ 1 \in DOMAIN queue[s] /\ queue[s][1].op = "playerActiveServer" /\ pc[s] = "start"
         /\ pc'[s] = "releasePlayer" /\ Stays
         /\ c \in DOMAIN survivor /\ survivor[c].unique_id = queue[s][1].p
         /\ DOMAIN survivor' = DOMAIN survivor
         /\ \A d \in DOMAIN survivor : d # c => survivor'[d] = survivor[d]
         /\ survivor'[c].is_dead = survivor[c].is_dead
         /\ survivor'[c].lastserver = survivor[c].lastserver
         /\ survivor'[c].activeserver = NoServer
         /\ UNCHANGED attempts
<1>1. Executing(s, "playerActiveServer", "start") /\ UNCHANGED attempts /\ GoesOn(s, "releasePlayer")
      /\ survivor' = Released({ThisCall(s).c})
  BY DEF ReleaseCharacter
<1>2. c \in DOMAIN survivor /\ survivor[c].unique_id = queue[s][1].p /\ c = ThisCall(s).c
  BY ItsCharacter
<1>3. pc'[s] = "releasePlayer" /\ Stays
  BY <1>1, TypeParts DEF GoesOn, ServersTyped, Stays
<1>4. survivor' = Released({c})
  BY <1>1, <1>2
<1>5. /\ DOMAIN survivor' = DOMAIN survivor
      /\ \A d \in DOMAIN survivor \ {c} : survivor'[d] = survivor[d]
      /\ \A d \in DOMAIN survivor \intersect {c} : survivor'[d] = Freed(survivor[d])
  BY <1>4, ReleaseEffect, Rows
<1>6. /\ DOMAIN survivor' = DOMAIN survivor
      /\ \A d \in DOMAIN survivor : d # c => survivor'[d] = survivor[d]
      /\ survivor'[c] = Freed(survivor[c])
  BY <1>2, <1>5
<1>7. /\ queue[s] # <<>> /\ 1 \in DOMAIN queue[s] /\ queue[s][1].op = "playerActiveServer"
      /\ pc[s] = "start"
  BY <1>1, HeadIs
<1> QED
  BY <1>1, <1>2, <1>3, <1>6, <1>7, FreedFields

LEMMA ReleasePlayerFields ==
  ASSUME TypeOK, Owned, NEW s \in Server, ReleasePlayer(s)
  PROVE  /\ queue[s] # <<>> /\ 1 \in DOMAIN queue[s] /\ queue[s][1].op \in Frees
         /\ queue[s][1].op = "playerActiveServer" => pc[s] = "releasePlayer"
         /\ queue[s][1].op = "playerDisconnected" => pc[s] = "start"
         /\ pc'[s] = "start" /\ Moved(s, 1, <<>>) /\ UNCHANGED session
         /\ DOMAIN survivor' = DOMAIN survivor
         /\ \A d \in DOMAIN survivor :
              IF survivor[d].unique_id = queue[s][1].p /\ survivor[d].activeserver = s
                THEN /\ survivor'[d].is_dead = survivor[d].is_dead
                     /\ survivor'[d].lastserver = survivor[d].lastserver
                     /\ survivor'[d].activeserver = NoServer
                ELSE survivor'[d] = survivor[d]
         /\ UNCHANGED attempts
<1>1. Releasing(s)
  BY DEF ReleasePlayer
<1>2. Returns(s) /\ UNCHANGED attempts
  BY DEF ReleasePlayer
<1>3. /\ queue[s] # <<>> /\ 1 \in DOMAIN queue[s] /\ queue[s][1].op \in Frees
      /\ queue[s][1].op = "playerActiveServer" => pc[s] = "releasePlayer"
      /\ queue[s][1].op = "playerDisconnected" => pc[s] = "start"
      /\ ThisCall(s) = queue[s][1]
  BY <1>1, NextCall, TypeParts DEF Releasing, Frees, ServersTyped
<1>4. pc'[s] = "start" /\ Moved(s, 1, <<>>) /\ UNCHANGED session
  BY <1>2, <1>3, MovedShort, TypeParts DEF Returns, Finishes, ServersTyped
<1> DEFINE R == Where(LAMBDA r : /\ r.unique_id = ThisCall(s).p /\ r.activeserver = s)
<1>5. survivor' = Released(R)
  BY DEF ReleasePlayer
<1>6. R = {c \in DOMAIN survivor : survivor[c].unique_id = ThisCall(s).p /\ survivor[c].activeserver = s}
  BY DEF Where
<1>7. \A c \in DOMAIN survivor :
        c \in R <=> survivor[c].unique_id = queue[s][1].p /\ survivor[c].activeserver = s
  BY <1>3, <1>6
<1> HIDE DEF R
<1> QED
  BY <1>2, <1>3, <1>4, <1>5, <1>7, ReleaseEffect, Rows, FreedFields

LEMMA ResetFields ==
  ASSUME TypeOK, NEW s \in Server, ResetGhosting(s)
  PROVE  /\ process[s] # "up" /\ process' = [process EXCEPT ![s] = "up"]
         /\ UNCHANGED <<attempts, queue, pc, session, history>>
         /\ DOMAIN survivor' = DOMAIN survivor
         /\ \A d \in DOMAIN survivor :
              IF s \in {survivor[d].lastserver, survivor[d].activeserver}
                THEN /\ survivor'[d].is_dead = survivor[d].is_dead
                     /\ survivor'[d].lastserver = NoServer
                     /\ survivor'[d].activeserver = NoServer
                ELSE survivor'[d] = survivor[d]
<1>1. /\ process[s] # "up" /\ process' = [process EXCEPT ![s] = "up"]
      /\ UNCHANGED <<attempts, queue, pc, session, history>>
  BY DEF ResetGhosting
<1>2. \A c \in DOMAIN survivor : /\ Reset(survivor[c]).is_dead = survivor[c].is_dead
                                 /\ Reset(survivor[c]).lastserver = NoServer
                                 /\ Reset(survivor[c]).activeserver = NoServer
  BY Rows DEF Reset, RowSet
<1> QED
  BY <1>1, <1>2, ResetEffect, Rows

LEMMA InsertFields ==
  ASSUME TypeOK, NEW s \in Server, InsertCharacter(s)
  PROVE  /\ queue[s] # <<>> /\ 1 \in DOMAIN queue[s] /\ queue[s][1].op = "loadPlayer"
         /\ pc[s] = "insertCharacter" /\ pc'[s] = "selectNew" /\ Stays
         /\ \A d \in DOMAIN survivor : survivor'[d] = survivor[d]
         /\ \E n : /\ n \notin DOMAIN survivor /\ DOMAIN survivor' = DOMAIN survivor \union {n}
                   /\ survivor'[n].unique_id = queue[s][1].p
                   /\ survivor'[n].world_id = world_id[s]
                   /\ survivor'[n].is_dead = FALSE
                   /\ survivor'[n].lastserver = NoServer
                   /\ survivor'[n].activeserver = NoServer
         /\ UNCHANGED attempts
<1>1. /\ Executing(s, "loadPlayer", "insertCharacter") /\ UNCHANGED attempts /\ GoesOn(s, "selectNew")
      /\ survivor' = Append(survivor, Row(ThisCall(s).p, s))
  BY DEF InsertCharacter
<1>2. queue[s][1].p \in Player /\ ThisCall(s) = queue[s][1]
  BY <1>1, HeadIs
<1> DEFINE r == Row(queue[s][1].p, s)
<1>3. r \in RowSet
  BY <1>2, RowTyped
<1>4. /\ r.unique_id = queue[s][1].p /\ r.world_id = world_id[s] /\ r.is_dead = FALSE
      /\ r.lastserver = NoServer /\ r.activeserver = NoServer
  BY DEF Row
<1>5. survivor' = Append(survivor, r)
  BY <1>1, <1>2
<1> HIDE DEF r
<1>6. /\ DOMAIN survivor' = DOMAIN survivor \union {Len(survivor) + 1}
      /\ \A c \in DOMAIN survivor : survivor'[c] = survivor[c]
      /\ survivor'[Len(survivor) + 1] = r
      /\ Len(survivor) + 1 \notin DOMAIN survivor
  BY <1>3, <1>5, Rows, InsertEffect
<1>7. pc'[s] = "selectNew" /\ Stays
  BY <1>1, TypeParts DEF GoesOn, ServersTyped, Stays
<1>8. /\ queue[s] # <<>> /\ 1 \in DOMAIN queue[s] /\ queue[s][1].op = "loadPlayer"
      /\ pc[s] = "insertCharacter"
  BY <1>1, HeadIs
<1> QED
  BY <1>1, <1>4, <1>6, <1>7, <1>8

(* The statements that leave the rows alone. *)
LEMMA RowCases ==
  ASSUME [Next]_vars
  PROVE  \/ UNCHANGED survivor
         \/ \E s \in Server : \/ InsertCharacter(s) \/ ClaimCharacter(s) \/ KillCharacter(s)
                              \/ ReleaseCharacter(s) \/ ReleasePlayer(s) \/ ResetGhosting(s)
<1>1. ASSUME NEW s \in Server,
             \/ SelectProfile(s) \/ InsertProfile(s) \/ SelectCharacter(s) \/ SelectNew(s)
             \/ SaveCharacter(s) \/ CountDeath(s) \/ Crash(s) \/ Fail(s) \/ Starts(s)
       PROVE UNCHANGED survivor
  BY <1>1 DEF SelectProfile, InsertProfile, SelectCharacter, SelectNew, SaveCharacter, CountDeath, Crash, Fail,
       Starts, Boot, FailToReset, tables
<1>2. ASSUME NEW p \in Player, Asks(p) PROVE UNCHANGED survivor
  BY <1>2 DEF Asks, Join, AskAgain, Save, Die, Respawn, Leave, Calls, tables
<1>3. UNCHANGED vars => UNCHANGED survivor
  BY DEF vars, tables
<1> QED
  BY <1>1, <1>2, <1>3, NextCases DEF Statement

LEMMA LastClaimedKept == TypeOK /\ Owned /\ LastClaimed /\ [Next]_vars => LastClaimed'
<1> SUFFICES ASSUME TypeOK, Owned, LastClaimed, [Next]_vars PROVE LastClaimed'
  OBVIOUS
<1>1. CASE UNCHANGED survivor
  BY <1>1 DEF LastClaimed
<1>2. ASSUME NEW s \in Server, ClaimCharacter(s) PROVE LastClaimed'
  BY <1>2, ClaimFields DEF LastClaimed
<1>3. ASSUME NEW s \in Server, KillCharacter(s) PROVE LastClaimed'
  BY <1>3, KillFields DEF LastClaimed
<1>4. ASSUME NEW s \in Server, ReleaseCharacter(s) PROVE LastClaimed'
  BY <1>4, ReleaseFields DEF LastClaimed
<1>5. ASSUME NEW s \in Server, ReleasePlayer(s) PROVE LastClaimed'
  BY <1>5, ReleasePlayerFields DEF LastClaimed
<1>6. ASSUME NEW s \in Server, ResetGhosting(s) PROVE LastClaimed'
  BY <1>6, ResetFields DEF LastClaimed
<1>7. ASSUME NEW s \in Server, InsertCharacter(s) PROVE LastClaimed'
  <2>1. PICK n : /\ DOMAIN survivor' = DOMAIN survivor \union {n}
                 /\ survivor'[n].activeserver = NoServer
                 /\ \A d \in DOMAIN survivor : survivor'[d] = survivor[d]
    BY <1>7, InsertFields
  <2> QED
    BY <2>1 DEF LastClaimed
<1> QED
  BY <1>1, <1>2, <1>3, <1>4, <1>5, <1>6, <1>7, RowCases
----------------------------------------------------------------------------
(* Custody.  No statement takes a claim from a server that needs it, or    *)
(* one on a character that is played.                                      *)
Custodies == TypeOK /\ Executes /\ Owned /\ InTurn /\ FreedLast /\ LastClaimed /\ OneLoads
             /\ Custody /\ ClaimHeld /\ ~hurried

CallsHeld == \A t \in Server : \A i \in DOMAIN queue[t] : LET c == queue[t][i].c IN
  /\ Needs(t, i) => survivor'[c].activeserver = t \/ (i = 1 /\ pc'[t] = "releasePlayer")
  /\ queue[t][i].op = "loadCharacterDetails" => survivor'[c].activeserver \in {t, NoServer}

PlaysHeld == \A p \in Player :
  phase[p] = "playing" => survivor'[id[p]].activeserver = at[p]

(* What is pending or played, and about which characters. *)
LEMMA CustodyParts ==
  ASSUME Custodies
  PROVE  /\ \A t \in Server : \A i \in DOMAIN queue[t] : LET c == queue[t][i].c IN
              /\ Needs(t, i) => /\ c \in DOMAIN survivor /\ survivor[c].unique_id = queue[t][i].p
                                /\ survivor[c].activeserver = t
                                /\ queue[t][i].op \in Owners
              /\ queue[t][i].op = "loadCharacterDetails" =>
                                /\ c \in DOMAIN survivor /\ survivor[c].unique_id = queue[t][i].p
                                /\ survivor[c].activeserver \in {t, NoServer}
         /\ \A p \in Player : phase[p] = "playing" =>
              /\ id[p] \in DOMAIN survivor /\ survivor[id[p]].unique_id = p
              /\ survivor[id[p]].activeserver = at[p] /\ at[p] \in Server
<1>1. \A p \in Player : phase[p] = "playing" => at[p] \in Server
  BY Present DEF Custodies
<1> QED
  BY <1>1 DEF Custodies, Custody, ClaimHeld, Needs, Owned

LEMMA ClaimHolds ==
  ASSUME Custodies, NEW s \in Server, ClaimCharacter(s)
  PROVE  CallsHeld /\ PlaysHeld
<1> DEFINE c == queue[s][1].c
<1>1. /\ 1 \in DOMAIN queue[s] /\ queue[s][1].op = "loadCharacterDetails"
      /\ c \in DOMAIN survivor /\ survivor[c].unique_id = queue[s][1].p
      /\ \A d \in DOMAIN survivor : d # c => survivor'[d] = survivor[d]
      /\ survivor'[c].activeserver = s
  BY ClaimFields DEF Custodies
<1> HIDE DEF c
<1>2. s # NoServer /\ NoServer \notin Server
  BY NoServerAssumption
<1>3. survivor[c].activeserver \in {s, NoServer}
  BY <1>1, CustodyParts DEF c
<1>4. ASSUME NEW t \in Server, NEW i \in DOMAIN queue[t],
             queue[t][i].op = "loadCharacterDetails", queue[t][i].c = c
      PROVE  t = s
  <2>1. queue[t][i].p = queue[s][1].p
    BY <1>1, <1>4, CustodyParts DEF c
  <2> QED
    BY <1>1, <1>4, <2>1 DEF Custodies, OneLoads, Loads
<1>5. CallsHeld
  BY <1>1, <1>2, <1>3, <1>4, CustodyParts DEF CallsHeld
<1>6. PlaysHeld
  BY <1>1, <1>2, <1>3, CustodyParts DEF PlaysHeld
<1> QED
  BY <1>5, <1>6

LEMMA ReleaseHolds ==
  ASSUME Custodies, NEW s \in Server, ReleaseCharacter(s)
  PROVE  CallsHeld /\ PlaysHeld
<1> DEFINE c == queue[s][1].c
<1>1. /\ 1 \in DOMAIN queue[s] /\ queue[s][1].op = "playerActiveServer"
      /\ pc[s] = "start" /\ pc'[s] = "releasePlayer"
      /\ c \in DOMAIN survivor /\ survivor[c].unique_id = queue[s][1].p
      /\ \A d \in DOMAIN survivor : d # c => survivor'[d] = survivor[d]
      /\ survivor'[c].activeserver = NoServer
  BY ReleaseFields DEF Custodies
<1> HIDE DEF c
<1>2. s # NoServer /\ NoServer \notin Server
  BY NoServerAssumption
<1>3. survivor[c].activeserver = s
  BY <1>1, CustodyParts DEF c, Needs, Owners
<1>4. ASSUME NEW t \in Server, NEW i \in DOMAIN queue[t], Needs(t, i), queue[t][i].c = c
      PROVE  t = s /\ i = 1
  <2>1. queue[t][i].p = queue[s][1].p /\ t = s /\ queue[t][i].op \in Owners
    BY <1>1, <1>3, <1>4, CustodyParts DEF c
  <2>2. ~(1 < i)
    BY <1>1, <2>1 DEF Custodies, FreedLast, Frees
  <2>3. i \in Nat \ {0}
    BY QueueIs, TypeParts DEF Custodies, ServersTyped
  <2> QED
    BY <2>1, <2>2, <2>3
<1>5. CallsHeld
  BY <1>1, <1>4, CustodyParts DEF CallsHeld
<1>6. PlaysHeld
  <2>1. ASSUME NEW p \in Player, phase[p] = "playing", id[p] = c PROVE FALSE
    <3>1. queue[s][1].p = p /\ at[p] = s
      BY <1>1, <1>3, <2>1, CustodyParts
    <3> QED
      BY <1>1, <1>2, <2>1, <3>1 DEF Custodies, InTurn
  <2> QED
    BY <1>1, <2>1, CustodyParts DEF PlaysHeld
<1> QED
  BY <1>5, <1>6

LEMMA ReleasePlayerHolds ==
  ASSUME Custodies, NEW s \in Server, ReleasePlayer(s)
  PROVE  CallsHeld /\ PlaysHeld
<1>1. /\ 1 \in DOMAIN queue[s] /\ queue[s][1].op \in Frees
      /\ queue[s][1].op = "playerActiveServer" => pc[s] = "releasePlayer"
      /\ \A d \in DOMAIN survivor :
           IF survivor[d].unique_id = queue[s][1].p /\ survivor[d].activeserver = s
             THEN survivor'[d].activeserver = NoServer
             ELSE survivor'[d] = survivor[d]
  BY ReleasePlayerFields DEF Custodies
<1>2. s # NoServer /\ NoServer \notin Server
  BY NoServerAssumption
<1>4. ASSUME NEW t \in Server, NEW i \in DOMAIN queue[t], Needs(t, i)
      PROVE  ~(t = s /\ queue[t][i].p = queue[s][1].p)
  <2>1. ASSUME t = s, queue[t][i].p = queue[s][1].p PROVE ~(1 < i)
    BY <1>1, <1>4, <2>1 DEF Custodies, FreedLast, Needs
  <2>2. ~(t = s /\ i = 1)
    BY <1>1, <1>4 DEF Needs, Frees, Owners
  <2>3. i \in Nat \ {0}
    BY QueueIs, TypeParts DEF Custodies, ServersTyped
  <2> QED
    BY <2>1, <2>2, <2>3
<1>5. CallsHeld
  BY <1>1, <1>4, CustodyParts DEF CallsHeld
<1>6. PlaysHeld
  <2>1. ASSUME NEW p \in Player, phase[p] = "playing", queue[s][1].p = p, at[p] = s PROVE FALSE
    BY <1>1, <1>2, <2>1 DEF Custodies, InTurn, Frees
  <2> QED
    BY <1>1, <2>1, CustodyParts DEF PlaysHeld
<1> QED
  BY <1>5, <1>6

LEMMA ResetHolds ==
  ASSUME Custodies, NEW s \in Server, ResetGhosting(s)
  PROVE  CallsHeld /\ PlaysHeld
<1>1. /\ process[s] # "up"
      /\ \A d \in DOMAIN survivor :
              IF s \in {survivor[d].lastserver, survivor[d].activeserver}
                THEN survivor'[d].activeserver = NoServer
                ELSE survivor'[d] = survivor[d]
  BY ResetFields DEF Custodies
<1>2. queue[s] = <<>> /\ \A p \in Player : at[p] # s
  BY <1>1 DEF Custodies, Executes
<1>3. DOMAIN queue[s] = {}
  BY <1>2, QueueIs, TypeParts DEF Custodies, ServersTyped
<1>4. \A d \in DOMAIN survivor :
        survivor[d].activeserver \in Server \ {s} => survivor'[d] = survivor[d]
  BY <1>1, NoServerAssumption DEF Custodies, LastClaimed
<1>5. CallsHeld
  <2>1. ASSUME NEW t \in Server, NEW i \in DOMAIN queue[t] PROVE t # s
    BY <1>3
  <2> QED
    BY <1>1, <1>4, <2>1, CustodyParts DEF CallsHeld
<1>6. PlaysHeld
  BY <1>2, <1>4, CustodyParts DEF PlaysHeld
<1> QED
  BY <1>5, <1>6

LEMMA RowsHold ==
  ASSUME Custodies, [Next]_vars
  PROVE  CallsHeld /\ PlaysHeld
<1>1. ASSUME \A c \in DOMAIN survivor : survivor'[c].activeserver = survivor[c].activeserver
      PROVE  CallsHeld /\ PlaysHeld
  BY <1>1, CustodyParts DEF CallsHeld, PlaysHeld
<1>2. ASSUME NEW s \in Server, KillCharacter(s)
      PROVE  \A c \in DOMAIN survivor : survivor'[c].activeserver = survivor[c].activeserver
  BY <1>2, KillFields DEF Custodies
<1>3. ASSUME NEW s \in Server, InsertCharacter(s)
      PROVE  \A c \in DOMAIN survivor : survivor'[c].activeserver = survivor[c].activeserver
  BY <1>3, InsertFields DEF Custodies
<1> QED
  BY <1>1, <1>2, <1>3, ClaimHolds, ReleaseHolds, ReleasePlayerHolds, ResetHolds, RowCases

(* The queues that result. *)
CallHeld(s, call) ==
  /\ call.op \in Owners => survivor'[call.c].activeserver = s
  /\ call.op = "loadCharacterDetails" => survivor'[call.c].activeserver \in {s, NoServer}

CustodyNext ==
  \A t \in Server : \A i \in DOMAIN queue'[t] :
    /\ queue'[t][i].op \in Owners /\ ~(i = 1 /\ pc'[t] = "releasePlayer") =>
         survivor'[queue'[t][i].c].activeserver = t
    /\ queue'[t][i].op = "loadCharacterDetails" =>
         survivor'[queue'[t][i].c].activeserver \in {t, NoServer}

LEMMA CustodyNextIs == CustodyNext => Custody'
BY DEF CustodyNext, Custody, Needs

LEMMA CustodyStays ==
  ASSUME CallsHeld, Stays, \A t \in Server : pc[t] = "releasePlayer" => pc'[t] = "releasePlayer"
  PROVE  CustodyNext
BY DEF CallsHeld, CustodyNext, Stays, Needs

LEMMA CustodyMoved ==
  ASSUME CallsHeld, TypeOK, NEW s \in Server, NEW d \in {0, 1}, NEW new, Moved(s, d, new),
         \A t \in Server : t # s => pc'[t] = pc[t],
         d = 0 => pc'[s] = pc[s],
         \A k \in DOMAIN new : CallHeld(s, new[k])
  PROVE  CustodyNext
<1>1. ASSUME NEW t \in Server, NEW i \in DOMAIN queue'[t],
             queue'[t][i].op \in Owners, ~(i = 1 /\ pc'[t] = "releasePlayer")
      PROVE  survivor'[queue'[t][i].c].activeserver = t
  <2>1. CASE t # s
    <3>1. queue'[t] = queue[t] /\ pc'[t] = pc[t]
      BY <2>1 DEF Moved
    <3> QED
      BY <1>1, <3>1 DEF CallsHeld, Needs
  <2>2. CASE t = s /\ i + d - Len(queue[s]) \in DOMAIN new /\ queue'[s][i] = new[i + d - Len(queue[s])]
    BY <1>1, <2>2 DEF CallHeld
  <2>3. CASE t = s /\ i + d \in DOMAIN queue[s] /\ queue'[s][i] = queue[s][i + d]
    <3>1. d = 1 => i + d # 1
      <4>1. i \in Nat \ {0}
        BY <2>3 DEF Moved
      <4> QED
        BY <4>1
    <3>2. d = 0 => i + d = i
      BY <2>3 DEF Moved
    <3> DEFINE j == i + d
    <3>3. j \in DOMAIN queue[s] /\ queue'[s][i] = queue[s][j] /\ (d = 1 => j # 1) /\ (d = 0 => j = i)
      BY <2>3, <3>1, <3>2
    <3> HIDE DEF j
    <3>4. ~(j = 1 /\ pc[s] = "releasePlayer") /\ ~(j = 1 /\ pc'[s] = "releasePlayer")
      BY <1>1, <2>3, <3>3
    <3>5. Needs(s, j)
      BY <1>1, <2>3, <3>3, <3>4 DEF Needs
    <3> QED
      BY <2>3, <3>3, <3>4, <3>5 DEF CallsHeld
  <2> QED
    BY <2>1, <2>2, <2>3 DEF Moved
<1>2. ASSUME NEW t \in Server, NEW i \in DOMAIN queue'[t], queue'[t][i].op = "loadCharacterDetails"
      PROVE  survivor'[queue'[t][i].c].activeserver \in {t, NoServer}
  <2>1. \/ \E j \in DOMAIN queue[t] : queue'[t][i] = queue[t][j]
        \/ t = s /\ \E k \in DOMAIN new : queue'[t][i] = new[k]
    BY MovedCalls
  <2>2. CASE \E j \in DOMAIN queue[t] : queue'[t][i] = queue[t][j]
    BY <1>2, <2>2 DEF CallsHeld
  <2>3. CASE t = s /\ \E k \in DOMAIN new : queue'[t][i] = new[k]
    BY <1>2, <2>3 DEF CallHeld
  <2> QED
    BY <2>1, <2>2, <2>3
<1> QED
  BY <1>1, <1>2 DEF CustodyNext

LEMMA ClaimHeldStays ==
  ASSUME PlaysHeld, \A p \in Player : phase'[p] = "playing" =>
                      /\ phase[p] = "playing" /\ id'[p] = id[p] /\ at'[p] = at[p]
  PROVE  ClaimHeld'
BY DEF PlaysHeld, ClaimHeld

LEMMA CustodyKept == Custodies /\ StillNone /\ [Next]_vars => Custody' /\ ClaimHeld'
<1> SUFFICES ASSUME Custodies, StillNone, [Next]_vars PROVE Custody' /\ ClaimHeld'
  OBVIOUS
<1> USE CustodyNextIs, ClaimHeldStays
<1>0. CallsHeld /\ PlaysHeld /\ TypeOK /\ Executes
  BY RowsHold DEF Custodies
<1>e. DOMAIN <<>> = {}
  OBVIOUS
<1>1. CASE Stays /\ \A t \in Server : pc[t] = "releasePlayer" => pc'[t] = "releasePlayer"
  BY <1>0, <1>1, CustodyStays DEF Stays, session
<1>2. ASSUME NEW s \in Server, Returned(s), \A t \in Server : t # s => pc'[t] = pc[t]
      PROVE  Custody' /\ ClaimHeld'
  BY <1>0, <1>2, <1>e, CustodyMoved DEF Returned, session
<1>3. ASSUME NEW s \in Server, NEW p \in Player, Barred(s, p), \A t \in Server : t # s => pc'[t] = pc[t]
      PROVE  Custody' /\ ClaimHeld'
  <2>1. CustodyNext
    BY <1>0, <1>3, <1>e, CustodyMoved DEF Barred, Refused, Denied
  <2>2. UNCHANGED <<at, id>> /\ \A q \in Player : phase'[q] = "playing" => phase[q] = "playing"
    BY <1>0, <1>3, TypeParts DEF Barred, Refused, Denied, Answered, SessionTyped
  <2> QED
    BY <1>0, <2>1, <2>2
<1>4. ASSUME NEW s \in Server, NEW p \in Player, Entered(s, p), \A t \in Server : t # s => pc'[t] = pc[t]
      PROVE  Custody' /\ ClaimHeld'
  <2>1. CustodyNext
    BY <1>0, <1>4, <1>e, CustodyMoved DEF Entered
  <2>2. UNCHANGED <<at, id>> /\ \A q \in Player : q # p => phase'[q] = phase[q]
    BY <1>0, <1>4, TypeParts DEF Entered, SessionTyped
  <2>3. ClaimCharacter(s) /\ id[p] = queue[s][1].c /\ at[p] = s
    BY <1>4 DEF Entered
  <2>4. survivor'[id[p]].activeserver = at[p]
    BY <2>3, ClaimFields DEF Custodies
  <2> QED
    BY <1>0, <2>1, <2>2, <2>4 DEF ClaimHeld, PlaysHeld
<1>5. ASSUME NEW s \in Server, queue[s] # <<>>, NEW p \in Player, NEW c \in DOMAIN survivor, Accepted(s, p, c),
             \A t \in Server : t # s => pc'[t] = pc[t]
      PROVE  Custody' /\ ClaimHeld'
  <2>1. survivor[c].activeserver \in {s, NoServer} /\ UNCHANGED survivor
    <3>1. CASE pc[s] = "selectCharacter"
      BY <1>5, <3>1 DEF Accepted, Answered
    <3>2. CASE pc[s] = "selectNew"
      BY <1>5, <3>2 DEF Accepted, Answered, StillNone, Custodies
    <3> QED
      BY <1>5, <3>1, <3>2 DEF Accepted
  <2>2. PICK new : Moved(s, 1, new) /\ \A k \in DOMAIN new : new[k] = Call("loadCharacterDetails", p, c)
    <3>1. ASSUME NEW x PROVE \A k \in DOMAIN <<x>> : <<x>>[k] = x
      OBVIOUS
    <3> QED
      BY <1>5, <3>1 DEF Accepted
  <2>3. CallHeld(s, Call("loadCharacterDetails", p, c))
    BY <2>1 DEF CallHeld, Call, Owners
  <2>4. CustodyNext
    BY <1>0, <1>5, <2>2, <2>3, CustodyMoved
  <2>5. UNCHANGED at /\ \A q \in Player : phase'[q] = "playing" => phase[q] = "playing" /\ id'[q] = id[q]
    BY <1>0, <1>5, TypeParts DEF Accepted, Answered, SessionTyped
  <2> QED
    BY <1>0, <2>4, <2>5
<1>6. ASSUME NEW s \in Server, Crash(s) PROVE Custody' /\ ClaimHeld'
  <2>1. CustodyNext
    BY <1>0, <1>6, CrashEmpties DEF CallsHeld, CustodyNext, Needs
  <2> QED
    BY <1>0, <1>6, <2>1, CrashEmpties
<1>7. ASSUME NEW p \in Player, NEW s \in Server, NEW new, Asked(p, s, new),
             phase'[p] = "playing" => phase[p] = "playing" /\ id'[p] = id[p] /\ at'[p] = at[p],
             \A k \in DOMAIN new :
               /\ new[k].op # "loadCharacterDetails"
               /\ new[k].op \in Owners => at[p] = s /\ phase[p] = "playing" /\ new[k].c = id[p]
      PROVE  Custody' /\ ClaimHeld'
  <2>1. \A k \in DOMAIN new : CallHeld(s, new[k])
    BY <1>0, <1>7 DEF CallHeld, PlaysHeld
  <2>2. Moved(s, 0, new) /\ UNCHANGED pc
    BY <1>7 DEF Asked
  <2>3. CustodyNext
    BY <1>0, <2>1, <2>2, CustodyMoved
  <2> QED
    BY <1>0, <1>7, <2>3 DEF Asked
<1>8. ASSUME NEW p \in Player, NEW s \in Server, AskedLoad(p, s) PROVE Custody' /\ ClaimHeld'
  <2>1. PICK new : Asked(p, s, new) /\ DOMAIN new = {1} /\ new[1].op = "loadPlayer"
    BY <1>8, LoadIsFor
  <2> QED
    BY <1>7, <1>8, <2>1 DEF AskedLoad, Owners
<1>9. ASSUME NEW p \in Player, NEW s \in Server, AskedSave(p, s) PROVE Custody' /\ ClaimHeld'
  <2>1. PICK new : Asked(p, s, new) /\ \A k \in DOMAIN new : new[k].op = "playerUpdate" /\ new[k].c = id[p]
    BY <1>9, SaveIsFor
  <2> QED
    BY <1>7, <1>9, <2>1 DEF AskedSave, session
<1>10. ASSUME NEW p \in Player, NEW s \in Server, NEW n \in 1..2, AskedDeath(p, s, n) PROVE Custody' /\ ClaimHeld'
  <2>1. PICK new : Asked(p, s, new) /\ \A k \in DOMAIN new : new[k].op = "playerDeath" /\ new[k].c = id[p]
    BY <1>10, DeathIsFor
  <2> QED
    BY <1>7, <1>10, <2>1 DEF AskedDeath
<1>11. ASSUME NEW p \in Player, NEW s \in Server, NEW new, AskedLeave(p, s, new) PROVE Custody' /\ ClaimHeld'
  <2>1. PICK l \in DOMAIN new :
                   /\ new[l].op = "playerDisconnected"
                   /\ \A k \in DOMAIN new : k # l =>
                        /\ new[k].op = "playerActiveServer" /\ new[k].c = id[p]
                        /\ phase[p] = "playing"
    BY <1>11, LeaveIsFor
  <2>2. Asked(p, s, new) /\ at[p] = s /\ phase'[p] = "away"
    BY <1>11 DEF AskedLeave
  <2>3. \A k \in DOMAIN new :
               /\ new[k].op # "loadCharacterDetails"
               /\ new[k].op \in Owners => at[p] = s /\ phase[p] = "playing" /\ new[k].c = id[p]
    BY <2>1, <2>2 DEF Owners
  <2> QED
    BY <1>7, <2>2, <2>3
<1> QED
  BY <1>0, <1>1, <1>2, <1>3, <1>4, <1>5, <1>6, <1>8, <1>9, <1>10, <1>11, SessionCases DEF Barred
----------------------------------------------------------------------------
(* What loadPlayer has found out still holds.  The call that looks for a   *)
(* character, or inserts one, is the only one that loads for its player.   *)
LEMMA AnswersPc ==
  ASSUME TypeOK, NEW s \in Server, NEW p, NEW c, NEW active, Answers(s, p, c, active)
  PROVE  pc'[s] = "start"
BY TypeParts DEF ServersTyped, Answers, Returns, Finishes

(* The call that is executed breaks off: its server crashes, or its        *)
(* statement fails.                                                        *)
BreaksOff(s) == Crash(s) \/ Fail(s)

LEMMA BreaksOffEffect ==
  ASSUME TypeOK, NEW s \in Server, BreaksOff(s)
  PROVE  /\ pc'[s] = "start" /\ \A t \in Server : t # s => pc'[t] = pc[t] /\ queue'[t] = queue[t]
         /\ UNCHANGED <<survivor, attempts, hurried>>
         /\ torn' = (torn \/ pc[s] = "kill")
<1>1. CASE Crash(s)
  BY <1>1, CrashEmpties
<1>2. CASE Fail(s)
  <2>1. UNCHANGED tables /\ Over(s) /\ pc' = [pc EXCEPT ![s] = pc'[s]] /\ UNCHANGED hurried
    BY <1>2, FailEffect
  <2>2. pc'[s] = "start" /\ \A t \in Server : t # s => queue'[t] = queue[t]
    BY <2>1 DEF Over, Returned, Refused, Denied, Entered, Accepted, Moved
  <2>3. \A t \in Server : t # s => pc'[t] = pc[t]
    BY <2>1, TypeParts DEF ServersTyped
  <2>4. torn' = (torn \/ pc[s] = "kill")
    BY <1>2 DEF Fail
  <2> QED
    BY <2>1, <2>2, <2>3, <2>4 DEF tables
<1> QED
  BY <1>1, <1>2 DEF BreaksOff

(* What another does leaves a server at its statement. *)
LEMMA ElsewhereSame ==
  ASSUME TypeOK, Executes, [Next]_vars, NEW t \in Server, ~Statement(t), ~BreaksOff(t)
  PROVE  /\ pc[t] = pc'[t]
         /\ queue[t] # <<>> => queue'[t][1] = queue[t][1]
<1> DEFINE Same == /\ pc[t] = pc'[t]
                   /\ queue[t] # <<>> => queue'[t][1] = queue[t][1]
<1>1. pc \in [Server -> Statements] /\ queue \in Queues
  BY TypeParts DEF ServersTyped
<1>4. ASSUME NEW s \in Server, s # t, Statement(s) PROVE Same
  <2>1. pc'[t] = pc[t]
    BY <1>1, <1>4, StatementEffect
  <2>2. GoneOn(s) \/ Over(s)
    BY <1>4, StatementEffect
  <2>3. queue'[t] = queue[t]
    BY <1>4, <2>2 DEF GoneOn, Over, Stays, Returned, Refused, Denied, Entered, Accepted, Moved
  <2> QED
    BY <2>1, <2>3
<1>5. ASSUME NEW s \in Server, s # t, BreaksOff(s) PROVE Same
  BY <1>5, BreaksOffEffect
<1>6. ASSUME NEW s \in Server, ResetGhosting(s) \/ Starts(s) PROVE Same
  BY <1>6, StartsEffect DEF ResetGhosting
<1>7. ASSUME NEW p \in Player, Asks(p) PROVE Same
  <2>0. PICK s \in Server : \E new : Moved(s, 0, new) /\ UNCHANGED pc
    BY <1>7, AskedIs DEF AskedLoad, AskedSave, AskedDeath, AskedLeave, Asked
  <2>1. PICK new : Moved(s, 0, new) /\ UNCHANGED pc
    BY <2>0
  <2>2. queue[t] # <<>> => queue'[t][1] = queue[t][1]
    <3>1. CASE t # s
      BY <2>1, <3>1 DEF Moved
    <3>2. CASE t = s
      <4>1. queue[s] # <<>> => 1 \in DOMAIN queue[s] /\ 1 > 0 /\ 1 - 0 = 1
        BY <1>1, NextCall
      <4>2. \A i \in DOMAIN queue[s] : i > 0 => queue'[s][i - 0] = queue[s][i]
        BY <2>1, MovedForward
      <4> QED
        BY <3>2, <4>1, <4>2
    <3> QED
      BY <3>1, <3>2
  <2> QED
    BY <2>1, <2>2
<1>8. CASE UNCHANGED vars
  BY <1>8 DEF vars
<1> QED
  BY <1>4, <1>5, <1>6, <1>7, <1>8, NextCases DEF BreaksOff

LEMMA Searches ==
  ASSUME TypeOK, Executes, [Next]_vars, NEW t \in Server, pc'[t] \in {"insertCharacter", "selectNew"}
  PROVE  \/ /\ pc[t] = pc'[t] /\ ~InsertCharacter(t)
            /\ queue[t] # <<>> /\ 1 \in DOMAIN queue[t] /\ queue'[t][1] = queue[t][1]
         \/ /\ pc'[t] = "insertCharacter" /\ UNCHANGED <<queue, survivor>>
            /\ Alive(t, queue[t][1].p) = {}
         \/ pc'[t] = "selectNew" /\ InsertCharacter(t) /\ UNCHANGED queue
<1>1. pc \in [Server -> Statements] /\ queue \in Queues
  BY TypeParts DEF ServersTyped
<1>2. InsertCharacter(t) => pc[t] = "insertCharacter" /\ pc'[t] = "selectNew" /\ UNCHANGED queue
  BY InsertFields DEF Stays
<1>3. ASSUME ~Statement(t)
      PROVE  /\ ~InsertCharacter(t) /\ queue[t] # <<>> /\ 1 \in DOMAIN queue[t] /\ pc[t] = pc'[t]
             /\ queue'[t][1] = queue[t][1]
  <2>1. ~BreaksOff(t)
    BY BreaksOffEffect
  <2>2. pc[t] = pc'[t] /\ (queue[t] # <<>> => queue'[t][1] = queue[t][1])
    BY <1>3, <2>1, ElsewhereSame
  <2>3. queue[t] # <<>>
    BY <2>2 DEF Executes
  <2> QED
    BY <1>1, <1>3, <2>2, <2>3, NextCall DEF Statement
<1>9. ASSUME Statement(t)
      PROVE  \/ /\ pc'[t] = "insertCharacter" /\ UNCHANGED <<queue, survivor>>
                /\ Alive(t, queue[t][1].p) = {}
             \/ pc'[t] = "selectNew" /\ InsertCharacter(t) /\ UNCHANGED queue
  <2>1. \A there : GoesOn(t, there) => pc'[t] = there /\ UNCHANGED queue
    BY <1>1 DEF GoesOn
  <2>2. \A p, c, active : ~Answers(t, p, c, active)
    BY AnswersPc
  <2>3. ~Finishes(t)
    BY <1>1 DEF Finishes
  <2>4. CASE InsertCharacter(t)
    BY <1>2, <2>4
  <2>5. CASE SelectCharacter(t)
    <3>1. Executing(t, "loadPlayer", "selectCharacter") /\ UNCHANGED survivor
      BY <2>5 DEF SelectCharacter, tables
    <3>2. Alive(t, ThisCall(t).p) = {} /\ GoesOn(t, "insertCharacter")
      BY <2>2, <2>5 DEF SelectCharacter
    <3> QED
      BY <2>1, <3>1, <3>2, HeadIs
  <2> QED
    BY <1>9, <2>1, <2>2, <2>3, <2>4, <2>5 DEF Statement, SelectProfile, InsertProfile, SelectNew,
      ClaimCharacter, Told, SaveCharacter, CountDeath, KillCharacter, ReleaseCharacter, ReleasePlayer, Returns
<1> QED
  BY <1>3, <1>9

LEMMA AliveStays ==
  ASSUME TypeOK, Owned, OneLoads, ~hurried, [Next]_vars, NEW t \in Server,
         1 \in DOMAIN queue[t], queue[t][1].op = "loadPlayer", ~InsertCharacter(t),
         NEW p, p = queue[t][1].p
  PROVE  \A c \in Alive(t, p)' : /\ c \in Alive(t, p)
                                 /\ survivor'[c].activeserver \in {survivor[c].activeserver, NoServer}
<1>0. RowsStay
  BY RowsStayed
<1>1. ASSUME NEW c \in Alive(t, p)', c \in DOMAIN survivor, survivor'[c].is_dead = survivor[c].is_dead \/ survivor'[c].is_dead
      PROVE  c \in Alive(t, p)
  BY <1>0, <1>1 DEF Alive, RowsStay, SameOwner
<1>2. ASSUME NEW s \in Server, 1 \in DOMAIN queue[s], queue[s][1].op \in Loads, queue[s][1].p = p
      PROVE  s = t
  BY <1>2 DEF OneLoads, Loads
<1>3. CASE UNCHANGED survivor
  BY <1>3 DEF Alive
<1>4. ASSUME NEW s \in Server, InsertCharacter(s)
      PROVE  \A c \in Alive(t, p)' : c \in DOMAIN survivor /\ survivor'[c] = survivor[c]
  <2>1. queue[s][1].p # p
    BY <1>2, <1>4, InsertFields DEF Loads
  <2>2. /\ \A d \in DOMAIN survivor : survivor'[d] = survivor[d]
        /\ \E n : DOMAIN survivor' = DOMAIN survivor \union {n} /\ survivor'[n].unique_id = queue[s][1].p
    BY <1>4, InsertFields
  <2> QED
    BY <2>1, <2>2 DEF Alive
<1>5. ASSUME NEW s \in Server, ClaimCharacter(s)
      PROVE  \A c \in Alive(t, p)' : c \in DOMAIN survivor /\ survivor'[c] = survivor[c]
  <2>0. queue[s][1].op = "loadCharacterDetails" /\ 1 \in DOMAIN queue[s]
    BY <1>5, ClaimFields
  <2>1. queue[s][1].p # p
    BY <1>2, <2>0 DEF Loads
  <2>2. /\ \A d \in DOMAIN survivor : d # queue[s][1].c => survivor'[d] = survivor[d]
        /\ DOMAIN survivor' = DOMAIN survivor
        /\ queue[s][1].c \in DOMAIN survivor
        /\ survivor[queue[s][1].c].unique_id = queue[s][1].p
    BY <1>5, ClaimFields
  <2>3. survivor'[queue[s][1].c].unique_id = queue[s][1].p
    BY <1>0, <2>2 DEF RowsStay, SameOwner
  <2> QED
    BY <2>1, <2>2, <2>3 DEF Alive
<1>6. ASSUME NEW s \in Server, KillCharacter(s) \/ ReleaseCharacter(s) \/ ReleasePlayer(s) \/ ResetGhosting(s)
      PROVE  \A c \in DOMAIN survivor' :
               /\ c \in DOMAIN survivor
               /\ survivor'[c].is_dead = survivor[c].is_dead \/ survivor'[c].is_dead
               /\ survivor'[c].activeserver \in {survivor[c].activeserver, NoServer}
  <2>1. CASE KillCharacter(s)
    BY <2>1, KillFields
  <2>2. CASE ReleaseCharacter(s)
    BY <2>2, ReleaseFields
  <2>3. CASE ReleasePlayer(s)
    BY <2>3, ReleasePlayerFields
  <2>4. CASE ResetGhosting(s)
    BY <2>4, ResetFields
  <2> QED
    BY <1>6, <2>1, <2>2, <2>3, <2>4
<1>7. \A c \in Alive(t, p)' : c \in DOMAIN survivor'
  BY DEF Alive
<1> QED
  BY <1>1, <1>3, <1>4, <1>5, <1>6, <1>7, RowCases

NoneYet(t, p) == /\ pc[t] = "insertCharacter" => Alive(t, p) = {}
                 /\ pc[t] = "selectNew" => \A c \in Alive(t, p) : survivor[c].activeserver = NoServer

LEMMA StillNoneIs ==
  StillNone <=> (~hurried => \A t \in Server : \A p : p = queue[t][1].p => NoneYet(t, p))
BY DEF StillNone, NoneYet

LEMMA StillNoneIsNext ==
  StillNone' <=> (~hurried => \A t \in Server : \A p : p = queue[t][1].p => NoneYet(t, p))'
BY StillNoneIs, PTL

LEMMA StillNoneKept ==
  TypeOK /\ Executes /\ Owned /\ OneLoads /\ StillNone /\ [Next]_vars => StillNone'
<1> SUFFICES ASSUME TypeOK, Executes, Owned, OneLoads, StillNone, [Next]_vars PROVE StillNone'
  OBVIOUS
<1>1. ASSUME ~hurried', NEW t \in Server, NEW p, p = queue'[t][1].p PROVE NoneYet(t, p)'
  <2>h. ~hurried
    BY <1>1, HurriedStays
  <2>0. \A q : q = queue[t][1].p => NoneYet(t, q)
    BY <2>h, StillNoneIs
  <2>1. CASE /\ pc[t] = pc'[t] /\ ~InsertCharacter(t) /\ pc'[t] \in {"insertCharacter", "selectNew"}
             /\ queue[t] # <<>> /\ 1 \in DOMAIN queue[t] /\ queue'[t][1] = queue[t][1]
    <3>1. queue[t][1].op = "loadPlayer"
      BY <2>1 DEF Executes
    <3>2. \A c \in Alive(t, p)' : /\ c \in Alive(t, p)
                                   /\ survivor'[c].activeserver \in {survivor[c].activeserver, NoServer}
      BY <1>1, <2>1, <2>h, <3>1, AliveStays
    <3> QED
      BY <1>1, <2>0, <2>1, <3>2 DEF NoneYet
  <2>2. CASE pc'[t] = "insertCharacter" /\ UNCHANGED <<queue, survivor>> /\ Alive(t, queue[t][1].p) = {}
    <3>1. Alive(t, p) = {}
      BY <1>1, <2>2
    <3> QED
      BY <2>2, <3>1 DEF Alive, NoneYet
  <2>3. CASE pc'[t] = "selectNew" /\ InsertCharacter(t) /\ UNCHANGED queue
    <3>1. /\ pc[t] = "insertCharacter"
          /\ \A d \in DOMAIN survivor : survivor'[d] = survivor[d]
          /\ \E n : DOMAIN survivor' = DOMAIN survivor \union {n} /\ survivor'[n].activeserver = NoServer
      BY <2>3, InsertFields
    <3>2. Alive(t, p) = {}
      BY <1>1, <2>0, <2>3, <3>1 DEF NoneYet
    <3>3. ASSUME NEW c \in Alive(t, p)' PROVE survivor'[c].activeserver = NoServer
      BY <3>1, <3>2, <3>3 DEF Alive
    <3> QED
      BY <2>3, <3>3 DEF NoneYet
  <2>4. CASE pc'[t] \notin {"insertCharacter", "selectNew"}
    BY <2>4 DEF NoneYet
  <2> QED
    BY <2>1, <2>2, <2>3, <2>4, Searches
<1> QED
  BY <1>1, StillNoneIsNext

LEMMA OneAliveKept == TypeOK /\ Owned /\ StillNone /\ OneAlive /\ [Next]_vars => OneAlive'
<1> SUFFICES ASSUME TypeOK, Owned, StillNone, OneAlive, [Next]_vars, ~hurried',
                    NEW c \in DOMAIN survivor', NEW d \in DOMAIN survivor',
                    survivor'[c].unique_id = survivor'[d].unique_id,
                    survivor'[c].world_id = survivor'[d].world_id,
                    ~survivor'[c].is_dead, ~survivor'[d].is_dead
             PROVE  c = d
  BY Zenon DEF OneAlive
<1>h. ~hurried
  BY HurriedStays
<1>0. RowsStay
  BY RowsStayed
<1>1. ASSUME c \in DOMAIN survivor, d \in DOMAIN survivor, ~survivor[c].is_dead, ~survivor[d].is_dead
      PROVE  c = d
  BY <1>0, <1>1, <1>h DEF RowsStay, SameOwner, OneAlive
<1>2. CASE UNCHANGED survivor
  BY <1>1, <1>2
<1>3. ASSUME NEW s \in Server,
             ClaimCharacter(s) \/ KillCharacter(s) \/ ReleaseCharacter(s) \/ ReleasePlayer(s) \/ ResetGhosting(s)
      PROVE  c = d
  <2>1. \A e \in DOMAIN survivor' : /\ e \in DOMAIN survivor
                                    /\ survivor'[e].is_dead = survivor[e].is_dead \/ survivor'[e].is_dead
    <3>1. CASE ClaimCharacter(s)
      BY <3>1, ClaimFields
    <3>2. CASE KillCharacter(s)
      BY <3>2, KillFields
    <3>3. CASE ReleaseCharacter(s)
      BY <3>3, ReleaseFields
    <3>4. CASE ReleasePlayer(s)
      BY <3>4, ReleasePlayerFields
    <3>5. CASE ResetGhosting(s)
      BY <3>5, ResetFields
    <3> QED
      BY <1>3, <3>1, <3>2, <3>3, <3>4, <3>5
  <2> QED
    BY <1>1, <2>1
<1>4. ASSUME NEW s \in Server, InsertCharacter(s) PROVE c = d
  <2>1. /\ pc[s] = "insertCharacter"
        /\ \A e \in DOMAIN survivor : survivor'[e] = survivor[e]
    BY <1>4, InsertFields
  <2>2. PICK n : /\ n \notin DOMAIN survivor /\ DOMAIN survivor' = DOMAIN survivor \union {n}
                 /\ survivor'[n].unique_id = queue[s][1].p
                 /\ survivor'[n].world_id = world_id[s]
    BY <1>4, InsertFields
  <2>3. Alive(s, queue[s][1].p) = {}
    BY <1>h, <2>1 DEF StillNone
  <2>4. \A e \in DOMAIN survivor : ~(/\ survivor'[e].unique_id = survivor'[n].unique_id
                                     /\ survivor'[e].world_id = survivor'[n].world_id
                                     /\ ~survivor'[e].is_dead)
    BY <2>1, <2>2, <2>3 DEF Alive
  <2> QED
    BY <1>1, <2>1, <2>2, <2>4
<1> QED
  BY <1>2, <1>3, <1>4, RowCases
----------------------------------------------------------------------------
(* Server s may claim a character of player p. *)
Excused(s, p) == \/ at[p] = s
                 \/ process[s] # "up"
                 \/ \E j \in DOMAIN queue[s] : queue[s][j].op = "playerDisconnected" /\ queue[s][j].p = p
                 \/ <<s, p>> \in lost

LEMMA ClaimHonestIs ==
  ClaimHonest <=> \A c \in DOMAIN survivor : \A s, p :
    s = survivor[c].activeserver /\ p = survivor[c].unique_id /\ s # NoServer => Excused(s, p)
BY DEF ClaimHonest, Excused, Pending

LEMMA ClaimHonestIsNext ==
  ClaimHonest' <=> (\A c \in DOMAIN survivor : \A s, p :
    s = survivor[c].activeserver /\ p = survivor[c].unique_id /\ s # NoServer => Excused(s, p))'
BY ClaimHonestIs, PTL

(* A release of a player is executed by the statement that does it. *)
LEMMA LastOfPlayer ==
  ASSUME TypeOK, NEW s \in Server, Statement(s), queue[s][1].op = "playerDisconnected"
  PROVE  ReleasePlayer(s)
<1>1. \A op, here : Executing(s, op, here) => op = "playerDisconnected"
  BY HeadIs
<1> QED
  BY <1>1 DEF Statement, SelectProfile, InsertProfile, SelectCharacter, InsertCharacter, SelectNew,
       ClaimCharacter, SaveCharacter, CountDeath, KillCharacter, ReleaseCharacter

LEMMA ExcusedKept ==
  ASSUME TypeOK, Executes, [Next]_vars, NEW s \in Server, NEW p \in Player, Excused(s, p),
         ~ResetGhosting(s), ~(ReleasePlayer(s) /\ queue[s][1].p = p)
  PROVE  Excused(s, p)'
<1>1. CASE process[s] # "up"
  <2>1. ASSUME NEW t \in Server, Statement(t) \/ Fail(t) PROVE UNCHANGED process
    BY <2>1, StatementEffect, FailEffect
  <2>2. ASSUME NEW t \in Server, Crash(t) PROVE process'[s] # "up"
    BY <1>1, <2>2, CrashEmpties
  <2>3. ASSUME NEW t \in Server, ResetGhosting(t) PROVE process'[s] # "up"
    BY <1>1, <2>3, TypeParts DEF ServersTyped, ResetGhosting
  <2>4. ASSUME NEW q \in Player, Asks(q) PROVE UNCHANGED process
    BY <2>4, AsksTyped
  <2>5. UNCHANGED vars => UNCHANGED process
    BY DEF vars
  <2>6. ASSUME NEW t \in Server, Starts(t) PROVE Excused(s, p)'
    BY <1>1, <2>6, StartsEffect DEF Excused
  <2> QED
    BY <1>1, <2>1, <2>2, <2>3, <2>4, <2>5, <2>6, NextCases DEF Excused
<1>2. CASE at[p] = s
  <2>1. CASE UNCHANGED at
    BY <1>2, <2>1 DEF Excused
  <2>2. ASSUME NEW t \in Server, Crash(t) PROVE Excused(s, p)'
    BY <1>2, <2>2, CrashEmpties DEF Excused
  <2>3. ASSUME NEW q \in Player, NEW t \in Server,
               AskedLoad(q, t) \/ AskedSave(q, t) \/ \E n \in 1..2 : AskedDeath(q, t, n)
        PROVE  at'[p] = s
    BY <1>2, <2>3, NoServerAssumption DEF AskedLoad, AskedSave, AskedDeath, Asked, session
  <2>4. ASSUME NEW q \in Player, NEW t \in Server, NEW new, AskedLeave(q, t, new)
        PROVE  Excused(s, p)'
    <3>1. CASE q # p
      BY <1>2, <2>4, <3>1 DEF AskedLeave, Asked, Excused
    <3>2. CASE q = p
      <4>1. t = s /\ Moved(s, 0, new) /\ \A k \in DOMAIN new : new[k].p = p
        BY <1>2, <2>4, <3>2 DEF AskedLeave, Asked
      <4>2. PICK l \in DOMAIN new : new[l].op = "playerDisconnected"
        BY <2>4, LeaveIsFor
      <4>3. Len(queue[s]) - 0 + l \in DOMAIN queue'[s] /\ queue'[s][Len(queue[s]) - 0 + l] = new[l]
        BY <4>1, MovedIn
      <4> QED
        BY <4>1, <4>2, <4>3 DEF Excused
    <3> QED
      BY <3>1, <3>2
  <2> QED
    <3>1. Stays => UNCHANGED at
      BY DEF Stays, session
    <3>2. ASSUME NEW t, Returned(t) PROVE UNCHANGED at
      BY <3>2 DEF Returned, session
    <3>3. ASSUME NEW t, NEW q, Barred(t, q) \/ Entered(t, q) \/ \E c \in DOMAIN survivor : Accepted(t, q, c)
          PROVE  UNCHANGED at
      BY <3>3 DEF Barred, Refused, Denied, Entered, Accepted, Answered
    <3>4. CASE at'[p] = s
      BY <3>4 DEF Excused
    <3> QED
      BY <2>1, <2>2, <2>3, <2>4, <3>1, <3>2, <3>3, <3>4, SessionCases DEF Barred
<1>3. ASSUME NEW j \in DOMAIN queue[s], queue[s][j].op = "playerDisconnected", queue[s][j].p = p
      PROVE  Excused(s, p)'
  <2>1. ASSUME \E i \in DOMAIN queue'[s] : queue'[s][i] = queue[s][j] PROVE Excused(s, p)'
    BY <1>3, <2>1 DEF Excused
  <2>2. ASSUME NEW t \in Server, NEW d \in {0, 1}, NEW new, Moved(t, d, new), t = s => j > d
        PROVE  Excused(s, p)'
    <3>1. CASE t = s
      BY <2>1, <2>2, <3>1, MovedForward
    <3>2. CASE t # s
      BY <2>1, <2>2, <3>2 DEF Moved
    <3> QED
      BY <3>1, <3>2
  <2>3. j \in Nat \ {0}
    BY QueueIs, TypeParts DEF ServersTyped
  <2>4. ASSUME NEW t \in Server, Statement(t) PROVE Excused(s, p)'
    <3>1. t = s => j > 1
      BY <1>3, <2>3, <2>4, LastOfPlayer
    <3>2. CASE GoneOn(t)
      BY <2>1, <3>2 DEF GoneOn, Stays
    <3>3. CASE Over(t)
      BY <2>2, <3>1, <3>3 DEF Over, Returned, Refused, Denied, Entered, Accepted
    <3> QED
      BY <2>4, <3>2, <3>3, StatementEffect
  <2>5. ASSUME NEW t \in Server, Crash(t) PROVE Excused(s, p)'
    BY <2>1, <2>5, CrashEmpties DEF Excused
  <2>6. ASSUME NEW t \in Server, ResetGhosting(t) \/ Starts(t) PROVE Excused(s, p)'
    BY <1>3, <2>1, <2>6, StartsEffect DEF ResetGhosting
  <2>9. ASSUME NEW t \in Server, Fail(t) PROVE Excused(s, p)'
    <3>1. Over(t) /\ ThisCall(t) = queue[t][1]
      BY <2>9, FailEffect
    <3>2. CASE t = s /\ j = 1
      BY <1>3, <2>9, <3>1, <3>2 DEF Fail, Excused
    <3>3. CASE ~(t = s /\ j = 1)
      <4>1. t = s => j > 1
        BY <2>3, <3>3
      <4> QED
        BY <2>2, <3>1, <4>1 DEF Over, Returned, Refused, Denied, Entered, Accepted
    <3> QED
      BY <3>2, <3>3
  <2>7. ASSUME NEW q \in Player, Asks(q) PROVE Excused(s, p)'
    <3>0. PICK t \in Server : \E new : Moved(t, 0, new)
      BY <2>7, AskedIs DEF AskedLoad, AskedSave, AskedDeath, AskedLeave, Asked
    <3>1. PICK new : Moved(t, 0, new)
      BY <3>0
    <3> QED
      BY <2>2, <2>3, <3>1
  <2>8. CASE UNCHANGED vars
    BY <2>1, <2>8 DEF vars
  <2> QED
    BY <2>4, <2>5, <2>6, <2>7, <2>8, <2>9, NextCases
<1>4. CASE <<s, p>> \in lost
  <2>1. ASSUME NEW t \in Server, Statement(t) PROVE <<s, p>> \in lost'
    BY <1>4, <2>1, StatementLost
  <2>2. ASSUME NEW t \in Server, Fail(t) \/ Crash(t) \/ Starts(t) PROVE <<s, p>> \in lost'
    BY <1>4, <2>2, StartsEffect DEF Fail, Crash
  <2>3. ASSUME NEW t \in Server, ResetGhosting(t) PROVE <<s, p>> \in lost'
    BY <1>4, <2>3 DEF ResetGhosting
  <2>4. ASSUME NEW q \in Player, Asks(q) PROVE <<s, p>> \in lost'
    BY <1>4, <2>4, AsksTyped
  <2>5. CASE UNCHANGED vars
    BY <1>4, <2>5 DEF vars, Excused
  <2> QED
    BY <2>1, <2>2, <2>3, <2>4, <2>5, NextCases DEF Excused
<1> QED
  BY <1>1, <1>2, <1>3, <1>4 DEF Excused

LEMMA ClaimsItsOwn ==
  ASSUME TypeOK, Owned, NEW s \in Server, ClaimCharacter(s)
  PROVE  /\ 1 \in DOMAIN queue[s] /\ queue[s][1].op = "loadCharacterDetails"
         /\ queue[s][1].c \in DOMAIN survivor
         /\ survivor[queue[s][1].c].unique_id = queue[s][1].p
BY ClaimFields

LEMMA ClaimHonestKept ==
  TypeOK /\ Executes /\ Owned /\ ClaimFollowed /\ ClaimHonest /\ [Next]_vars => ClaimHonest'
<1> SUFFICES ASSUME TypeOK, Executes, Owned, ClaimFollowed, ClaimHonest, [Next]_vars,
                    NEW c \in DOMAIN survivor', NEW s, NEW p, s = survivor'[c].activeserver,
                    p = survivor'[c].unique_id, s # NoServer
             PROVE  Excused(s, p)'
  BY ClaimHonestIsNext
<1>0. RowsStay
  BY RowsStayed
<1>1. s \in Server /\ p \in Player
  <2>1. survivor'[c] \in RowSet
    BY <1>0 DEF RowsStay
  <2> QED
    BY <2>1 DEF RowSet
<1>2. ASSUME c \in DOMAIN survivor, survivor[c].activeserver = s,
             ~ResetGhosting(s), ~(ReleasePlayer(s) /\ queue[s][1].p = p)
      PROVE  Excused(s, p)'
  <2>1. survivor[c].unique_id = p
    BY <1>0, <1>2 DEF RowsStay, SameOwner
  <2>2. Excused(s, p)
    BY <1>2, <2>1, ClaimHonestIs
  <2> QED
    BY <1>1, <1>2, <2>2, ExcusedKept
<1>3. ASSUME ClaimCharacter(s), c = queue[s][1].c PROVE Excused(s, p)'
  <2>1. /\ 1 \in DOMAIN queue[s] /\ queue[s][1].op = "loadCharacterDetails"
        /\ c \in DOMAIN survivor /\ survivor[c].unique_id = queue[s][1].p
    <3>1. /\ 1 \in DOMAIN queue[s] /\ queue[s][1].op = "loadCharacterDetails"
          /\ queue[s][1].c \in DOMAIN survivor
          /\ survivor[queue[s][1].c].unique_id = queue[s][1].p
      BY <1>1, <1>3, ClaimsItsOwn
    <3> QED
      BY <1>3, <3>1
  <2>2. queue[s][1].p = p
    BY <1>0, <2>1 DEF RowsStay, SameOwner
  <2>3. Excused(s, p)
    BY <1>1, <2>1, <2>2 DEF ClaimFollowed, Excused
  <2>4. ~ResetGhosting(s)
    BY <1>3 DEF ClaimCharacter, ResetGhosting, Executing
  <2>5. ~ReleasePlayer(s)
    BY <1>1, <2>1, ReleasePlayerFields DEF Frees
  <2> QED
    BY <1>1, <2>3, <2>4, <2>5, ExcusedKept
<1>4. \/ /\ c \in DOMAIN survivor /\ survivor[c].activeserver = s
         /\ ~ResetGhosting(s) /\ ~(ReleasePlayer(s) /\ queue[s][1].p = p)
      \/ ClaimCharacter(s) /\ c = queue[s][1].c
  <2>1. ASSUME ResetGhosting(s) PROVE FALSE
    BY <1>1, <2>1, ResetFields DEF ResetGhosting
  <2>2. ASSUME ReleasePlayer(s), queue[s][1].p = p PROVE FALSE
    <3>1. /\ DOMAIN survivor' = DOMAIN survivor
          /\ survivor[c].unique_id = p
      BY <1>0, <1>1, <2>2, ReleasePlayerFields DEF RowsStay, SameOwner
    <3>2. IF survivor[c].activeserver = s THEN survivor'[c].activeserver = NoServer
                                          ELSE survivor'[c] = survivor[c]
      BY <1>1, <2>2, <3>1, ReleasePlayerFields
    <3> QED
      BY <3>2
  <2>3. CASE UNCHANGED survivor
    BY <2>1, <2>2, <2>3
  <2>4. ASSUME NEW t \in Server, ClaimCharacter(t)
        PROVE  \/ c \in DOMAIN survivor /\ survivor[c].activeserver = s
               \/ ClaimCharacter(s) /\ c = queue[s][1].c
    BY <2>4, ClaimFields
  <2>5. ASSUME NEW t \in Server,
               KillCharacter(t) \/ ReleaseCharacter(t) \/ ReleasePlayer(t) \/ ResetGhosting(t) \/ InsertCharacter(t)
        PROVE  c \in DOMAIN survivor /\ survivor[c].activeserver = s
    <3>1. CASE KillCharacter(t)
      BY <3>1, KillFields
    <3>2. CASE ReleaseCharacter(t)
      BY <3>2, ReleaseFields
    <3>3. CASE ReleasePlayer(t)
      BY <3>3, ReleasePlayerFields
    <3>4. CASE ResetGhosting(t)
      BY <3>4, ResetFields
    <3>5. CASE InsertCharacter(t)
      <4>1. PICK n : /\ DOMAIN survivor' = DOMAIN survivor \union {n}
                     /\ survivor'[n].activeserver = NoServer
        BY <3>5, InsertFields
      <4>2. c \in DOMAIN survivor
        BY <4>1
      <4>3. survivor'[c] = survivor[c]
        BY <3>5, <4>2, InsertFields
      <4> QED
        BY <4>2, <4>3
    <3> QED
      BY <2>5, <3>1, <3>2, <3>3, <3>4, <3>5
  <2> QED
    BY <2>1, <2>2, <2>3, <2>4, <2>5, RowCases
<1> QED
  BY <1>2, <1>3, <1>4
----------------------------------------------------------------------------
(* The deaths that have been counted: of a character that is dead, or that *)
(* the next statement of a server kills.                                   *)
Marked(c) == \/ survivor[c].is_dead
             \/ \E s \in Server : pc[s] = "kill" /\ queue[s][1].c = c

Counters == TypeOK /\ Executes /\ Owned

LEMMA CountedIs ==
  Counters => \A p \in Player : \A c :
    c \in Counted(p) <=> c \in DOMAIN survivor /\ survivor[c].unique_id = p /\ Marked(c)
<1> SUFFICES ASSUME Counters, NEW p \in Player, NEW c
             PROVE  c \in Counted(p) <=> c \in DOMAIN survivor /\ survivor[c].unique_id = p /\ Marked(c)
  OBVIOUS
<1>1. \A s \in Server : pc[s] = "kill" =>
        /\ ThisCall(s) = queue[s][1]
        /\ queue[s][1].c \in DOMAIN survivor
        /\ survivor[queue[s][1].c].unique_id = queue[s][1].p
  BY NextCall, TypeParts DEF Counters, Executes, Owned, Owners, ServersTyped
<1>2. c \in Dead(p) <=> c \in DOMAIN survivor /\ survivor[c].unique_id = p /\ survivor[c].is_dead
  BY DEF Dead, Where
<1>3. c \in BeingKilled(p) <=>
        /\ c \in DOMAIN survivor /\ survivor[c].unique_id = p /\ ~survivor[c].is_dead
        /\ \E s \in Server : pc[s] = "kill" /\ queue[s][1].c = c
  BY <1>1 DEF BeingKilled
<1> QED
  BY <1>2, <1>3 DEF Counted, Marked

LEMMA CountedIsNext ==
  Counters' => (\A p \in Player : \A c :
    c \in Counted(p) <=> c \in DOMAIN survivor /\ survivor[c].unique_id = p /\ Marked(c))'
BY CountedIs, PTL

LEMMA CountedFinite ==
  Counters => \A p \in Player : IsFiniteSet(Counted(p)) /\ Cardinality(Counted(p)) \in Nat
<1> SUFFICES ASSUME Counters, NEW p \in Player
             PROVE  IsFiniteSet(Counted(p)) /\ Cardinality(Counted(p)) \in Nat
  OBVIOUS
<1>1. survivor \in Seq(RowSet)
  BY Rows DEF Counters
<1>2. DOMAIN survivor = 1..Len(survivor) /\ Len(survivor) \in Nat
  BY <1>1
<1>3. IsFiniteSet(DOMAIN survivor)
  BY <1>2, FS_Interval
<1>4. Counted(p) \subseteq DOMAIN survivor
  BY CountedIs
<1> QED
  BY <1>3, <1>4, FS_Subset, FS_CardinalityType

LEMMA CountedFiniteNext ==
  Counters' => (\A p \in Player : IsFiniteSet(Counted(p)) /\ Cardinality(Counted(p)) \in Nat)'
BY CountedFinite, PTL

(* Who kills. *)
LEMMA Kills ==
  ASSUME TypeOK, Executes, [Next]_vars, NEW t \in Server
  PROVE  /\ pc'[t] = "kill" =>
              /\ ~BreaksOff(t) /\ ~KillCharacter(t)
              /\ queue'[t][1] = queue[t][1] /\ (CountDeath(t) \/ pc[t] = "kill")
         /\ pc[t] = "kill" /\ ~BreaksOff(t) => KillCharacter(t) \/ pc'[t] = "kill"
<1>1. pc \in [Server -> Statements] /\ queue \in Queues
  BY TypeParts DEF ServersTyped
<1>2. ASSUME ~Statement(t), ~BreaksOff(t)
      PROVE  /\ pc'[t] = pc[t] /\ (pc[t] = "kill" => queue'[t][1] = queue[t][1])
  BY <1>2, ElsewhereSame DEF Executes
<1>3. BreaksOff(t) => pc'[t] # "kill"
  BY BreaksOffEffect
<1>4. ASSUME Statement(t), ~KillCharacter(t) PROVE pc[t] # "kill"
  <2>1. /\ \A op, here : Executing(t, op, here) => pc[t] = here
        /\ Releasing(t) => pc[t] # "kill"
    BY DEF Executing, Releasing
  <2> QED
    BY <1>4, <2>1 DEF Statement, SelectProfile, InsertProfile, SelectCharacter, InsertCharacter, SelectNew,
       ClaimCharacter, SaveCharacter, CountDeath, ReleaseCharacter, ReleasePlayer
<1>5. ASSUME Statement(t), pc'[t] = "kill" PROVE CountDeath(t) /\ UNCHANGED queue
  <2>1. \A there : GoesOn(t, there) => pc'[t] = there /\ UNCHANGED queue
    BY <1>1 DEF GoesOn
  <2>2. \A p, c, active : ~Answers(t, p, c, active)
    BY <1>5, AnswersPc
  <2>3. ~Finishes(t)
    BY <1>1, <1>5 DEF Finishes
  <2> QED
    BY <1>5, <2>1, <2>2, <2>3 DEF Statement, SelectProfile, InsertProfile, SelectNew, SelectCharacter, InsertCharacter,
      ClaimCharacter, Told, SaveCharacter, CountDeath, KillCharacter, ReleaseCharacter, ReleasePlayer, Returns
<1>6. KillCharacter(t) => pc'[t] # "kill"
  BY <1>1 DEF KillCharacter, Returns, Finishes
<1> QED
  BY <1>2, <1>3, <1>4, <1>5, <1>6 DEF Statement

LEMMA MarkedSame ==
  ASSUME Counters, [Next]_vars, \A s \in Server : ~CountDeath(s),
         \A s \in Server : BreaksOff(s) => pc[s] # "kill"
  PROVE  \A c \in DOMAIN survivor' : Marked(c)' <=> c \in DOMAIN survivor /\ Marked(c)
<1>0. TypeOK /\ Executes /\ Owned
  BY DEF Counters
<1>1. \A t \in Server : pc'[t] = "kill" <=> pc[t] = "kill" /\ ~KillCharacter(t)
  BY <1>0, Kills
<1>2. \A t \in Server : pc'[t] = "kill" => queue'[t][1] = queue[t][1]
  BY <1>0, Kills
<1>3. \A t \in Server : pc[t] = "kill" => queue[t][1].c \in DOMAIN survivor
  BY <1>0, NextCall, TypeParts DEF Executes, Owned, Owners, ServersTyped
<1>4. CASE \E s \in Server : KillCharacter(s)
  <2>1. PICK s \in Server : KillCharacter(s)
    BY <1>4
  <2>0. PICK d : d = queue[s][1].c
    OBVIOUS
  <2>2. /\ pc[s] = "kill" /\ d \in DOMAIN survivor /\ DOMAIN survivor' = DOMAIN survivor
        /\ survivor'[d].is_dead
        /\ \A e \in DOMAIN survivor : e # d => survivor'[e] = survivor[e]
    BY <1>0, <2>0, <2>1, KillFields
  <2>31. Marked(d)
    BY <2>0, <2>2 DEF Marked
  <2>32. Marked(d)'
    BY <2>2 DEF Marked
  <2>4. ASSUME NEW c \in DOMAIN survivor, c # d PROVE Marked(c)' <=> Marked(c)
    <3>1. \A t \in Server : KillCharacter(t) /\ queue[t][1].c = c => survivor'[c].is_dead
      BY <1>0, KillFields
    <3> QED
      BY <1>1, <1>2, <2>2, <2>4, <3>1 DEF Marked
  <2>5. ASSUME NEW c \in DOMAIN survivor PROVE Marked(c)' <=> Marked(c)
    <3>1. CASE c = d
      BY <2>31, <2>32, <3>1
    <3>2. CASE c # d
      BY <2>4, <3>2
    <3> QED
      BY <3>1, <3>2
  <2> QED
    BY <2>2, <2>5
<1>5. CASE \A s \in Server : ~KillCharacter(s)
  <2>1. \A c \in DOMAIN survivor : c \in DOMAIN survivor' /\ survivor'[c].is_dead = survivor[c].is_dead
    <3>1. CASE UNCHANGED survivor
      BY <3>1
    <3>2. ASSUME NEW s \in Server, InsertCharacter(s)
          PROVE  \A c \in DOMAIN survivor : c \in DOMAIN survivor' /\ survivor'[c] = survivor[c]
      BY <1>0, <3>2, InsertFields
    <3>3. ASSUME NEW s \in Server, ClaimCharacter(s)
          PROVE  \A c \in DOMAIN survivor : c \in DOMAIN survivor' /\ survivor'[c].is_dead = survivor[c].is_dead
      BY <1>0, <3>3, ClaimFields
    <3>4. ASSUME NEW s \in Server, ReleaseCharacter(s)
          PROVE  \A c \in DOMAIN survivor : c \in DOMAIN survivor' /\ survivor'[c].is_dead = survivor[c].is_dead
      BY <1>0, <3>4, ReleaseFields
    <3>5. ASSUME NEW s \in Server, ReleasePlayer(s)
          PROVE  \A c \in DOMAIN survivor : c \in DOMAIN survivor' /\ survivor'[c].is_dead = survivor[c].is_dead
      BY <1>0, <3>5, ReleasePlayerFields
    <3>6. ASSUME NEW s \in Server, ResetGhosting(s)
          PROVE  \A c \in DOMAIN survivor : c \in DOMAIN survivor' /\ survivor'[c].is_dead = survivor[c].is_dead
      BY <1>0, <3>6, ResetFields
    <3> QED
      BY <1>5, <3>1, <3>2, <3>3, <3>4, <3>5, <3>6, RowCases
  <2>2. \A c \in DOMAIN survivor' : c \in DOMAIN survivor \/ survivor'[c].is_dead = FALSE
    <3>1. ASSUME NEW s \in Server, InsertCharacter(s)
          PROVE  \A c \in DOMAIN survivor' : c \in DOMAIN survivor \/ survivor'[c].is_dead = FALSE
      <4>1. PICK n : DOMAIN survivor' = DOMAIN survivor \union {n} /\ survivor'[n].is_dead = FALSE
        BY <1>0, <3>1, InsertFields
      <4> QED
        BY <4>1
    <3>2. ASSUME NEW s \in Server, ClaimCharacter(s) \/ ReleaseCharacter(s) \/ ReleasePlayer(s) \/ ResetGhosting(s)
          PROVE  DOMAIN survivor' = DOMAIN survivor
      BY <1>0, <3>2, ClaimFields, ReleaseFields, ReleasePlayerFields, ResetFields
    <3> QED
      BY <1>5, <3>1, <3>2, RowCases
  <2>3. ASSUME NEW c \in DOMAIN survivor' PROVE Marked(c)' <=> c \in DOMAIN survivor /\ Marked(c)
    <3>1. \A t \in Server : (pc'[t] = "kill" /\ queue'[t][1].c = c) <=> (pc[t] = "kill" /\ queue[t][1].c = c)
      BY <1>1, <1>2, <1>5
    <3>2. (\E t \in Server : pc[t] = "kill" /\ queue[t][1].c = c) => c \in DOMAIN survivor
      BY <1>3
    <3>3. survivor'[c].is_dead <=> c \in DOMAIN survivor /\ survivor[c].is_dead
      BY <2>1, <2>2
    <3> QED
      BY <3>1, <3>2, <3>3 DEF Marked
  <2> QED
    BY <2>3
<1> QED
  BY <1>4, <1>5

LEMMA TornStays == [Next]_vars => (torn => torn')
<1> SUFFICES ASSUME [Next]_vars, torn PROVE torn'
  OBVIOUS
<1>1. ASSUME NEW s \in Server, Statement(s) PROVE UNCHANGED torn
  <2>1. (\A op, here : Executing(s, op, here) => UNCHANGED torn) /\ (Releasing(s) => UNCHANGED torn)
    BY DEF Executing, Releasing, history
  <2> QED
    BY <1>1, <2>1 DEF Statement, SelectProfile, InsertProfile, SelectCharacter, InsertCharacter, SelectNew,
       ClaimCharacter, SaveCharacter, CountDeath, KillCharacter, ReleaseCharacter, ReleasePlayer
<1>2. ASSUME NEW s \in Server, Crash(s) \/ Fail(s) PROVE torn'
  BY <1>2 DEF Crash, Fail
<1>3. ASSUME NEW s \in Server, ResetGhosting(s) \/ Starts(s) PROVE UNCHANGED torn
  BY <1>3 DEF ResetGhosting, Starts, Boot, FailToReset, history
<1>4. ASSUME NEW p \in Player, Asks(p) PROVE UNCHANGED torn
  BY <1>4 DEF Asks, Join, AskAgain, Save, Die, Respawn, Leave, Calls
<1>5. UNCHANGED vars => UNCHANGED torn
  BY DEF vars, history
<1> QED
  BY <1>1, <1>2, <1>3, <1>4, <1>5, NextCases

LEMMA AttemptsSame ==
  ASSUME [Next]_vars, \A s \in Server : ~CountDeath(s)
  PROVE  UNCHANGED attempts
<1>1. ASSUME NEW s \in Server, Statement(s) PROVE UNCHANGED attempts
  BY <1>1 DEF Statement, SelectProfile, InsertProfile, SelectCharacter, InsertCharacter, SelectNew,
     ClaimCharacter, SaveCharacter, KillCharacter, ReleaseCharacter, ReleasePlayer, tables
<1>2. ASSUME NEW s \in Server, Crash(s) \/ Fail(s) \/ ResetGhosting(s) \/ Starts(s) PROVE UNCHANGED attempts
  BY <1>2 DEF Crash, Fail, ResetGhosting, Starts, Boot, FailToReset, tables
<1>3. ASSUME NEW p \in Player, Asks(p) PROVE UNCHANGED attempts
  BY <1>3 DEF Asks, Join, AskAgain, Save, Die, Respawn, Leave, Calls, tables
<1>4. UNCHANGED vars => UNCHANGED attempts
  BY DEF vars, tables
<1> QED
  BY <1>1, <1>2, <1>3, <1>4, NextCases

LEMMA CountDeathFields ==
  ASSUME TypeOK, Owned, NEW s \in Server, CountDeath(s),
         NEW c, c = queue[s][1].c, NEW p, p = queue[s][1].p
  PROVE  /\ 1 \in DOMAIN queue[s] /\ queue[s][1].op = "playerDeath" /\ pc[s] = "start"
         /\ c \in DOMAIN survivor /\ survivor[c].unique_id = p /\ p \in Player
         /\ UNCHANGED <<survivor, queue>>
         /\ pc'[s] = "kill" /\ \A t \in Server : t # s => pc'[t] = pc[t]
         /\ attempts' = IF survivor[c].is_dead THEN attempts ELSE [attempts EXCEPT ![p] = @ + 1]
<1>1. /\ 1 \in DOMAIN queue[s] /\ ThisCall(s) = queue[s][1] /\ queue[s][1].op = "playerDeath"
      /\ pc[s] = "start" /\ queue[s][1].p \in Player
  BY HeadIs DEF CountDeath
<1>2. c \in DOMAIN survivor /\ survivor[c].unique_id = p
  BY <1>1, ItsCharacter
<1>3. pc \in [Server -> Statements]
  BY TypeParts DEF ServersTyped
<1>4. UNCHANGED <<survivor, queue>> /\ pc'[s] = "kill" /\ \A t \in Server : t # s => pc'[t] = pc[t]
  BY <1>3 DEF CountDeath, GoesOn
<1>5. attempts' = IF survivor[c].is_dead THEN attempts ELSE [attempts EXCEPT ![p] = @ + 1]
  BY <1>1, Zenon DEF CountDeath
<1> QED
  BY <1>1, <1>2, <1>4, <1>5

LEMMA CountedGrows ==
  ASSUME Counters, Counters', NEW s \in Server, CountDeath(s),
         NEW c, c = queue[s][1].c, NEW p, p = queue[s][1].p
  PROVE  /\ Counted(p)' = Counted(p) \union {c}
         /\ \A q \in Player : q # p => Counted(q)' = Counted(q)
<1>1. /\ pc[s] = "start" /\ c \in DOMAIN survivor /\ survivor[c].unique_id = p /\ p \in Player
      /\ UNCHANGED <<survivor, queue>>
      /\ pc'[s] = "kill" /\ \A t \in Server : t # s => pc'[t] = pc[t]
  BY CountDeathFields DEF Counters
<1>2. ASSUME NEW d PROVE Marked(d)' <=> Marked(d) \/ d = c
  <2>1. (\E t \in Server : pc'[t] = "kill" /\ queue'[t][1].c = d) <=>
        d = c \/ \E t \in Server : pc[t] = "kill" /\ queue[t][1].c = d
    <3>1. \A t \in Server : pc'[t] = "kill" <=> t = s \/ pc[t] = "kill"
      BY <1>1
    <3> QED
      BY <1>1, <3>1
  <2> QED
    BY <1>1, <2>1 DEF Marked
<1>3. ASSUME NEW q \in Player, NEW d
      PROVE  d \in Counted(q)' <=> d \in Counted(q) \/ (q = p /\ d = c)
  <2>1. d \in Counted(q) <=> d \in DOMAIN survivor /\ survivor[d].unique_id = q /\ Marked(d)
    BY CountedIs
  <2>2. d \in Counted(q)' <=> d \in DOMAIN survivor' /\ survivor'[d].unique_id = q /\ Marked(d)'
    BY CountedIsNext
  <2>3. survivor' = survivor
    BY <1>1
  <2>4. Marked(d)' <=> Marked(d) \/ d = c
    BY <1>2
  <2> QED
    BY <1>1, <2>1, <2>2, <2>3, <2>4
<1>4. Counted(p)' = Counted(p) \union {c}
  BY <1>1, <1>3
<1>5. ASSUME NEW q \in Player, q # p PROVE Counted(q)' = Counted(q)
  BY <1>3, <1>5
<1> QED
  BY <1>4, <1>5

LEMMA CountedSame ==
  ASSUME Counters, Counters', RowsStay, [Next]_vars, \A s \in Server : ~CountDeath(s),
         \A s \in Server : BreaksOff(s) => pc[s] # "kill"
  PROVE  \A q \in Player : Counted(q)' = Counted(q)
<1>1. \A d \in DOMAIN survivor' : Marked(d)' <=> d \in DOMAIN survivor /\ Marked(d)
  BY MarkedSame
<1>2. \A d \in DOMAIN survivor : d \in DOMAIN survivor' /\ survivor'[d].unique_id = survivor[d].unique_id
  BY DEF RowsStay, SameOwner
<1>3. ASSUME NEW q \in Player, NEW d
      PROVE  d \in Counted(q)' <=> d \in Counted(q)
  <2>1. d \in Counted(q) <=> d \in DOMAIN survivor /\ survivor[d].unique_id = q /\ Marked(d)
    BY CountedIs
  <2>2. d \in Counted(q)' <=> d \in DOMAIN survivor' /\ survivor'[d].unique_id = q /\ Marked(d)'
    BY CountedIsNext
  <2> QED
    BY <1>1, <1>2, <2>1, <2>2
<1> QED
  BY <1>3

LEMMA CountedTorn ==
  ASSUME Counters, Counters', NEW s \in Server, BreaksOff(s)
  PROVE  \A q \in Player : Counted(q)' \subseteq Counted(q)
<1>1. /\ pc'[s] = "start" /\ UNCHANGED survivor
      /\ \A t \in Server : t # s => pc'[t] = pc[t] /\ queue'[t] = queue[t]
  BY BreaksOffEffect DEF Counters
<1>2. ASSUME NEW d, Marked(d)' PROVE Marked(d)
  <2>1. \A t \in Server : pc'[t] = "kill" => pc[t] = "kill" /\ queue'[t] = queue[t]
    BY <1>1
  <2> QED
    BY <1>1, <1>2, <2>1 DEF Marked
<1>3. ASSUME NEW q \in Player, NEW d \in Counted(q)' PROVE d \in Counted(q)
  <2>1. d \in Counted(q) <=> d \in DOMAIN survivor /\ survivor[d].unique_id = q /\ Marked(d)
    BY CountedIs
  <2>2. d \in Counted(q)' <=> d \in DOMAIN survivor' /\ survivor'[d].unique_id = q /\ Marked(d)'
    BY CountedIsNext
  <2> QED
    BY <1>1, <1>2, <1>3, <2>1, <2>2
<1> QED
  BY <1>3

LEMMA CountedNew ==
  ASSUME Counters, Custody, ~hurried, NEW s \in Server, CountDeath(s),
         NEW c, c = queue[s][1].c, NEW p, p = queue[s][1].p, ~survivor[c].is_dead
  PROVE  c \notin Counted(p)
<1>1. /\ 1 \in DOMAIN queue[s] /\ queue[s][1].op = "playerDeath" /\ pc[s] = "start" /\ p \in Player
  BY CountDeathFields DEF Counters
<1>2. survivor[c].activeserver = s
  BY <1>1 DEF Custody, Needs, Owners
<1>3. ASSUME NEW t \in Server, pc[t] = "kill", queue[t][1].c = c PROVE FALSE
  <2>1. 1 \in DOMAIN queue[t] /\ queue[t][1].op = "playerDeath"
    BY <1>3, NextCall, TypeParts DEF Counters, Executes, ServersTyped
  <2>2. survivor[c].activeserver = t
    BY <1>3, <2>1 DEF Custody, Needs, Owners
  <2> QED
    BY <1>1, <1>2, <1>3, <2>2
<1> QED
  BY <1>1, <1>3, CountedIs DEF Marked

(* An addition to what is counted, for the arithmetic of it. *)
LEMMA OneMore ==
  ASSUME NEW S, IsFiniteSet(S), NEW c
  PROVE  /\ Cardinality(S) \in Nat
         /\ Cardinality(S \union {c}) \in Nat
         /\ Cardinality(S \union {c}) <= Cardinality(S) + 1
         /\ c \notin S => Cardinality(S \union {c}) = Cardinality(S) + 1
<1>1. Cardinality(S) \in Nat
  BY FS_CardinalityType
<1>2. Cardinality(S \union {c}) = IF c \in S THEN Cardinality(S) ELSE Cardinality(S) + 1
  BY FS_AddElement
<1> QED
  BY <1>1, <1>2

CountsFor(p) ==
  /\ attempts[p] >= Cardinality(Counted(p))
  /\ ~torn /\ ~hurried => attempts[p] = Cardinality(Counted(p))

LEMMA CountsIs == Counts <=> \A p \in Player : CountsFor(p)
BY DEF Counts, CountsFor

LEMMA CountsIsNext == Counts' <=> (\A p \in Player : CountsFor(p))'
BY CountsIs, PTL

LEMMA CountsForSame ==
  ASSUME NEW p, CountsFor(p), attempts'[p] = attempts[p], Counted(p)' = Counted(p),
         torn => torn', hurried => hurried'
  PROVE  CountsFor(p)'
BY DEF CountsFor

LEMMA CountsKept ==
  Counters /\ Counters' /\ RowsStay /\ Custody /\ Counts /\ [Next]_vars => Counts'
<1> SUFFICES ASSUME Counters, Counters', RowsStay, Custody, Counts, [Next]_vars
             PROVE  Counts'
  OBVIOUS
<1>0. /\ torn => torn'
      /\ hurried => hurried'
      /\ \A p \in Player : CountsFor(p)
  BY TornStays, HurriedStays, CountsIs
<1>1. attempts \in [Player -> Nat]
  BY TypeParts DEF Counters, TablesTyped
<1>2. ASSUME NEW s \in Server, CountDeath(s), NEW q \in Player PROVE CountsFor(q)'
  <2>1. PICK c, p : c = queue[s][1].c /\ p = queue[s][1].p
    OBVIOUS
  <2>2. /\ p \in Player /\ c \in DOMAIN survivor /\ survivor[c].unique_id = p
        /\ attempts' = IF survivor[c].is_dead THEN attempts ELSE [attempts EXCEPT ![p] = @ + 1]
    BY <1>2, <2>1, CountDeathFields DEF Counters
  <2>3. /\ Counted(p)' = Counted(p) \union {c}
        /\ q # p => Counted(q)' = Counted(q)
    BY <1>2, <2>1, CountedGrows
  <2>4. CASE q # p
    <3>1. attempts'[q] = attempts[q]
      BY <1>1, <2>2, <2>4
    <3> QED
      BY <1>0, <2>3, <2>4, <3>1, CountsForSame
  <2>5. CASE q = p /\ survivor[c].is_dead
    <3>1. c \in Counted(p)
      BY <2>2, <2>5, CountedIs DEF Marked
    <3>2. Counted(q)' = Counted(q) /\ attempts'[q] = attempts[q]
      BY <2>2, <2>3, <2>5, <3>1
    <3> QED
      BY <1>0, <3>2, CountsForSame
  <2>6. CASE q = p /\ ~survivor[c].is_dead
    <3>1. attempts'[q] = attempts[q] + 1 /\ attempts[q] \in Nat
      BY <1>1, <2>2, <2>6
    <3>2. IsFiniteSet(Counted(q))
      BY CountedFinite
    <3>3. /\ Cardinality(Counted(q)) \in Nat
          /\ Cardinality(Counted(q) \union {c}) \in Nat
          /\ Cardinality(Counted(q) \union {c}) <= Cardinality(Counted(q)) + 1
          /\ c \notin Counted(q) => Cardinality(Counted(q) \union {c}) = Cardinality(Counted(q)) + 1
      BY <3>2, OneMore
    <3>4. ~hurried => c \notin Counted(q)
      BY <1>2, <2>1, <2>6, CountedNew
    <3>5. Counted(q)' = Counted(q) \union {c}
      BY <2>3, <2>6
    <3>6. attempts[q] >= Cardinality(Counted(q))
      BY <1>0 DEF CountsFor
    <3>7. attempts'[q] >= Cardinality(Counted(q)')
      BY <3>1, <3>3, <3>5, <3>6
    <3>8. ASSUME ~torn', ~hurried' PROVE attempts'[q] = Cardinality(Counted(q)')
      <4>1. ~torn /\ ~hurried
        BY <1>0, <3>8
      <4>2. attempts[q] = Cardinality(Counted(q))
        BY <1>0, <4>1 DEF CountsFor
      <4>3. c \notin Counted(q)
        BY <3>4, <4>1
      <4>4. Cardinality(Counted(q)') = Cardinality(Counted(q)) + 1
        BY <3>3, <3>5, <4>3
      <4> QED
        BY <3>1, <4>2, <4>4
    <3> QED
      BY <3>7, <3>8 DEF CountsFor
  <2> QED
    BY <2>4, <2>5, <2>6
<1>3. ASSUME NEW s \in Server, BreaksOff(s), pc[s] = "kill", NEW q \in Player PROVE CountsFor(q)'
  <2>1. UNCHANGED attempts /\ torn'
    BY <1>3, BreaksOffEffect DEF Counters
  <2>2. /\ IsFiniteSet(Counted(q)) /\ Cardinality(Counted(q)) \in Nat
        /\ Counted(q)' \subseteq Counted(q)
    BY <1>3, CountedFinite, CountedTorn
  <2>3. Cardinality(Counted(q)') <= Cardinality(Counted(q)) /\ Cardinality(Counted(q)') \in Nat
    BY <2>2, FS_Subset, FS_CardinalityType
  <2>4. attempts[q] >= Cardinality(Counted(q)) /\ attempts[q] \in Nat
    BY <1>0, <1>1 DEF CountsFor
  <2>5. attempts'[q] >= Cardinality(Counted(q)')
    BY <2>1, <2>2, <2>3, <2>4
  <2> QED
    BY <2>1, <2>5 DEF CountsFor
<1>4. ASSUME \A s \in Server : ~CountDeath(s), \A s \in Server : BreaksOff(s) => pc[s] # "kill",
             NEW q \in Player
      PROVE  CountsFor(q)'
  <2>1. Counted(q)' = Counted(q)
    BY <1>4, CountedSame
  <2>2. attempts'[q] = attempts[q]
    BY <1>4, AttemptsSame
  <2> QED
    BY <1>0, <2>1, <2>2, CountsForSame
<1>5. \A q \in Player : CountsFor(q)'
  BY <1>2, <1>3, <1>4
<1> QED
  BY <1>5, CountsIsNext

(* What is counted is what is dead, and what is about to be. *)
LEMMA CountsMean == Counters /\ Counts => StatsOnce
<1> SUFFICES ASSUME Counters, Counts, NEW p \in Player
             PROVE  /\ attempts[p] >= Cardinality(Dead(p))
                    /\ ~torn /\ ~hurried =>
                         attempts[p] = Cardinality(Dead(p)) + Cardinality(BeingKilled(p))
  BY DEF StatsOnce
<1>1. IsFiniteSet(Counted(p)) /\ Cardinality(Counted(p)) \in Nat
  BY CountedFinite
<1>2. Counted(p) = Dead(p) \union BeingKilled(p)
  BY DEF Counted
<1>3. /\ IsFiniteSet(Dead(p)) /\ Cardinality(Dead(p)) <= Cardinality(Counted(p))
      /\ Cardinality(Dead(p)) \in Nat
  BY <1>1, <1>2, FS_Subset, FS_CardinalityType
<1>4. IsFiniteSet(BeingKilled(p)) /\ Cardinality(BeingKilled(p)) \in Nat
  BY <1>1, <1>2, FS_Subset, FS_CardinalityType
<1>5. Dead(p) \intersect BeingKilled(p) = {}
  BY DEF Dead, Where, BeingKilled
<1>6. Cardinality(Dead(p) \intersect BeingKilled(p)) = 0
  BY <1>5, FS_EmptySet
<1>7. Cardinality(Counted(p)) =
        Cardinality(Dead(p)) + Cardinality(BeingKilled(p)) - Cardinality(Dead(p) \intersect BeingKilled(p))
  BY <1>2, <1>3, <1>4, FS_Union
<1>8. Cardinality(Counted(p)) = Cardinality(Dead(p)) + Cardinality(BeingKilled(p))
  BY <1>3, <1>4, <1>6, <1>7
<1>9. attempts[p] \in Nat
  BY TypeParts DEF Counters, TablesTyped
<1>10. attempts[p] >= Cardinality(Counted(p))
  BY DEF Counts
<1>11. attempts[p] >= Cardinality(Dead(p))
  BY <1>1, <1>3, <1>9, <1>10
<1>12. ~torn /\ ~hurried => attempts[p] = Cardinality(Counted(p))
  BY DEF Counts
<1> QED
  BY <1>8, <1>11, <1>12
----------------------------------------------------------------------------
(* The character a player is let in with has no update or death to come:   *)
(* who has one claims the character, so it is the server that lets the     *)
(* player in, and that has come to its last load.                          *)
Fresh(c) == \A t \in Server : \A i \in DOMAIN queue[t] :
  queue[t][i].op \in {"playerUpdate", "playerDeath"} => queue[t][i].c # c

LEMMA LoadedFresh ==
  ASSUME TypeOK, Executes, Owned, InTurn, Custody, StillNone, ~hurried,
         NEW s \in Server, queue[s] # <<>>, NEW p \in Player, NEW c \in DOMAIN survivor, Accepted(s, p, c)
  PROVE  Fresh(c)
<1> SUFFICES ASSUME NEW t \in Server, NEW i \in DOMAIN queue[t],
                    queue[t][i].op \in {"playerUpdate", "playerDeath"}, queue[t][i].c = c
             PROVE  FALSE
  BY DEF Fresh
<1>1. Answered(s, p) /\ c \in Alive(s, p)
  BY DEF Accepted
<1>2. Needs(t, i)
  BY DEF Needs, Owners, Executes
<1>3. survivor[c].activeserver = t
  BY <1>2 DEF Custody
<1>4. survivor[c].activeserver \in {NoServer, s}
  <2>1. queue[s][1].p = p
    BY <1>1 DEF Answered
  <2>2. CASE pc[s] = "selectCharacter"
    BY <2>2 DEF Accepted
  <2>3. CASE pc[s] = "selectNew"
    BY <1>1, <2>1, <2>3 DEF StillNone
  <2> QED
    BY <2>2, <2>3 DEF Accepted
<1>5. t = s
  BY <1>3, <1>4, NoServerAssumption
<1>6. queue[s][i].p = p
  <2>1. survivor[c].unique_id = queue[t][i].p
    BY DEF Owned, Owners
  <2>2. survivor[c].unique_id = p
    BY <1>1 DEF Alive
  <2> QED
    BY <1>5, <2>1, <2>2
<1>7. ~(i > 1)
  BY <1>1, <1>5, <1>6, LastLoad, TidyAll
<1>8. i = 1
  BY <1>5, <1>7, QueueIs, TypeParts DEF ServersTyped
<1> QED
  BY <1>1, <1>5, <1>8 DEF Answered

FreshStep == ~hurried => \A p \in Player : phase[p] = "loading" /\ phase'[p] = "details" =>
               \A s \in Server : \A i \in DOMAIN queue[s] :
                 queue[s][i].op \in {"playerUpdate", "playerDeath"} => queue[s][i].c # id'[p]

LEMMA LoadsFreshly ==
  TypeOK /\ Executes /\ Owned /\ InTurn /\ Custody /\ StillNone /\ [Next]_vars => FreshStep
<1> SUFFICES ASSUME TypeOK, Executes, Owned, InTurn, Custody, StillNone, [Next]_vars, ~hurried,
                    NEW p \in Player, phase[p] = "loading", phase'[p] = "details"
             PROVE  Fresh(id'[p])
  BY DEF FreshStep, Fresh
<1>0. phase \in [Player -> {"away", "loading", "refused", "details", "playing", "dead"}] /\ DOMAIN id = Player
  BY TypeParts DEF SessionTyped
<1>1. \E s \in Server, c \in DOMAIN survivor : queue[s] # <<>> /\ Accepted(s, p, c)
  <2>1. ~Stays /\ \A s \in Server : ~Returned(s)
    BY DEF Stays, Returned, session
  <2>2. \A s \in Server : ~Crash(s)
    BY CrashEmpties
  <2>3. \A q \in Player, s \in Server :
          /\ ~AskedLoad(q, s) /\ ~AskedSave(q, s)
          /\ \A n : ~AskedDeath(q, s, n)
          /\ \A new : ~AskedLeave(q, s, new)
    BY DEF AskedLoad, AskedSave, AskedDeath, AskedLeave, Asked, session
  <2>4. \A q \in Player, s \in Server : ~Refused(s, q) /\ ~Denied(s, q) /\ ~Entered(s, q)
    BY <1>0 DEF Refused, Denied, Entered
  <2>5. \A q \in Player, s \in Server, c \in DOMAIN survivor : Accepted(s, q, c) => q = p
    BY <1>0 DEF Accepted
  <2> QED
    BY <2>1, <2>2, <2>3, <2>4, <2>5, SessionCases
<1>2. PICK s \in Server, c \in DOMAIN survivor : queue[s] # <<>> /\ Accepted(s, p, c)
  BY <1>1
<1>3. id'[p] = c
  BY <1>0, <1>2 DEF Accepted
<1>4. Fresh(c)
  BY <1>2, LoadedFresh
<1> QED
  BY <1>3, <1>4
----------------------------------------------------------------------------
(* The invariant holds. *)
LEMMA NothingYet == Init =>
  /\ DOMAIN survivor = {} /\ survivor = <<>> /\ attempts = [p \in Player |-> 0]
  /\ \A s \in Server : queue[s] = <<>> /\ DOMAIN queue[s] = {} /\ pc[s] = "start" /\ process[s] = "up"
  /\ \A p \in Player : at[p] = NoServer /\ phase[p] = "away" /\ attempts[p] = 0
BY DEF Init

LEMMA InitTyped == Init => TypeOK
<1> SUFFICES ASSUME Init PROVE TypeOK
  OBVIOUS
<1>1. TablesTyped
  BY DEF Init, TablesTyped
<1>2. ServersTyped
  BY DEF Init, ServersTyped, Queues, Statements
<1>3. SessionTyped
  BY DEF Init, SessionTyped
<1>4. HistoryTyped
  <2>1. MaxJoins \in Nat /\ MaxCrashes \in Nat /\ MaxFailures \in Nat
    BY BoundsAssumption
  <2>2. joins = 0 /\ crashes = 0 /\ failures = 0
    BY DEF Init
  <2>3. joins \in 0..MaxJoins /\ crashes \in 0..MaxCrashes /\ failures \in 0..MaxFailures
    BY <2>1, <2>2
  <2>4. torn \in BOOLEAN /\ hurried \in BOOLEAN
    BY DEF Init
  <2> QED
    BY <2>3, <2>4, Zenon DEF HistoryTyped
<1>5. LostTyped
  BY DEF Init, LostTyped
<1> QED
  BY <1>1, <1>2, <1>3, <1>4, <1>5, TypeParts

LEMMA InitInv == Init => Inv
<1> SUFFICES ASSUME Init PROVE Inv
  OBVIOUS
<1>1. TypeOK
  BY InitTyped
<1>2. CallsInOrder
  BY NothingYet DEF CallsInOrder, Executes, Owned, InTurn, FreedLast, ClaimFollowed, OneLoads
<1>3. LastClaimed /\ ClaimHonest /\ OneAlive
  BY NothingYet DEF LastClaimed, ClaimHonest, OneAlive
<1>4. Custody /\ StillNone /\ ClaimHeld
  BY NothingYet DEF Custody, StillNone, ClaimHeld
<1>5. Counts
  <2>1. ASSUME NEW p \in Player PROVE Counted(p) = {}
    BY NothingYet DEF Counted, Dead, Where, BeingKilled
  <2>2. Cardinality({}) = 0
    BY FS_EmptySet
  <2>3. ASSUME NEW p \in Player PROVE Cardinality(Counted(p)) = 0 /\ attempts[p] = 0
    BY <2>1, <2>2, NothingYet
  <2> QED
    BY <2>3 DEF Counts
<1> QED
  BY <1>1, <1>2, <1>3, <1>4, <1>5 DEF Inv, TablesAgree

LEMMA InvParts == Inv <=>
  /\ TypeOK /\ Executes /\ Owned /\ InTurn /\ FreedLast /\ ClaimFollowed /\ OneLoads
  /\ LastClaimed /\ Custody /\ StillNone /\ Counts /\ ClaimHonest /\ ClaimHeld /\ OneAlive
BY Zenon DEF Inv, CallsInOrder, TablesAgree

LEMMA InvPartsNext == Inv' <=>
  /\ TypeOK' /\ Executes' /\ Owned' /\ InTurn' /\ FreedLast' /\ ClaimFollowed' /\ OneLoads'
  /\ LastClaimed' /\ Custody' /\ StillNone' /\ Counts' /\ ClaimHonest' /\ ClaimHeld' /\ OneAlive'
BY Zenon DEF Inv, CallsInOrder, TablesAgree

LEMMA InvKept == Inv /\ [Next]_vars => Inv'
<1> SUFFICES ASSUME Inv, [Next]_vars PROVE Inv'
  OBVIOUS
<1>0. /\ TypeOK /\ Executes /\ Owned /\ InTurn /\ FreedLast /\ ClaimFollowed /\ OneLoads
      /\ LastClaimed /\ Custody /\ StillNone /\ Counts /\ ClaimHonest /\ ClaimHeld /\ OneAlive
  BY InvParts
<1>1. TypeOK'
  BY <1>0, TypesKept
<1>2. Executes'
  BY <1>0, <1>1, ExecutesKept
<1>3. Owned'
  BY <1>0, <1>1, OwnedKept
<1>4. InTurn'
  BY <1>0, <1>1, InTurnKept
<1>5. FreedLast' /\ ClaimFollowed' /\ OneLoads'
  BY <1>0, FreedLastKept, ClaimFollowedKept, OneLoadsKept
<1>6. LastClaimed' /\ StillNone' /\ ClaimHonest' /\ OneAlive'
  BY <1>0, LastClaimedKept, StillNoneKept, ClaimHonestKept, OneAliveKept
<1>7. Custody' /\ ClaimHeld'
  <2>1. CASE hurried
    <3>1. hurried'
      BY <2>1, HurriedStays
    <3> QED
      BY <3>1 DEF Custody, ClaimHeld
  <2>2. CASE ~hurried
    <3>1. Custodies
      BY <1>0, <2>2 DEF Custodies
    <3> QED
      BY <1>0, <3>1, CustodyKept
  <2> QED
    BY <2>1, <2>2
<1>8. Counts'
  <2>1. Counters /\ Counters'
    BY <1>0, <1>1, <1>2, <1>3 DEF Counters
  <2>2. RowsStay
    BY <1>0, RowsStayed
  <2> QED
    BY <1>0, <2>1, <2>2, CountsKept
<1> QED
  BY <1>1, <1>2, <1>3, <1>4, <1>5, <1>6, <1>7, <1>8, InvPartsNext

(* The tables, the calls, the sessions and the counters have their types;  *)
(* a session's character is one there is.                                  *)
THEOREM CharactersTypeCorrect == Spec => []TypeOK
<1>1. Inv => TypeOK
  BY DEF Inv
<1> QED
  BY <1>1, InitInv, InvKept, PTL DEF Spec

(* A server that claims a character has its player, or is still to hear    *)
(* that the player is gone (playerDisconnected, which releases whatever    *)
(* clearActiveServer finds), or has yet to reset its claims: whatever      *)
(* crashes and hurries, only a claim whose release, or the reset after it, *)
(* has failed stays behind (connectionFailure has nothing done again).     *)
THEOREM ClaimsAreHonest == Spec => []ClaimHonest
<1>1. Inv => ClaimHonest
  BY DEF Inv, TablesAgree
<1> QED
  BY <1>1, InitInv, InvKept, PTL DEF Spec

(* A character being played is claimed by the server it is played on, as   *)
(* long as nobody hurries: no late claim of fetchCharacterDetails, release *)
(* of clearActiveServer or reset of populateObjects on another server      *)
(* takes the claim away.                                                   *)
THEOREM ClaimsAreHeld == Spec => []ClaimHeld
<1>1. Inv => ClaimHeld
  BY DEF Inv, TablesAgree
<1> QED
  BY <1>1, InitInv, InvKept, PTL DEF Spec

(* fetchCharacterInitial looks for a living character, inserts one and     *)
(* looks for it again, in three statements; as long as nobody hurries, a   *)
(* player has one living character in a world all the same.                *)
THEOREM OneLivingCharacter == Spec => []OneAlive
<1>1. Inv => OneAlive
  BY DEF Inv, TablesAgree
<1> QED
  BY <1>1, InitInv, InvKept, PTL DEF Spec

(* killCharacter counts a death and marks it in two statements: no death   *)
(* goes uncounted, and, where no crash and no failure comes between the    *)
(* two and nobody hurries, none is counted twice.                          *)
THEOREM DeathsCountOnce == Spec => []StatsOnce
<1>1. Inv => StatsOnce
  BY CountsMean DEF Inv, CallsInOrder, TablesAgree, Counters
<1> QED
  BY <1>1, InitInv, InvKept, PTL DEF Spec

(* The character with which a player is let in has no update and no death  *)
(* to come on any server, as long as nobody hurries: what                  *)
(* fetchCharacterDetails will read is what was saved.                      *)
THEOREM LoadsAreFresh == Spec => FreshLoad
<1>1. Inv /\ [Next]_vars => FreshStep
  BY LoadsFreshly, InvParts
<1>2. FreshStep => [~hurried => \A p \in Player : phase[p] = "loading" /\ phase'[p] = "details" =>
       \A s \in Server : \A i \in DOMAIN queue[s] :
         queue[s][i].op \in {"playerUpdate", "playerDeath"}
           => queue[s][i].c # id'[p]]_vars
  BY DEF FreshStep
<1> QED
  BY <1>1, <1>2, InitInv, InvKept, PTL DEF Spec, FreshLoad
=============================================================================
