-------------------------- MODULE ReaderWriterQueue --------------------------
(***************************************************************************)
(* readerwriterqueue.h, the lock-free queue between the game thread (the   *)
(* producer, AsyncWorker::execute) and the worker (the consumer,           *)
(* AsyncWorker::run, which peeks and then dequeues).                       *)
(*                                                                         *)
(* The queue is a ring of blocks, each a circular buffer.  The consumer    *)
(* owns frontBlock, front and localTail, the producer owns tailBlock, tail *)
(* and localFront.  A step ends at each access to memory the other thread  *)
(* writes or reads; the steps are sequentially consistent, which is what   *)
(* the fences ask of the hardware.                                         *)
(***************************************************************************)
EXTENDS Naturals, Sequences, FiniteSets

CONSTANTS Queues,          \* the queues: their maxSize (THREADING.size), and the
                           \* MAX_BLOCK_SIZE of their template
          MaxElements,     \* bound on the elements that are enqueued
          MaxRefused,      \* bound on those there is no memory for
          Nothing          \* the null pointer

ASSUME QueuesAssumption ==
  Queues \subseteq [maxSize : Nat \ {0}, MAX_BLOCK_SIZE : Nat \ {0, 1}]
ASSUME ElementsAssumption == MaxElements \in Nat /\ MaxRefused \in Nat
                             /\ Nothing \notin 1..MaxElements

VARIABLES
  blocks,            \* the blocks, in the order they were made
  frontBlock, tailBlock, largestBlockSize,
  ppc, element,      \* the producer, and the number of its last element
  cpc, op, nextBlock, result,  \* the consumer, and its locals
  queue,             \* which of Queues this is: never changes
  roomy,             \* history: fewer than maxSize when the enqueue began
  refused,           \* history: the elements there was no memory for
  empty              \* history: the queue was empty during the consumer's call

producer == <<ppc, element, roomy, refused>>
consumer == <<cpc, op, nextBlock, result, empty>>
vars == <<blocks, frontBlock, tailBlock, largestBlockSize, producer, consumer, queue>>

Elements == 1..MaxElements
maxSize == queue.maxSize
MAX_BLOCK_SIZE == queue.MAX_BLOCK_SIZE
Blocks == DOMAIN blocks

----------------------------------------------------------------------------
(* Blocks. *)

ceilToPow2(x) == CHOOSE p \in {2^n : n \in 0..x} : p >= x /\ \A n \in 0..x : 2^n >= x => p <= 2^n

make_block(capacity, next) ==
  [front |-> 0, localTail |-> 0, tail |-> 0, localFront |-> 0, next |-> next,
   data |-> [i \in 0..(capacity - 1) |-> Nothing]]

(* (i + 1) & sizeMask *)
After(b, i) == (i + 1) % Cardinality(DOMAIN blocks[b].data)

(* The first block has room for maxSize elements and a spare slot: there   *)
(* is a least power of two to choose, and it is large enough.              *)
ASSUME CeilAssumption ==
  \A q \in Queues : LET c == ceilToPow2(q.maxSize + 1) IN c \in Nat /\ c > q.maxSize

(* Fault: no spare slot, and no spare block. *)
InitialRingTight ==
  LET capacity == ceilToPow2(maxSize)
  IN [b \in 1..1 |-> make_block(capacity, 1)]

(* The constructor: one block that can hold maxSize elements, or a ring    *)
(* of blocks of the greatest size, with one to spare.                      *)
InitialRing ==
  LET one == ceilToPow2(maxSize + 1)
      count == IF one > MAX_BLOCK_SIZE * 2
                 THEN (maxSize + MAX_BLOCK_SIZE * 2 - 3) \div (MAX_BLOCK_SIZE - 1) ELSE 1
      capacity == IF one > MAX_BLOCK_SIZE * 2 THEN MAX_BLOCK_SIZE ELSE one
  IN [b \in 1..count |-> make_block(capacity, (b % count) + 1)]

Init == /\ queue \in Queues
        /\ blocks = InitialRing
        /\ largestBlockSize = Cardinality(DOMAIN blocks[1].data)
        /\ frontBlock = 1 /\ tailBlock = 1
        /\ ppc = "idle" /\ element = 0 /\ roomy = TRUE /\ refused = 0
        /\ cpc = "idle" /\ op = "dequeue" /\ nextBlock = 1
        /\ result = Nothing /\ empty = FALSE

(* What is in the queue: the elements from front to tail of each block,    *)
(* from the front block to the tail block.                                 *)
In(block) ==
  LET size == Cardinality(DOMAIN block.data)
      count == (size + block.tail - block.front) % size
  IN [i \in 1..count |-> block.data[(block.front + i - 1) % size]]

Contents ==
  LET from[b \in Blocks] == IF b = tailBlock THEN In(blocks[b])
                            ELSE In(blocks[b]) \o from[blocks[b].next]
  IN from[frontBlock]

----------------------------------------------------------------------------
(* The producer: inner_enqueue. *)

ProducerGoes(here, there) ==
  /\ ppc = here /\ ppc' = there
  /\ UNCHANGED <<element, roomy, consumer, frontBlock, queue>>

Owns == blocks[tailBlock]
NextTail == After(tailBlock, Owns.tail)

Enqueue == /\ ppc = "idle" /\ element < MaxElements
           /\ element' = element + 1
           /\ roomy' = (Len(Contents) < maxSize)
           /\ ppc' = IF NextTail # Owns.localFront THEN "store" ELSE "loadFront"
           /\ UNCHANGED <<blocks, frontBlock, tailBlock, largestBlockSize, refused, consumer, queue>>

(* Fault: the spare slot is not kept. *)
LoadFrontEager == /\ ProducerGoes("loadFront", "store")
                  /\ blocks' = [blocks EXCEPT ![tailBlock].localFront = Owns.front]
                  /\ UNCHANGED <<tailBlock, largestBlockSize, refused>>

LoadFront == /\ ProducerGoes("loadFront", IF NextTail # Owns.front THEN "store" ELSE "full")
             /\ blocks' = [blocks EXCEPT ![tailBlock].localFront = Owns.front]
             /\ UNCHANGED <<tailBlock, largestBlockSize, refused>>

Store == /\ ProducerGoes("store", "publish")
         /\ blocks' = [blocks EXCEPT ![tailBlock].data[Owns.tail] = element]
         /\ UNCHANGED <<tailBlock, largestBlockSize, refused>>

Publish == /\ ProducerGoes("publish", "idle")
           /\ blocks' = [blocks EXCEPT ![tailBlock].tail = NextTail]
           /\ UNCHANGED <<tailBlock, largestBlockSize, refused>>

Full == /\ ProducerGoes("full", IF Owns.next # frontBlock THEN "loadNext" ELSE "allocate")
        /\ UNCHANGED <<blocks, tailBlock, largestBlockSize, refused>>

LoadNext == /\ ProducerGoes("loadNext", "storeNext")
            /\ blocks' = [blocks EXCEPT ![Owns.next].localFront = blocks[Owns.next].front]
            /\ UNCHANGED <<tailBlock, largestBlockSize, refused>>

StoreNext == /\ ProducerGoes("storeNext", "publishNext")
             /\ blocks' = [blocks EXCEPT ![Owns.next].data[blocks[Owns.next].tail] = element]
             /\ UNCHANGED <<tailBlock, largestBlockSize, refused>>

(* Fault: the tail block is not moved on. *)
PublishNextOnly == /\ ProducerGoes("publishNext", "idle")
                   /\ blocks' = [blocks EXCEPT ![Owns.next].tail = After(Owns.next, @)]
                   /\ UNCHANGED <<tailBlock, largestBlockSize, refused>>

PublishNext == /\ ProducerGoes("publishNext", "advance")
               /\ blocks' = [blocks EXCEPT ![Owns.next].tail = After(Owns.next, @)]
               /\ UNCHANGED <<tailBlock, largestBlockSize, refused>>

(* No block ahead is free.  There may be no memory for one more: then the  *)
(* element is gone, and execute does not look at what enqueue returns.     *)
Allocate ==
  \/ /\ ProducerGoes("allocate", "idle")
     /\ refused < MaxRefused /\ refused' = refused + 1
     /\ UNCHANGED <<blocks, tailBlock, largestBlockSize>>
  \/ /\ ProducerGoes("allocate", "link")
     /\ largestBlockSize' = IF largestBlockSize >= MAX_BLOCK_SIZE
                              THEN largestBlockSize ELSE largestBlockSize * 2
     /\ blocks' = Append(blocks,
          [make_block(largestBlockSize', Owns.next) EXCEPT
             !.data[0] = element, !.tail = 1, !.localTail = 1])
     /\ UNCHANGED <<tailBlock, refused>>

Link == /\ ProducerGoes("link", "advance")
        /\ blocks' = [blocks EXCEPT ![tailBlock].next = Len(blocks)]
        /\ UNCHANGED <<tailBlock, largestBlockSize, refused>>

Advance == /\ ProducerGoes("advance", "idle")
           /\ tailBlock' = Owns.next
           /\ UNCHANGED <<blocks, largestBlockSize, refused>>

Producer == Enqueue \/ LoadFront \/ Store \/ Publish \/ Full \/ LoadNext
              \/ StoreNext \/ PublishNext \/ Allocate \/ Link \/ Advance

----------------------------------------------------------------------------
(* The consumer: peek and try_dequeue, which take the same way to the      *)
(* first element.                                                          *)

ConsumerOnly == UNCHANGED <<tailBlock, largestBlockSize, producer, queue>>

(* External: the worker dequeues when its peek has seen something. *)
Call == /\ cpc = "idle" /\ cpc' = "look"
        /\ op' = IF op = "peek" /\ result # Nothing THEN "dequeue" ELSE "peek"
        /\ result' = Nothing /\ empty' = FALSE
        /\ UNCHANGED <<blocks, frontBlock, nextBlock>> /\ ConsumerOnly

(* The first element is in block b: peek returns it. *)
Found(b) == IF op = "peek"
              THEN /\ cpc' = "idle"
                   /\ result' = blocks[b].data[blocks[b].front]
                   /\ empty' = FALSE
              ELSE /\ cpc' = IF b = frontBlock THEN "take" ELSE "advance"
                   /\ UNCHANGED <<result, empty>>

NotYet(there) == cpc' = there /\ UNCHANGED result

Look == /\ cpc = "look"
        /\ IF blocks[frontBlock].front # blocks[frontBlock].localTail
             THEN Found(frontBlock)
             ELSE NotYet("loadTail") /\ UNCHANGED empty
        /\ UNCHANGED <<blocks, frontBlock, op, nextBlock>> /\ ConsumerOnly

(* The tail is read anew, into localTail. *)
ReadTail(there) ==
  /\ blocks' = [blocks EXCEPT ![frontBlock].localTail = blocks[frontBlock].tail]
  /\ IF blocks[frontBlock].front # blocks[frontBlock].tail
       THEN Found(frontBlock)
       ELSE NotYet(there) /\ empty' = (empty \/ Contents = <<>>)
  /\ UNCHANGED <<frontBlock, op, nextBlock>> /\ ConsumerOnly

LoadTail == cpc = "loadTail" /\ ReadTail("tailBlock")

(* Fault: the consumer stays in its block. *)
LoadTailBlockNever == /\ cpc = "tailBlock"
                      /\ NotYet("idle") /\ empty' = FALSE
                      /\ UNCHANGED <<blocks, frontBlock, op, nextBlock>> /\ ConsumerOnly

(* Nothing in the front block: is it the tail block? *)
LoadTailBlock == /\ cpc = "tailBlock"
                 /\ IF frontBlock = tailBlock
                      THEN NotYet("idle") /\ empty' = FALSE
                      ELSE NotYet("again") /\ UNCHANGED empty
                 /\ UNCHANGED <<blocks, frontBlock, op, nextBlock>> /\ ConsumerOnly

Again == cpc = "again" /\ ReadTail("next")

LoadNextBlock == /\ cpc = "next"
                 /\ nextBlock' = blocks[frontBlock].next
                 /\ NotYet("loadNextTail") /\ UNCHANGED empty
                 /\ UNCHANGED <<blocks, frontBlock, op>> /\ ConsumerOnly

LoadNextTail ==
  /\ cpc = "loadNextTail"
  /\ Found(nextBlock)
  /\ blocks' = IF op = "peek" THEN blocks
               ELSE [blocks EXCEPT ![nextBlock].localTail = blocks[nextBlock].tail]
  /\ UNCHANGED <<frontBlock, op, nextBlock>> /\ ConsumerOnly

AdvanceFront == /\ cpc = "advance" /\ cpc' = "take"
                /\ frontBlock' = nextBlock
                /\ UNCHANGED <<blocks, op, nextBlock, result, empty>> /\ ConsumerOnly

Take == /\ cpc = "take" /\ cpc' = "release"
        /\ result' = blocks[frontBlock].data[blocks[frontBlock].front]
        /\ UNCHANGED <<blocks, frontBlock, op, nextBlock, empty>> /\ ConsumerOnly

Release == /\ cpc = "release" /\ cpc' = "idle"
           /\ blocks' = [blocks EXCEPT ![frontBlock].front = After(frontBlock, @)]
           /\ empty' = FALSE
           /\ UNCHANGED <<frontBlock, op, nextBlock, result>> /\ ConsumerOnly

Consumer == Call \/ Look \/ LoadTail \/ LoadTailBlock \/ Again \/ LoadNextBlock
              \/ LoadNextTail \/ AdvanceFront \/ Take \/ Release

Next == Producer \/ Consumer

Spec == Init /\ [][Next]_vars

(* Both threads run.  The game owes no further command. *)
Fairness == WF_vars(Producer /\ ~Enqueue) /\ WF_vars(Consumer)
FairSpec == Spec /\ Fairness

----------------------------------------------------------------------------
(* Properties. *)

ProducerStates == {"idle", "loadFront", "store", "publish", "full", "loadNext",
  "storeNext", "publishNext", "allocate", "link", "advance"}
ConsumerStates == {"idle", "look", "loadTail", "tailBlock", "again", "next",
  "loadNextTail", "advance", "take", "release"}

TypeOK ==
  /\ queue \in Queues /\ largestBlockSize \in Nat
  /\ \A b \in Blocks :
       LET slots == DOMAIN blocks[b].data
       IN /\ {blocks[b].front, blocks[b].localTail, blocks[b].tail,
              blocks[b].localFront} \subseteq slots
          /\ blocks[b].next \in Blocks
          /\ \A i \in slots : blocks[b].data[i] \in Elements \cup {Nothing}
  /\ {frontBlock, tailBlock, nextBlock} \subseteq Blocks
  /\ ppc \in ProducerStates /\ element \in 0..MaxElements /\ roomy \in BOOLEAN
  /\ refused \in 0..MaxRefused
  /\ cpc \in ConsumerStates /\ op \in {"peek", "dequeue"}
  /\ result \in Elements \cup {Nothing}
  /\ empty \in BOOLEAN

(* The threads never touch one slot at a time: the slot being written is   *)
(* not the one being moved out of.  (What peek returns is only compared    *)
(* with null.)                                                             *)
SlotsApart ==
  LET written == CASE ppc = "store" -> {<<tailBlock, Owns.tail>>}
                   [] ppc = "storeNext" -> {<<Owns.next, blocks[Owns.next].tail>>}
                   [] OTHER -> {}
      read == IF cpc \in {"take", "release"}
                THEN {<<frontBlock, blocks[frontBlock].front>>} ELSE {}
  IN written \cap read = {}

(* "Constructs a queue that can hold maxSize elements without further      *)
(* allocations" (readerwriterqueue.h:64): memory is asked for, and a       *)
(* command can get lost, only by an enqueue that found that many in the    *)
(* queue, however they are spread over the blocks.                         *)
RoomAsPromised == ppc = "allocate" => ~roomy

(* The queue is a queue: every call takes effect at once, in order, and    *)
(* null is answered only when there was nothing at some moment.  What a    *)
(* peek saw, the next dequeue gets: AsyncWorker.tla makes one step of the  *)
(* two.                                                                    *)
Queue == INSTANCE CommandQueue WITH
           Elements <- Elements,
           Nothing <- Nothing,
           contents <- Contents,
           offered <- IF ppc = "idle" THEN Nothing ELSE element,
           refused <- refused,
           got <- IF cpc = "release" THEN Nothing ELSE result,
           empty <- empty
ImplementsQueue == Queue!Spec

(* The queue never stands still: while there is something in it, the       *)
(* worker gets to the end of a dequeue, whatever the producer is doing.    *)
DequeueComes == Contents # <<>> ~> cpc = "release"
=============================================================================
