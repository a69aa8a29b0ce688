----------------------- MODULE ReaderWriterQueueProofs ------------------------
(***************************************************************************)
(* Proofs about ReaderWriterQueue, for queues of any size, however often   *)
(* they grow: the two threads never touch one slot at a time, the          *)
(* assertions of readerwriterqueue.h hold, an enqueue that finds room      *)
(* never asks for memory, and the queue implements CommandQueue.           *)
(*                                                                         *)
(* Inv is about the blocks.  A block is well formed when the copies of     *)
(* front and tail that the threads keep are behind the real ones           *)
(* (WellFormed).  The blocks form a ring in which those with elements lie  *)
(* between the front block and the tail block (Ring).  Each thread relies  *)
(* on a few facts about what it has read, which the steps of the other do  *)
(* not change (ProducerSees, ConsumerSees).                                *)
(*                                                                         *)
(* Whole is about what they hold.  Contents is a recursion along the ring, *)
(* and what it says of one block is said by an induction over the block's  *)
(* rank, its distance from the tail block (Circle, NoDescent).  The blocks *)
(* between the front block and the tail block are full (Ranks), and but    *)
(* for one block there is room for maxSize elements (Capacity): so when no *)
(* block is free there are that many in the queue (Room).  The element of  *)
(* the enqueue under way is where it was put (Placed), and the consumer    *)
(* has the first one, or has seen that there is none (Got).                *)
(***************************************************************************)
EXTENDS ReaderWriterQueue, FiniteSetTheorems, SequenceTheorems, TLAPS

----------------------------------------------------------------------------
(* Circular buffers: the slot after i, and the slots from i on to j. *)

Sizes == Nat \ {0, 1}
Follow(size, i) == (i + 1) % size
Dist(size, i, j) == IF j >= i THEN j - i ELSE j + size - i

LEMMA Following ==
  ASSUME NEW size \in Sizes, NEW i \in 0..(size - 1)
  PROVE  /\ Follow(size, i) = IF i + 1 = size THEN 0 ELSE i + 1
         /\ Follow(size, i) \in 0..(size - 1)
<1>1. CASE i + 1 = size
  BY <1>1 DEF Follow, Sizes
<1>2. CASE i + 1 # size
  BY <1>2 DEF Follow, Sizes
<1> QED
  BY <1>1, <1>2

(* What a step forward does to the distances. *)
Measured(size) ==
  \A i, j \in 0..(size - 1) :
    /\ Dist(size, i, j) \in 0..(size - 1)
    /\ Dist(size, i, j) = 0 <=> i = j
    /\ Follow(size, j) # j
    /\ Follow(size, j) # i <=> Dist(size, i, j) < size - 1
    /\ Follow(size, j) # i => Dist(size, i, Follow(size, j)) = Dist(size, i, j) + 1
    /\ i # j => Dist(size, Follow(size, i), j) = Dist(size, i, j) - 1

LEMMA Distances ==
  ASSUME NEW size \in Sizes
  PROVE  Measured(size)
BY Following DEF Dist, Sizes, Measured

----------------------------------------------------------------------------
(* Blocks. *)

Values == (0..MaxElements) \cup {Nothing}
Block == [front : Nat, localTail : Nat, tail : Nat, localFront : Nat, next : Nat,
          data : UNION {[0..(size - 1) -> Values] : size \in Sizes}]

Size(block) == Cardinality(DOMAIN block.data)
Vacant(block) == block.front = block.tail

(* What the consumer believes to be in a block is in it, and what the      *)
(* producer believes to be free is free.                                   *)
WellFormed(block) ==
  /\ block \in Block
  /\ {block.front, block.localTail, block.tail, block.localFront} \subseteq 0..(Size(block) - 1)
  /\ Dist(Size(block), block.front, block.localTail) <= Dist(Size(block), block.front, block.tail)
  /\ Dist(Size(block), block.front, block.tail) <= Dist(Size(block), block.localFront, block.tail)

LEMMA SizeOf ==
  ASSUME NEW size \in Sizes, NEW data \in [0..(size - 1) -> Values]
  PROVE  Cardinality(DOMAIN data) = size
<1>1. DOMAIN data = 0..(size - 1) /\ size - 1 \in Int /\ 0 <= size - 1
  BY DEF Sizes
<1> QED
  BY <1>1, FS_Interval DEF Sizes

LEMMA BlockSize ==
  ASSUME NEW block \in Block
  PROVE  /\ Size(block) \in Sizes
         /\ block.data \in [0..(Size(block) - 1) -> Values]
<1>1. PICK size \in Sizes : block.data \in [0..(size - 1) -> Values]
  BY DEF Block
<1> QED
  BY <1>1, SizeOf DEF Size

(* The producer publishes the slot after which there is one to spare. *)
LEMMA Published ==
  ASSUME NEW block, WellFormed(block),
         Follow(Size(block), block.tail) # block.localFront
  PROVE  LET more == [block EXCEPT !.tail = Follow(Size(block), block.tail)]
         IN  WellFormed(more) /\ ~Vacant(more)
<1> DEFINE size == Size(block)
           more == [block EXCEPT !.tail = Follow(Size(block), block.tail)]
<1>1. /\ block \in Block /\ size \in Sizes
      /\ block.front \in 0..(size - 1) /\ block.tail \in 0..(size - 1)
      /\ block.localTail \in 0..(size - 1) /\ block.localFront \in 0..(size - 1)
  BY BlockSize DEF WellFormed
<1>2. Measured(size)
  BY <1>1, Distances
<1>3. Follow(size, block.tail) \in 0..(size - 1)
  BY <1>1, Following
<1>4. /\ more \in Block /\ Size(more) = size
      /\ more.front = block.front /\ more.localTail = block.localTail
      /\ more.localFront = block.localFront /\ more.tail = Follow(size, block.tail)
  BY <1>1, <1>3 DEF Block, Size, Sizes
<1> HIDE DEF size, more
<1>5. /\ Dist(size, block.front, block.localTail) <= Dist(size, block.front, block.tail)
      /\ Dist(size, block.front, block.tail) <= Dist(size, block.localFront, block.tail)
      /\ Follow(size, block.tail) # block.localFront
  BY DEF WellFormed, size
<1>6. /\ Dist(size, block.front, block.tail) \in 0..(size - 1)
      /\ Dist(size, block.localFront, block.tail) \in 0..(size - 1)
      /\ Dist(size, block.front, block.localTail) \in 0..(size - 1)
      /\ Dist(size, block.localFront, block.tail) < size - 1
  BY <1>1, <1>5, <1>2 DEF Measured
<1>7. Follow(size, block.tail) # block.front
  <2>1. Dist(size, block.front, block.tail) < size - 1
    BY <1>1, <1>5, <1>6 DEF Sizes
  <2> QED
    BY <1>1, <2>1, <1>2 DEF Measured
<1>8. /\ Dist(size, block.front, Follow(size, block.tail)) = Dist(size, block.front, block.tail) + 1
      /\ Dist(size, block.localFront, Follow(size, block.tail)) = Dist(size, block.localFront, block.tail) + 1
  <2>1. \A i, j \in 0..(size - 1) : Follow(size, j) # i => Dist(size, i, Follow(size, j)) = Dist(size, i, j) + 1
    BY <1>2 DEF Measured
  <2> QED
    BY <1>1, <1>5, <1>7, <2>1
<1> QED
  BY <1>1, <1>3, <1>4, <1>5, <1>6, <1>7, <1>8 DEF WellFormed, Vacant, more, size

(* The consumer releases a slot it believes to be taken.                   *)
LEMMA Released ==
  ASSUME NEW block, WellFormed(block), block.front # block.localTail
  PROVE  /\ WellFormed([block EXCEPT !.front = Follow(Size(block), block.front)])
         /\ ~Vacant(block)
<1> DEFINE size == Size(block)
           less == [block EXCEPT !.front = Follow(Size(block), block.front)]
<1>1. /\ block \in Block /\ size \in Sizes
      /\ block.front \in 0..(size - 1) /\ block.tail \in 0..(size - 1)
      /\ block.localTail \in 0..(size - 1) /\ block.localFront \in 0..(size - 1)
  BY BlockSize DEF WellFormed
<1>2. Measured(size)
  BY <1>1, Distances
<1>3. Follow(size, block.front) \in 0..(size - 1)
  BY <1>1, Following
<1>4. /\ less \in Block /\ Size(less) = size
      /\ less.front = Follow(size, block.front) /\ less.localTail = block.localTail
      /\ less.localFront = block.localFront /\ less.tail = block.tail
  BY <1>1, <1>3 DEF Block, Size, Sizes
<1> HIDE DEF size, less
<1>5. /\ Dist(size, block.front, block.localTail) <= Dist(size, block.front, block.tail)
      /\ Dist(size, block.front, block.tail) <= Dist(size, block.localFront, block.tail)
  BY DEF WellFormed, size
<1>6. /\ Dist(size, block.front, block.tail) \in 0..(size - 1)
      /\ Dist(size, block.localFront, block.tail) \in 0..(size - 1)
      /\ Dist(size, block.front, block.localTail) \in 0..(size - 1)
      /\ Dist(size, block.front, block.localTail) # 0
  BY <1>1, <1>2 DEF Measured
<1>7. block.front # block.tail
  <2>1. Dist(size, block.front, block.tail) # 0
    BY <1>1, <1>5, <1>6 DEF Sizes
  <2>2. \A i \in 0..(size - 1) : Dist(size, i, i) = 0
    BY <1>2 DEF Measured
  <2> QED
    BY <1>1, <2>1, <2>2
<1>8. /\ Dist(size, Follow(size, block.front), block.tail) = Dist(size, block.front, block.tail) - 1
      /\ Dist(size, Follow(size, block.front), block.localTail) = Dist(size, block.front, block.localTail) - 1
  <2>1. \A i, j \in 0..(size - 1) : i # j => Dist(size, Follow(size, i), j) = Dist(size, i, j) - 1
    BY <1>2 DEF Measured
  <2> QED
    BY <1>1, <1>7, <2>1
<1> QED
  BY <1>1, <1>3, <1>4, <1>5, <1>6, <1>7, <1>8 DEF WellFormed, Vacant, less, size

(* The other thread's index is copied; an element is written; a block is   *)
(* linked.                                                                 *)
LEMMA Refreshed ==
  ASSUME NEW block, WellFormed(block)
  PROVE  /\ WellFormed([block EXCEPT !.localFront = block.front])
         /\ WellFormed([block EXCEPT !.localTail = block.tail])
         /\ \A b \in Nat : WellFormed([block EXCEPT !.next = b])
<1> DEFINE size == Size(block)
<1>1. /\ block \in Block /\ size \in Sizes
      /\ block.front \in 0..(size - 1) /\ block.tail \in 0..(size - 1)
      /\ block.localTail \in 0..(size - 1) /\ block.localFront \in 0..(size - 1)
      /\ Dist(size, block.front, block.localTail) <= Dist(size, block.front, block.tail)
      /\ Dist(size, block.front, block.tail) <= Dist(size, block.localFront, block.tail)
  BY BlockSize DEF WellFormed
<1>2. Measured(size)
  BY <1>1, Distances
<1> HIDE DEF size
<1>3. Dist(size, block.front, block.tail) \in Int
  <2>1. Dist(size, block.front, block.tail) \in 0..(size - 1)
    BY <1>1, <1>2 DEF Measured
  <2> QED
    BY <2>1
<1>4. WellFormed([block EXCEPT !.localFront = block.front])
  <2> DEFINE copy == [block EXCEPT !.localFront = block.front]
  <2>1. /\ copy \in Block /\ Size(copy) = size /\ copy.localFront = block.front
        /\ copy.front = block.front /\ copy.tail = block.tail
        /\ copy.localTail = block.localTail
    BY <1>1 DEF Block, Size, size
  <2> HIDE DEF copy
  <2> QED
    BY <1>1, <1>3, <2>1 DEF WellFormed, copy
<1>5. WellFormed([block EXCEPT !.localTail = block.tail])
  <2> DEFINE copy == [block EXCEPT !.localTail = block.tail]
  <2>1. /\ copy \in Block /\ Size(copy) = size /\ copy.localTail = block.tail
        /\ copy.front = block.front /\ copy.tail = block.tail
        /\ copy.localFront = block.localFront
    BY <1>1 DEF Block, Size, size
  <2> HIDE DEF copy
  <2> QED
    BY <1>1, <1>3, <2>1 DEF WellFormed, copy
<1>6. ASSUME NEW b \in Nat
      PROVE  WellFormed([block EXCEPT !.next = b])
  BY <1>1 DEF Block, Size, WellFormed, size
<1> QED
  BY <1>4, <1>5, <1>6

LEMMA Written ==
  ASSUME NEW block, WellFormed(block), NEW i \in 0..(Size(block) - 1), NEW v \in Values
  PROVE  WellFormed([block EXCEPT !.data[i] = v])
<1> DEFINE new == [block EXCEPT !.data[i] = v]
<1>1. /\ block \in Block /\ Size(block) \in Sizes
      /\ block.data \in [0..(Size(block) - 1) -> Values]
  BY BlockSize DEF WellFormed
<1>2. [block.data EXCEPT ![i] = v] \in [0..(Size(block) - 1) -> Values]
  BY <1>1
<1>3. /\ new.data = [block.data EXCEPT ![i] = v]
      /\ new.front = block.front /\ new.tail = block.tail
      /\ new.localTail = block.localTail /\ new.localFront = block.localFront
      /\ new \in Block
  BY <1>1, <1>2 DEF Block
<1>4. Size(new) = Size(block)
  BY <1>1, <1>3 DEF Size
<1> HIDE DEF new
<1> QED
  BY <1>3, <1>4 DEF WellFormed, new

(* A block that is made is empty, or holds the element it is made for.     *)
LEMMA Made ==
  ASSUME NEW size \in Sizes, NEW next \in Nat
  PROVE  /\ WellFormed(make_block(size, next)) /\ Vacant(make_block(size, next))
         /\ make_block(size, next).next = next
         /\ Size(make_block(size, next)) = size
<1> DEFINE new == make_block(size, next)
<1>1. new.data \in [0..(size - 1) -> Values]
  BY DEF make_block, Values
<1>2. Size(new) = size
  BY <1>1, SizeOf DEF Size
<1>3. new \in Block
  BY <1>1 DEF make_block, Block
<1>4. /\ new.front = 0 /\ new.tail = 0 /\ new.localTail = 0 /\ new.localFront = 0
      /\ new.next = next
  BY DEF make_block
<1>5. 0 \in 0..(size - 1)
  BY DEF Sizes
<1> HIDE DEF new
<1>6. Dist(size, 0, 0) = 0
  BY DEF Dist
<1> QED
  BY <1>2, <1>3, <1>4, <1>5, <1>6 DEF WellFormed, Vacant, new

----------------------------------------------------------------------------
(* The ring.  L are the blocks, nx[b] comes after b, and those of A lie    *)
(* between the front f and the tail t, both included.                      *)
Ring(L, nx, A, f, t) ==
  /\ nx \in [L -> L]
  /\ \A a, b \in L : nx[a] = nx[b] => a = b
  /\ A \subseteq L /\ f \in A /\ t \in A
  /\ \A b \in A \ {t} : nx[b] \in A \ {f}
  /\ \A b \in (L \ A) \cup {t} : nx[b] \notin A \/ nx[b] = f

(* The front moves on, and leaves its block behind. *)
LEMMA FrontMoves ==
  ASSUME NEW L, NEW nx, NEW A, NEW f, NEW t, Ring(L, nx, A, f, t), f # t
  PROVE  Ring(L, nx, A \ {f}, nx[f], t)
<1>1. nx[f] \in A \ {f}
  BY DEF Ring
<1>2. ASSUME NEW b \in (A \ {f}) \ {t}
      PROVE  nx[b] \in (A \ {f}) \ {nx[f]}
  BY <1>2 DEF Ring
<1>3. ASSUME NEW b \in (L \ (A \ {f})) \cup {t}
      PROVE  nx[b] \notin A \ {f} \/ nx[b] = nx[f]
  BY <1>3 DEF Ring
<1> QED
  BY <1>1, <1>2, <1>3 DEF Ring

(* The tail moves on to a block that is free. *)
LEMMA TailMoves ==
  ASSUME NEW L, NEW nx, NEW A, NEW f, NEW t, Ring(L, nx, A, f, t), nx[t] # f
  PROVE  /\ nx[t] \notin A /\ Ring(L, nx, A \cup {nx[t]}, f, nx[t])
<1>1. nx[t] \in L \ A
  BY DEF Ring
<1>2. ASSUME NEW b \in (A \cup {nx[t]}) \ {nx[t]}
      PROVE  nx[b] \in (A \cup {nx[t]}) \ {f}
  BY <1>1, <1>2 DEF Ring
<1>3. ASSUME NEW b \in (L \ (A \cup {nx[t]})) \cup {nx[t]}
      PROVE  nx[b] \notin A \cup {nx[t]} \/ nx[b] = f
  BY <1>1, <1>3 DEF Ring
<1> QED
  BY <1>1, <1>2, <1>3 DEF Ring

(* A new block is linked after the tail. *)
LEMMA RingGrows ==
  ASSUME NEW L, NEW nx, NEW A, NEW f, NEW t, Ring(L, nx, A, f, t), NEW new, new \notin L
  PROVE  Ring(L \cup {new},
              [b \in L \cup {new} |-> IF b = new THEN nx[t] ELSE IF b = t THEN new ELSE nx[b]],
              A, f, t)
<1> DEFINE M == L \cup {new}
           mx == [b \in M |-> IF b = new THEN nx[t] ELSE IF b = t THEN new ELSE nx[b]]
<1>1. t \in L /\ A \subseteq L /\ nx \in [L -> L]
  BY DEF Ring
<1>2. mx \in [M -> M]
  BY <1>1
<1>3. ASSUME NEW a \in M, NEW b \in M, mx[a] = mx[b]
      PROVE  a = b
  BY <1>1, <1>3 DEF Ring
<1>4. ASSUME NEW b \in A \ {t}
      PROVE  mx[b] \in A \ {f}
  BY <1>1, <1>4 DEF Ring
<1>5. ASSUME NEW b \in (M \ A) \cup {t}
      PROVE  mx[b] \notin A \/ mx[b] = f
  BY <1>1, <1>5 DEF Ring
<1> HIDE DEF mx
<1>6. Ring(M, mx, A, f, t)
  BY <1>1, <1>2, <1>3, <1>4, <1>5 DEF Ring
<1> QED
  BY <1>6 DEF mx

----------------------------------------------------------------------------
(* The invariant. *)

(* A block that is made is linked a step later; one that is filled beside  *)
(* the tail block becomes the tail block a step later.                     *)
Linked == IF ppc = "link" THEN 1..(Len(blocks) - 1) ELSE 1..Len(blocks)
Links == [b \in Linked |-> blocks[b].next]
Pending == IF ppc = "advance" THEN {Owns.next} ELSE {}
Active == ({frontBlock} \cup {b \in Linked : ~Vacant(blocks[b])}) \ Pending

Shape ==
  /\ queue \in Queues /\ largestBlockSize \in Sizes /\ element \in 0..MaxElements
  /\ blocks \in Seq(Block) /\ \A b \in Blocks : WellFormed(blocks[b])

InRing == Ring(Linked, Links, Active, frontBlock, tailBlock)

ProducerSees ==
  /\ ppc \in {"store", "publish"} => Follow(Size(Owns), Owns.tail) # Owns.localFront
  /\ ppc \in {"loadNext", "storeNext", "publishNext", "advance"} => Owns.next # frontBlock
  /\ ppc \in {"storeNext", "publishNext"} =>
       blocks[Owns.next].localFront = blocks[Owns.next].front
  /\ ppc = "advance" => ~Vacant(blocks[Owns.next])
  /\ ppc = "link" => /\ blocks[Len(blocks)].next = Owns.next
                     /\ ~Vacant(blocks[Len(blocks)])

ConsumerSees ==
  /\ cpc \in {"again", "next", "loadNextTail", "advance"} => frontBlock # tailBlock
  /\ cpc \in {"next", "loadNextTail", "advance"} => Vacant(blocks[frontBlock])
  /\ cpc \in {"loadNextTail", "advance"} => nextBlock = blocks[frontBlock].next
  /\ cpc = "advance" => blocks[nextBlock].front # blocks[nextBlock].localTail
  /\ cpc \in {"take", "release"} => blocks[frontBlock].front # blocks[frontBlock].localTail

Inv == Shape /\ InRing /\ ProducerSees /\ ConsumerSees

(* What the ring says of the two ends. *)
LEMMA Ends ==
  ASSUME Inv
  PROVE  /\ Blocks = 1..Len(blocks) /\ Len(blocks) \in Nat /\ Linked \subseteq Blocks
         /\ frontBlock \in Linked /\ tailBlock \in Linked /\ Owns.next \in Linked
         /\ WellFormed(Owns) /\ WellFormed(blocks[frontBlock])
         /\ \A b \in Linked : blocks[b].next \in Linked
         /\ \A a, b \in Linked : blocks[a].next = blocks[b].next => a = b
         /\ frontBlock # tailBlock =>
              /\ blocks[frontBlock].next # frontBlock
              /\ ~Vacant(blocks[blocks[frontBlock].next])
              /\ ~Vacant(Owns)
         /\ Owns.next # frontBlock /\ ppc # "advance" =>
              /\ Owns.next # tailBlock
              /\ Vacant(blocks[Owns.next])
<1>1. Blocks = 1..Len(blocks) /\ Len(blocks) \in Nat /\ Linked \subseteq Blocks
  BY DEF Inv, Shape, Linked, Blocks
<1>2. /\ \A b \in Linked : Links[b] = blocks[b].next
      /\ Links \in [Linked -> Linked]
      /\ frontBlock \in Active /\ tailBlock \in Active /\ Active \subseteq Linked
  BY DEF Inv, InRing, Ring, Links
<1>3. /\ \A b \in Linked : blocks[b].next \in Linked
      /\ \A a, b \in Linked : blocks[a].next = blocks[b].next => a = b
  BY <1>2 DEF Inv, InRing, Ring
<1>4. WellFormed(Owns) /\ WellFormed(blocks[frontBlock])
  BY <1>1, <1>2 DEF Inv, Shape, Owns
<1>5. ASSUME frontBlock # tailBlock
      PROVE  /\ blocks[frontBlock].next \in Active \ {frontBlock}
             /\ tailBlock \in Active \ {frontBlock}
  BY <1>2, <1>5 DEF Inv, InRing, Ring
<1>6. \A b \in Active \ {frontBlock} : ~Vacant(blocks[b])
  BY DEF Active
<1>7. ASSUME Owns.next # frontBlock, ppc # "advance"
      PROVE  Owns.next # tailBlock /\ Vacant(blocks[Owns.next])
  <2>1. Owns.next \in Linked \ Active
    BY <1>2, <1>3, <1>7 DEF Inv, InRing, Ring, Owns
  <2> QED
    BY <1>2, <1>7, <2>1 DEF Active, Pending
<1> QED
  BY <1>1, <1>2, <1>3, <1>4, <1>5, <1>6, <1>7 DEF Owns

----------------------------------------------------------------------------
(* One block is altered. *)
Altered(t, block) ==
  /\ blocks' = [blocks EXCEPT ![t] = block]
  /\ UNCHANGED <<queue, largestBlockSize>>

LEMMA Alteration ==
  ASSUME Inv, NEW t \in Blocks, NEW block, WellFormed(block), Altered(t, block),
         element' \in 0..MaxElements
  PROVE  /\ Shape' /\ Len(blocks') = Len(blocks) /\ Blocks' = Blocks
         /\ blocks'[t] = block /\ \A b \in Blocks : b # t => blocks'[b] = blocks[b]
<1>1. blocks \in Seq(Block) /\ block \in Block /\ t \in 1..Len(blocks)
  BY DEF Inv, Shape, WellFormed, Blocks
<1>2. /\ blocks' \in Seq(Block) /\ Len(blocks') = Len(blocks)
      /\ DOMAIN blocks' = 1..Len(blocks) /\ DOMAIN blocks = 1..Len(blocks)
      /\ blocks'[t] = block /\ \A b \in 1..Len(blocks) : b # t => blocks'[b] = blocks[b]
  BY <1>1 DEF Altered
<1>3. Blocks = 1..Len(blocks) /\ Blocks' = 1..Len(blocks)
  BY <1>2 DEF Blocks
<1>4. \A b \in 1..Len(blocks) : WellFormed(blocks[b])
  BY <1>3 DEF Inv, Shape
<1>5. \A b \in 1..Len(blocks) : WellFormed(blocks'[b])
  BY <1>2, <1>4
<1>6. Shape'
  BY <1>2, <1>3, <1>5 DEF Altered, Shape, Inv
<1> QED
  BY <1>2, <1>3, <1>6

(* The ring is the same when no block is linked, emptied or filled. *)
LEMMA RingStays ==
  ASSUME Inv, UNCHANGED <<frontBlock, tailBlock>>, Linked' = Linked,
         \A b \in Linked : blocks'[b].next = blocks[b].next,
         Pending' = Pending,
         \A b \in Linked : \/ b \in {frontBlock} \cup Pending
                           \/ Vacant(blocks'[b]) <=> Vacant(blocks[b])
  PROVE  InRing'
<1>1. Links' = Links
  BY DEF Links
<1>2. Active' = Active
  BY DEF Active
<1> QED
  BY <1>1, <1>2 DEF Inv, InRing

(* The steps of the producer leave the consumer what it has seen. *)
LEMMA ConsumerUndisturbed ==
  ASSUME Inv, UNCHANGED <<frontBlock, cpc, nextBlock>>,
         \A b \in Linked : /\ blocks'[b].front = blocks[b].front
                           /\ blocks'[b].localTail = blocks[b].localTail,
         frontBlock # tailBlock =>
           /\ blocks'[frontBlock].tail = blocks[frontBlock].tail
           /\ blocks'[frontBlock].next = blocks[frontBlock].next
           /\ frontBlock # tailBlock'
  PROVE  ConsumerSees'
<1>1. frontBlock \in Linked /\ (cpc = "advance" => nextBlock \in Linked)
  BY Ends DEF Inv, ConsumerSees
<1>2. frontBlock' = frontBlock /\ cpc' = cpc /\ nextBlock' = nextBlock
  OBVIOUS
<1>3. ConsumerSees
  BY DEF Inv
<1>4. cpc \in {"again", "next", "loadNextTail", "advance"} => frontBlock # tailBlock'
  BY <1>3 DEF ConsumerSees
<1>5. cpc \in {"next", "loadNextTail", "advance"} => Vacant(blocks'[frontBlock])
  BY <1>1, <1>3 DEF ConsumerSees, Vacant
<1>6. cpc \in {"loadNextTail", "advance"} => nextBlock = blocks'[frontBlock].next
  BY <1>3 DEF ConsumerSees
<1>7. cpc = "advance" => blocks'[nextBlock].front # blocks'[nextBlock].localTail
  BY <1>1, <1>3 DEF ConsumerSees
<1>8. cpc \in {"take", "release"} => blocks'[frontBlock].front # blocks'[frontBlock].localTail
  BY <1>1, <1>3 DEF ConsumerSees
<1> QED
  BY <1>2, <1>4, <1>5, <1>6, <1>7, <1>8 DEF ConsumerSees

(* The steps of the consumer leave the producer what it has seen. *)
LEMMA ProducerUndisturbed ==
  ASSUME Inv, UNCHANGED <<tailBlock, ppc>>, Len(blocks') = Len(blocks),
         \A b \in Blocks : /\ blocks'[b].tail = blocks[b].tail
                           /\ blocks'[b].localFront = blocks[b].localFront
                           /\ blocks'[b].next = blocks[b].next
                           /\ Size(blocks'[b]) = Size(blocks[b])
                           /\ b # frontBlock => blocks'[b].front = blocks[b].front,
         \/ frontBlock' = frontBlock
         \/ frontBlock # tailBlock /\ frontBlock' = blocks[frontBlock].next
  PROVE  ProducerSees'
<1>1. /\ tailBlock \in Blocks /\ Owns.next \in Blocks /\ frontBlock \in Linked
      /\ tailBlock \in Linked /\ Len(blocks) \in Nat
      /\ Len(blocks) \in Blocks
      /\ \A a, b \in Linked : blocks[a].next = blocks[b].next => a = b
  BY Ends
<1>2. ProducerSees /\ tailBlock' = tailBlock /\ ppc' = ppc
  BY DEF Inv
<1>3. /\ Owns'.tail = Owns.tail /\ Owns'.localFront = Owns.localFront
      /\ Owns'.next = Owns.next /\ Size(Owns') = Size(Owns)
  BY <1>1, <1>2 DEF Owns
<1>4. Owns.next # frontBlock =>
        /\ Owns.next # frontBlock'
        /\ blocks'[Owns.next].front = blocks[Owns.next].front
        /\ blocks'[Owns.next].tail = blocks[Owns.next].tail
        /\ blocks'[Owns.next].localFront = blocks[Owns.next].localFront
  BY <1>1 DEF Owns
<1>5. ppc = "link" => /\ blocks'[Len(blocks)].next = blocks[Len(blocks)].next
                      /\ blocks'[Len(blocks)].front = blocks[Len(blocks)].front
                      /\ blocks'[Len(blocks)].tail = blocks[Len(blocks)].tail
  BY <1>1 DEF Linked
<1>6. ppc \in {"store", "publish"} => Follow(Size(Owns'), Owns'.tail) # Owns'.localFront
  BY <1>2, <1>3 DEF ProducerSees
<1>7. ppc \in {"loadNext", "storeNext", "publishNext", "advance"} => Owns'.next # frontBlock'
  BY <1>2, <1>3, <1>4 DEF ProducerSees
<1>8. ppc \in {"storeNext", "publishNext"} =>
        blocks'[Owns'.next].localFront = blocks'[Owns'.next].front
  BY <1>2, <1>3, <1>4 DEF ProducerSees
<1>9. ppc = "advance" => ~Vacant(blocks'[Owns'.next])
  BY <1>2, <1>3, <1>4 DEF ProducerSees, Vacant
<1>10. ppc = "link" => /\ blocks'[Len(blocks)].next = Owns'.next
                       /\ ~Vacant(blocks'[Len(blocks)])
  BY <1>2, <1>3, <1>5 DEF ProducerSees, Vacant
<1> QED
  BY <1>2, <1>6, <1>7, <1>8, <1>9, <1>10 DEF ProducerSees

----------------------------------------------------------------------------
(* The producer. *)

LEMMA TailFollows ==
  ASSUME Inv
  PROVE  /\ NextTail = Follow(Size(Owns), Owns.tail)
         /\ \A b \in Blocks : \A i : After(b, i) = Follow(Size(blocks[b]), i)
         /\ \A b \in Blocks : /\ Size(blocks[b]) \in Sizes
                              /\ blocks[b].tail \in 0..(Size(blocks[b]) - 1)
                              /\ blocks[b].front \in 0..(Size(blocks[b]) - 1)
<1>1. \A b \in Blocks : WellFormed(blocks[b])
  BY DEF Inv, Shape
<1>2. \A b \in Blocks : /\ Size(blocks[b]) \in Sizes
                        /\ blocks[b].tail \in 0..(Size(blocks[b]) - 1)
                        /\ blocks[b].front \in 0..(Size(blocks[b]) - 1)
  BY <1>1, BlockSize DEF WellFormed
<1>3. \A b \in Blocks : \A i : After(b, i) = Follow(Size(blocks[b]), i)
  BY DEF After, Follow, Size
<1>4. NextTail = Follow(Size(Owns), Owns.tail)
  BY DEF NextTail, After, Follow, Size, Owns
<1> QED
  BY <1>2, <1>3, <1>4

LEMMA EnqueueKeeps == Inv /\ Enqueue => Inv'
<1> SUFFICES ASSUME Inv, Enqueue PROVE Inv'
  OBVIOUS
<1>1. /\ UNCHANGED <<blocks, frontBlock, tailBlock, largestBlockSize, queue, cpc, nextBlock>>
      /\ ppc = "idle" /\ ppc' = IF NextTail # Owns.localFront THEN "store" ELSE "loadFront"
      /\ element' = element + 1 /\ element < MaxElements
  BY DEF Enqueue, consumer
<1>2. Linked' = Linked /\ Pending' = Pending
  BY <1>1 DEF Linked, Pending
<1>3. Shape'
  BY <1>1, ElementsAssumption DEF Inv, Shape, Blocks
<1>4. InRing'
  BY <1>1, <1>2, RingStays
<1>5. ProducerSees'
  BY <1>1, TailFollows DEF ProducerSees, Owns
<1>6. ConsumerSees'
  BY <1>1, Ends, ConsumerUndisturbed
<1> QED
  BY <1>3, <1>4, <1>5, <1>6 DEF Inv

(* A step that writes an element, or the copy of a front. *)
LEMMA ProducerNotes ==
  ASSUME Inv, NEW t \in Blocks, NEW new, WellFormed(new), Altered(t, new),
         UNCHANGED <<frontBlock, tailBlock, cpc, nextBlock, element>>,
         new.front = blocks[t].front, new.tail = blocks[t].tail, new.next = blocks[t].next,
         new.localTail = blocks[t].localTail,
         {ppc, ppc'} \cap {"advance", "link"} = {}
  PROVE  /\ Shape' /\ InRing' /\ ConsumerSees'
         /\ blocks'[t] = new /\ \A b \in Blocks : b # t => blocks'[b] = blocks[b]
<1>1. /\ Shape' /\ Len(blocks') = Len(blocks) /\ Blocks' = Blocks
      /\ blocks'[t] = new /\ \A b \in Blocks : b # t => blocks'[b] = blocks[b]
  BY Alteration DEF Inv, Shape
<1>2. \A b \in Blocks : /\ blocks'[b].front = blocks[b].front /\ blocks'[b].tail = blocks[b].tail
                        /\ blocks'[b].localTail = blocks[b].localTail
                        /\ blocks'[b].next = blocks[b].next
  BY <1>1
<1>3. Linked' = Linked /\ Pending' = Pending /\ Linked \subseteq Blocks /\ frontBlock \in Linked
  BY <1>1, Ends DEF Linked, Pending
<1>4. InRing'
  BY <1>2, <1>3, RingStays DEF Vacant
<1>5. ConsumerSees'
  BY <1>2, <1>3, ConsumerUndisturbed
<1> QED
  BY <1>1, <1>4, <1>5

LEMMA LoadFrontKeeps == Inv /\ LoadFront => Inv'
<1> SUFFICES ASSUME Inv, LoadFront PROVE Inv'
  OBVIOUS
<1> DEFINE new == [Owns EXCEPT !.localFront = Owns.front]
<1>1. /\ UNCHANGED <<frontBlock, tailBlock, cpc, nextBlock, element>>
      /\ Altered(tailBlock, new)
      /\ ppc = "loadFront" /\ ppc' = IF NextTail # Owns.front THEN "store" ELSE "full"
  BY DEF LoadFront, ProducerGoes, consumer, Altered, Owns
<1>2. tailBlock \in Blocks /\ WellFormed(new)
  BY Ends, Refreshed
<1>3. /\ new.front = Owns.front /\ new.tail = Owns.tail
      /\ new.next = Owns.next /\ new.localTail = Owns.localTail
      /\ new.localFront = Owns.front /\ Size(new) = Size(Owns)
  BY <1>2, TailFollows DEF Inv, Shape, WellFormed, Block, Size, Owns
<1> HIDE DEF new
<1>4. /\ Shape' /\ InRing' /\ ConsumerSees'
      /\ blocks'[tailBlock] = new /\ \A b \in Blocks : b # tailBlock => blocks'[b] = blocks[b]
  BY <1>1, <1>2, <1>3, ProducerNotes DEF Owns
<1>5. ProducerSees'
  BY <1>1, <1>3, <1>4, TailFollows DEF ProducerSees, Owns, Inv
<1> QED
  BY <1>4, <1>5 DEF Inv

LEMMA StoreKeeps == Inv /\ Store => Inv'
<1> SUFFICES ASSUME Inv, Store PROVE Inv'
  OBVIOUS
<1> DEFINE new == [Owns EXCEPT !.data[Owns.tail] = element]
<1>1. /\ UNCHANGED <<frontBlock, tailBlock, cpc, nextBlock, element>>
      /\ Altered(tailBlock, new)
      /\ ppc = "store" /\ ppc' = "publish"
  BY DEF Store, ProducerGoes, consumer, Altered, Owns
<1>2. tailBlock \in Blocks /\ WellFormed(new)
  BY Ends, Written, TailFollows DEF Inv, Shape, Values, Owns
<1>3. /\ new.front = Owns.front /\ new.tail = Owns.tail
      /\ new.next = Owns.next /\ new.localTail = Owns.localTail
      /\ new.localFront = Owns.localFront /\ Size(new) = Size(Owns)
  BY <1>2, TailFollows DEF Inv, Shape, WellFormed, Block, Size, Owns
<1> HIDE DEF new
<1>4. /\ Shape' /\ InRing' /\ ConsumerSees'
      /\ blocks'[tailBlock] = new /\ \A b \in Blocks : b # tailBlock => blocks'[b] = blocks[b]
  BY <1>1, <1>2, <1>3, ProducerNotes DEF Owns
<1>5. ProducerSees'
  BY <1>1, <1>3, <1>4, TailFollows DEF ProducerSees, Owns, Inv
<1> QED
  BY <1>4, <1>5 DEF Inv

LEMMA LoadNextKeeps == Inv /\ LoadNext => Inv'
<1> SUFFICES ASSUME Inv, LoadNext PROVE Inv'
  OBVIOUS
<1> DEFINE new == [blocks[Owns.next] EXCEPT !.localFront = blocks[Owns.next].front]
<1>1. /\ UNCHANGED <<frontBlock, tailBlock, cpc, nextBlock, element>>
      /\ Altered(Owns.next, new)
      /\ ppc = "loadNext" /\ ppc' = "storeNext"
  BY DEF LoadNext, ProducerGoes, consumer, Altered, Owns
<1>2. Owns.next \in Blocks /\ WellFormed(new)
  BY Ends, Refreshed DEF Inv, Shape
<1>3. /\ new.front = blocks[Owns.next].front /\ new.tail = blocks[Owns.next].tail
      /\ new.next = blocks[Owns.next].next /\ new.localTail = blocks[Owns.next].localTail
      /\ new.localFront = blocks[Owns.next].front /\ Size(new) = Size(blocks[Owns.next])
  BY <1>2, TailFollows DEF Inv, Shape, WellFormed, Block, Size, Owns
<1> HIDE DEF new
<1>4. /\ Shape' /\ InRing' /\ ConsumerSees'
      /\ blocks'[Owns.next] = new /\ \A b \in Blocks : b # Owns.next => blocks'[b] = blocks[b]
  BY <1>1, <1>2, <1>3, ProducerNotes DEF Owns
<1>5. ProducerSees'
  BY <1>1, <1>3, <1>4, Ends DEF ProducerSees, Owns, Inv
<1> QED
  BY <1>4, <1>5 DEF Inv

LEMMA StoreNextKeeps == Inv /\ StoreNext => Inv'
<1> SUFFICES ASSUME Inv, StoreNext PROVE Inv'
  OBVIOUS
<1> DEFINE new == [blocks[Owns.next] EXCEPT !.data[blocks[Owns.next].tail] = element]
<1>1. /\ UNCHANGED <<frontBlock, tailBlock, cpc, nextBlock, element>>
      /\ Altered(Owns.next, new)
      /\ ppc = "storeNext" /\ ppc' = "publishNext"
  BY DEF StoreNext, ProducerGoes, consumer, Altered, Owns
<1>2. Owns.next \in Blocks /\ WellFormed(new)
  BY Ends, Written, TailFollows DEF Inv, Shape, Values
<1>3. /\ new.front = blocks[Owns.next].front /\ new.tail = blocks[Owns.next].tail
      /\ new.next = blocks[Owns.next].next /\ new.localTail = blocks[Owns.next].localTail
      /\ new.localFront = blocks[Owns.next].localFront /\ Size(new) = Size(blocks[Owns.next])
  BY <1>2, TailFollows DEF Inv, Shape, WellFormed, Block, Size, Owns
<1> HIDE DEF new
<1>4. /\ Shape' /\ InRing' /\ ConsumerSees'
      /\ blocks'[Owns.next] = new /\ \A b \in Blocks : b # Owns.next => blocks'[b] = blocks[b]
  BY <1>1, <1>2, <1>3, ProducerNotes DEF Owns
<1>5. ProducerSees'
  BY <1>1, <1>3, <1>4, Ends DEF ProducerSees, Owns, Inv
<1> QED
  BY <1>4, <1>5 DEF Inv

LEMMA FullKeeps == Inv /\ Full => Inv'
<1> SUFFICES ASSUME Inv, Full PROVE Inv'
  OBVIOUS
<1>1. /\ UNCHANGED <<blocks, frontBlock, tailBlock, largestBlockSize, queue, cpc, nextBlock, element>>
      /\ ppc = "full" /\ ppc' = IF Owns.next # frontBlock THEN "loadNext" ELSE "allocate"
  BY DEF Full, ProducerGoes, consumer
<1>2. Linked' = Linked /\ Pending' = Pending
  BY <1>1 DEF Linked, Pending
<1>3. Shape'
  BY <1>1 DEF Inv, Shape, Blocks
<1>4. InRing'
  BY <1>1, <1>2, RingStays
<1>5. ProducerSees'
  BY <1>1 DEF ProducerSees, Owns
<1>6. ConsumerSees'
  BY <1>1, Ends, ConsumerUndisturbed
<1> QED
  BY <1>3, <1>4, <1>5, <1>6 DEF Inv

LEMMA PublishKeeps == Inv /\ Publish => Inv'
<1> SUFFICES ASSUME Inv, Publish PROVE Inv'
  OBVIOUS
<1> DEFINE new == [Owns EXCEPT !.tail = Follow(Size(Owns), Owns.tail)]
<1>1. /\ UNCHANGED <<frontBlock, tailBlock, cpc, nextBlock, element>>
      /\ Altered(tailBlock, new)
      /\ ppc = "publish" /\ ppc' = "idle"
  BY TailFollows DEF Publish, ProducerGoes, consumer, Altered, Owns
<1>2. tailBlock \in Blocks /\ WellFormed(new) /\ ~Vacant(new)
  BY <1>1, Ends, Published DEF Inv, ProducerSees
<1>3. new.front = Owns.front /\ new.next = Owns.next /\ new.localTail = Owns.localTail
  BY Ends DEF WellFormed, Block
<1> HIDE DEF new
<1>4. /\ Shape' /\ Len(blocks') = Len(blocks) /\ Blocks' = Blocks
      /\ blocks'[tailBlock] = new /\ \A b \in Blocks : b # tailBlock => blocks'[b] = blocks[b]
  BY <1>1, <1>2, Alteration DEF Inv, Shape
<1>5. \A b \in Blocks : /\ blocks'[b].front = blocks[b].front
                        /\ blocks'[b].localTail = blocks[b].localTail
                        /\ blocks'[b].next = blocks[b].next
  BY <1>3, <1>4 DEF Owns
<1>6. Linked' = Linked /\ Pending' = Pending /\ Linked \subseteq Blocks /\ frontBlock \in Linked
  BY <1>1, <1>4, Ends DEF Linked, Pending
<1>7. InRing'
  <2>1. \A b \in Linked : b = frontBlock \/ (Vacant(blocks'[b]) <=> Vacant(blocks[b]))
    BY <1>2, <1>4, <1>6, Ends DEF Owns
  <2> QED
    BY <1>1, <1>5, <1>6, <2>1, RingStays
<1>8. ProducerSees'
  BY <1>1 DEF ProducerSees
<1>9. ConsumerSees'
  BY <1>1, <1>4, <1>5, <1>6, ConsumerUndisturbed
<1> QED
  BY <1>4, <1>7, <1>8, <1>9 DEF Inv

LEMMA PublishNextKeeps == Inv /\ PublishNext => Inv'
<1> SUFFICES ASSUME Inv, PublishNext PROVE Inv'
  OBVIOUS
<1> DEFINE t == Owns.next
           old == blocks[t]
           new == [old EXCEPT !.tail = Follow(Size(old), old.tail)]
<1>1. t \in Blocks /\ t \in Linked /\ tailBlock \in Blocks /\ WellFormed(old)
  BY Ends DEF Inv, Shape
<1>2. /\ UNCHANGED <<frontBlock, tailBlock, cpc, nextBlock, element>>
      /\ Altered(t, new)
      /\ ppc = "publishNext" /\ ppc' = "advance"
  BY <1>1, TailFollows DEF PublishNext, ProducerGoes, consumer, Altered
<1>3. t # frontBlock /\ t # tailBlock /\ Vacant(old) /\ old.localFront = old.front
  BY <1>2, Ends DEF Inv, ProducerSees
<1>4. WellFormed(new) /\ ~Vacant(new)
  <2>1. Follow(Size(old), old.tail) # old.localFront
    BY <1>1, <1>3, TailFollows, Distances DEF Vacant, Measured
  <2> QED
    BY <1>1, <2>1, Published
<1>5. new.front = old.front /\ new.next = old.next /\ new.localTail = old.localTail
  BY <1>1 DEF WellFormed, Block
<1> HIDE DEF new, old, t
<1>6. /\ Shape' /\ Len(blocks') = Len(blocks) /\ Blocks' = Blocks
      /\ blocks'[t] = new /\ \A b \in Blocks : b # t => blocks'[b] = blocks[b]
  BY <1>1, <1>2, <1>4, Alteration DEF Inv, Shape
<1>7. \A b \in Blocks : /\ blocks'[b].front = blocks[b].front
                        /\ blocks'[b].localTail = blocks[b].localTail
                        /\ blocks'[b].next = blocks[b].next
  BY <1>5, <1>6 DEF old
<1>8. /\ Linked' = Linked /\ Linked \subseteq Blocks /\ frontBlock \in Linked
      /\ Owns' = Owns /\ Pending = {} /\ Pending' = {t}
  BY <1>1, <1>2, <1>3, <1>6, Ends DEF Linked, Pending, Owns, t
<1>9. InRing'
  <2>1. Links' = Links
    BY <1>7, <1>8 DEF Links
  <2>2. Active' = Active
    BY <1>1, <1>2, <1>3, <1>6, <1>8 DEF Active, old
  <2> QED
    BY <1>2, <1>8, <2>1, <2>2 DEF Inv, InRing
<1>10. ProducerSees'
  BY <1>2, <1>3, <1>4, <1>6, <1>8 DEF ProducerSees, t
<1>11. ConsumerSees'
  BY <1>2, <1>3, <1>6, <1>7, <1>8, ConsumerUndisturbed
<1> QED
  BY <1>6, <1>9, <1>10, <1>11 DEF Inv

LEMMA AdvanceKeeps == Inv /\ Advance => Inv'
<1> SUFFICES ASSUME Inv, Advance PROVE Inv'
  OBVIOUS
<1>1. /\ UNCHANGED <<blocks, frontBlock, largestBlockSize, queue, cpc, nextBlock, element>>
      /\ tailBlock' = Owns.next /\ ppc = "advance" /\ ppc' = "idle"
  BY DEF Advance, ProducerGoes, consumer
<1>2. /\ Owns.next # frontBlock /\ ~Vacant(blocks[Owns.next])
      /\ Owns.next \in Linked /\ frontBlock \in Linked /\ Linked' = Linked
  BY <1>1, Ends DEF Inv, ProducerSees, Linked
<1>3. Shape'
  BY <1>1 DEF Inv, Shape, Blocks
<1>4. InRing'
  <2>1. Links' = Links /\ Links[tailBlock] = Owns.next
    BY <1>1, <1>2, Ends DEF Links, Owns
  <2>2. Active' = Active \cup {Links[tailBlock]}
    BY <1>1, <1>2, <2>1 DEF Active, Pending
  <2>3. Ring(Linked, Links, Active \cup {Links[tailBlock]}, frontBlock, Links[tailBlock])
    BY <1>2, <2>1, TailMoves DEF Inv, InRing
  <2> QED
    BY <1>1, <1>2, <2>1, <2>2, <2>3 DEF InRing
<1>5. ProducerSees'
  BY <1>1 DEF ProducerSees
<1>6. ConsumerSees'
  BY <1>1, <1>2, ConsumerUndisturbed
<1> QED
  BY <1>3, <1>4, <1>5, <1>6 DEF Inv

LEMMA LinkKeeps == Inv /\ Link => Inv'
<1> SUFFICES ASSUME Inv, Link PROVE Inv'
  OBVIOUS
<1> DEFINE new == [Owns EXCEPT !.next = Len(blocks)]
<1>1. /\ UNCHANGED <<frontBlock, tailBlock, cpc, nextBlock, element>>
      /\ Altered(tailBlock, new)
      /\ ppc = "link" /\ ppc' = "advance"
  BY DEF Link, ProducerGoes, consumer, Altered, Owns
<1>2. /\ tailBlock \in Blocks /\ tailBlock \in Linked /\ frontBlock \in Linked
      /\ WellFormed(Owns) /\ Len(blocks) \in Nat /\ Blocks = 1..Len(blocks)
      /\ WellFormed(new) /\ Linked = 1..(Len(blocks) - 1) /\ Pending = {}
      /\ Owns.next \in Linked
  BY <1>1, Ends, Refreshed DEF Linked, Pending
<1>3. /\ new.front = Owns.front /\ new.tail = Owns.tail /\ new.next = Len(blocks)
      /\ new.localTail = Owns.localTail
  BY <1>2 DEF WellFormed, Block
<1> HIDE DEF new
<1>4. /\ Shape' /\ Len(blocks') = Len(blocks) /\ Blocks' = Blocks
      /\ blocks'[tailBlock] = new /\ \A b \in Blocks : b # tailBlock => blocks'[b] = blocks[b]
  BY <1>1, <1>2, Alteration DEF Inv, Shape
<1>5. \A b \in Blocks : /\ blocks'[b].front = blocks[b].front
                        /\ blocks'[b].tail = blocks[b].tail
                        /\ blocks'[b].localTail = blocks[b].localTail
  BY <1>3, <1>4 DEF Owns
<1>6. PICK made : made = Len(blocks)
  OBVIOUS
<1>7. /\ made \in Blocks /\ made \notin Linked /\ made # tailBlock /\ made # frontBlock
      /\ ~Vacant(blocks[made]) /\ blocks[made].next = Owns.next
      /\ Linked' = Linked \cup {made} /\ Pending' = {made} /\ blocks' [made] = blocks[made]
  <2>1. /\ made \in Blocks /\ made \notin Linked
        /\ Linked' = Linked \cup {made}
    BY <1>1, <1>2, <1>4, <1>6 DEF Linked
  <2>2. ~Vacant(blocks[made]) /\ blocks[made].next = Owns.next
    BY <1>1, <1>6 DEF Inv, ProducerSees
  <2>3. Pending' = {made}
    BY <1>1, <1>3, <1>4, <1>6 DEF Pending, Owns
  <2> QED
    BY <1>2, <1>4, <2>1, <2>2, <2>3
<1>8. InRing'
  <2> DEFINE nx == [b \in Linked \cup {made} |->
                      IF b = made THEN Links[tailBlock] ELSE IF b = tailBlock THEN made ELSE Links[b]]
  <2>1. /\ Links[tailBlock] = Owns.next
        /\ \A b \in Linked : Links[b] = blocks[b].next
        /\ Linked \subseteq Blocks
    BY <1>2, Ends DEF Links, Owns
  <2>2. \A b \in Linked \cup {made} :
          blocks'[b].next = IF b = made THEN Links[tailBlock]
                            ELSE IF b = tailBlock THEN made ELSE Links[b]
    BY <1>2, <1>3, <1>4, <1>6, <1>7, <2>1
  <2>3. Links' = [b \in Linked \cup {made} |-> blocks'[b].next]
    BY <1>7 DEF Links
  <2>4. Links' = nx
    BY <2>2, <2>3
  <2>5. Active' = Active
    <3>1. \A b \in Blocks : Vacant(blocks'[b]) <=> Vacant(blocks[b])
      BY <1>5 DEF Vacant
    <3> QED
      BY <1>1, <1>2, <1>7, <2>1, <3>1 DEF Active
  <2>6. Ring(Linked \cup {made}, nx, Active, frontBlock, tailBlock)
    BY <1>7, RingGrows DEF Inv, InRing
  <2> QED
    BY <1>1, <1>7, <2>4, <2>5, <2>6 DEF InRing
<1>9. ProducerSees'
  <2>1. Owns'.next = made
    BY <1>1, <1>3, <1>4, <1>6 DEF Owns
  <2> QED
    BY <1>1, <1>7, <2>1 DEF ProducerSees, Vacant
<1>10. ConsumerSees'
  <2>1. Linked \subseteq Blocks
    BY Ends
  <2> QED
    BY <1>1, <1>2, <1>4, <1>5, <2>1, ConsumerUndisturbed
<1> QED
  BY <1>4, <1>8, <1>9, <1>10 DEF Inv

LEMMA AllocateKeeps == Inv /\ Allocate => Inv'
<1> SUFFICES ASSUME Inv, Allocate PROVE Inv'
  OBVIOUS
<1>1. /\ UNCHANGED <<frontBlock, tailBlock, cpc, nextBlock, element, queue>>
      /\ ppc = "allocate"
  BY DEF Allocate, ProducerGoes, consumer
<1>2. CASE ppc' = "idle"
  <2>1. UNCHANGED <<blocks, largestBlockSize>>
    BY <1>2 DEF Allocate, ProducerGoes
  <2>2. Linked' = Linked /\ Pending' = Pending
    BY <1>1, <1>2, <2>1 DEF Linked, Pending
  <2>3. Shape'
    BY <1>1, <2>1 DEF Inv, Shape, Blocks
  <2>4. InRing'
    BY <1>1, <2>1, <2>2, RingStays
  <2>5. ProducerSees'
    BY <1>2 DEF ProducerSees
  <2>6. ConsumerSees'
    BY <1>1, <2>1, Ends, ConsumerUndisturbed
  <2> QED
    BY <2>3, <2>4, <2>5, <2>6 DEF Inv
<1>3. CASE ppc' = "link"
  <2> DEFINE size == largestBlockSize'
             plain == make_block(size, Owns.next)
             new == [plain EXCEPT !.data[0] = element, !.tail = 1, !.localTail = 1]
  <2>1. /\ size = (IF largestBlockSize >= MAX_BLOCK_SIZE
                     THEN largestBlockSize ELSE largestBlockSize * 2)
        /\ blocks' = Append(blocks, new)
    BY <1>3 DEF Allocate, ProducerGoes
  <2>2. /\ size \in Sizes /\ Owns.next \in Nat /\ element \in Values
        /\ Owns.next \in Linked
    BY <2>1, Ends DEF Inv, Shape, Sizes, Values
  <2> HIDE DEF size
  <2>3. WellFormed(new) /\ ~Vacant(new) /\ new.next = Owns.next
    <3> DEFINE b1 == [plain EXCEPT !.data[0] = element]
               b2 == [b1 EXCEPT !.tail = Follow(Size(b1), b1.tail)]
               b3 == [b2 EXCEPT !.localTail = b2.tail]
    <3>1. /\ WellFormed(plain) /\ plain.next = Owns.next /\ Size(plain) = size
          /\ plain.tail = 0 /\ plain.localFront = 0 /\ plain.front = 0
      BY <2>2, Made DEF make_block
    <3>2. WellFormed(b1)
      <4>1. 0 \in 0..(Size(plain) - 1)
        BY <2>2, <3>1 DEF Sizes
      <4> HIDE DEF plain
      <4> QED
        BY <2>2, <3>1, <4>1, Written
    <3>3. /\ b1.tail = 0 /\ b1.localFront = 0 /\ b1.front = 0 /\ b1.next = Owns.next
          /\ Size(b1) = size
      BY <3>1 DEF Size, WellFormed, Block
    <3>4. Follow(Size(b1), b1.tail) = 1
      BY <2>2, <3>3, Following DEF Sizes
    <3>5. WellFormed(b2) /\ ~Vacant(b2)
      <4> HIDE DEF b1
      <4>1. Follow(Size(b1), b1.tail) # b1.localFront
        BY <3>3, <3>4
      <4> QED
        BY <3>2, <4>1, Published
    <3>6. WellFormed(b3)
      BY <3>5, Refreshed
    <3>7. new = b3
      BY <3>1, <3>4 DEF make_block
    <3>8. b3.front = b2.front /\ b3.tail = b2.tail /\ b3.next = Owns.next
      BY <3>3, <3>5, <3>2 DEF WellFormed, Block
    <3> HIDE DEF b3, b2, b1, new
    <3> QED
      BY <3>5, <3>6, <3>7, <3>8 DEF Vacant
  <2> HIDE DEF new
  <2>4. /\ Len(blocks') = Len(blocks) + 1 /\ blocks' \in Seq(Block)
        /\ Len(blocks) \in Nat /\ Blocks = 1..Len(blocks) /\ Blocks' = 1..(Len(blocks) + 1)
        /\ blocks'[Len(blocks) + 1] = new
        /\ \A b \in Blocks : blocks'[b] = blocks[b]
    BY <2>1, <2>3 DEF Inv, Shape, WellFormed, Blocks
  <2>5. /\ Linked' = Linked /\ Linked = Blocks /\ Pending' = Pending
        /\ frontBlock \in Linked /\ tailBlock \in Linked /\ Owns' = Owns
    BY <1>1, <1>3, <2>4, Ends DEF Linked, Pending, Owns
  <2>6. Shape'
    <3>1. \A b \in Blocks' : WellFormed(blocks'[b])
      BY <2>3, <2>4 DEF Inv, Shape
    <3>2. /\ queue' \in Queues /\ largestBlockSize' \in Sizes /\ element' \in 0..MaxElements
      BY <1>1, <2>2 DEF Inv, Shape, size
    <3> QED
      BY <2>4, <3>1, <3>2 DEF Shape
  <2>7. InRing'
    BY <1>1, <2>4, <2>5, RingStays
  <2>8. ProducerSees'
    BY <1>3, <2>3, <2>4, <2>5 DEF ProducerSees
  <2>9. ConsumerSees'
    BY <1>1, <2>4, <2>5, ConsumerUndisturbed
  <2> QED
    BY <2>6, <2>7, <2>8, <2>9 DEF Inv
<1> QED
  BY <1>2, <1>3 DEF Allocate, ProducerGoes

----------------------------------------------------------------------------
(* The consumer. *)

(* A step that changes nothing but the consumer's locals. *)
LEMMA ConsumerLooks ==
  ASSUME Inv, UNCHANGED <<blocks, frontBlock>>, ConsumerOnly
  PROVE  Shape' /\ InRing' /\ ProducerSees'
<1>1. UNCHANGED <<blocks, frontBlock, tailBlock, largestBlockSize, ppc, element, queue>>
  BY DEF ConsumerOnly, producer
<1>2. Linked' = Linked /\ Pending' = Pending
  BY <1>1 DEF Linked, Pending, Owns
<1>3. Shape'
  BY <1>1 DEF Inv, Shape, Blocks
<1>4. InRing'
  BY <1>1, <1>2, RingStays
<1>5. ProducerSees'
  BY <1>1, ProducerUndisturbed
<1> QED
  BY <1>3, <1>4, <1>5

(* A step that copies the tail of a block. *)
LEMMA ConsumerNotes ==
  ASSUME Inv, NEW t \in Blocks, UNCHANGED frontBlock, ConsumerOnly,
         blocks' = [blocks EXCEPT ![t].localTail = blocks[t].tail]
  PROVE  /\ Shape' /\ InRing' /\ ProducerSees'
         /\ blocks'[t].localTail = blocks[t].tail
         /\ \A b \in Blocks : /\ blocks'[b].front = blocks[b].front
                              /\ blocks'[b].tail = blocks[b].tail
                              /\ blocks'[b].next = blocks[b].next
<1> DEFINE new == [blocks[t] EXCEPT !.localTail = blocks[t].tail]
<1>1. UNCHANGED <<frontBlock, tailBlock, largestBlockSize, ppc, element, queue>>
  BY DEF ConsumerOnly, producer
<1>2. WellFormed(blocks[t]) /\ WellFormed(new) /\ Altered(t, new)
  BY <1>1, Refreshed DEF Inv, Shape, Altered
<1>3. /\ new.front = blocks[t].front /\ new.tail = blocks[t].tail
      /\ new.next = blocks[t].next /\ new.localTail = blocks[t].tail
      /\ new.localFront = blocks[t].localFront /\ Size(new) = Size(blocks[t])
  BY <1>2 DEF WellFormed, Block, Size
<1> HIDE DEF new
<1>4. /\ Shape' /\ Len(blocks') = Len(blocks) /\ Blocks' = Blocks
      /\ blocks'[t] = new /\ \A b \in Blocks : b # t => blocks'[b] = blocks[b]
  BY <1>1, <1>2, Alteration DEF Inv, Shape
<1>5. \A b \in Blocks : /\ blocks'[b].front = blocks[b].front
                        /\ blocks'[b].tail = blocks[b].tail
                        /\ blocks'[b].next = blocks[b].next
                        /\ blocks'[b].localFront = blocks[b].localFront
                        /\ Size(blocks'[b]) = Size(blocks[b])
  BY <1>3, <1>4
<1>6. Linked' = Linked /\ Linked \subseteq Blocks /\ Pending' = Pending
  <2>1. Linked \subseteq Blocks /\ tailBlock \in Blocks
    BY Ends
  <2>2. Linked' = Linked
    BY <1>1, <1>4 DEF Linked
  <2>3. Owns'.next = Owns.next
    BY <1>1, <1>5, <2>1 DEF Owns
  <2> QED
    BY <1>1, <2>1, <2>2, <2>3 DEF Pending
<1>7. InRing'
  BY <1>1, <1>5, <1>6, RingStays DEF Vacant
<1>8. ProducerSees'
  BY <1>1, <1>4, <1>5, ProducerUndisturbed
<1> QED
  BY <1>3, <1>4, <1>5, <1>7, <1>8

LEMMA CallKeeps == Inv /\ Call => Inv'
BY ConsumerLooks DEF Call, ConsumerSees, Inv

LEMMA TakeKeeps == Inv /\ Take => Inv'
BY ConsumerLooks DEF Take, ConsumerSees, Inv

LEMMA LookKeeps == Inv /\ Look => Inv'
BY ConsumerLooks DEF Look, Found, NotYet, ConsumerSees, Inv

LEMMA LoadTailBlockKeeps == Inv /\ LoadTailBlock => Inv'
<1> SUFFICES ASSUME Inv, LoadTailBlock PROVE Inv'
  OBVIOUS
<1>1. Shape' /\ InRing' /\ ProducerSees'
  BY ConsumerLooks DEF LoadTailBlock
<1>2. ConsumerSees'
  BY DEF LoadTailBlock, NotYet, ConsumerSees, ConsumerOnly
<1> QED
  BY <1>1, <1>2 DEF Inv

LEMMA LoadNextBlockKeeps == Inv /\ LoadNextBlock => Inv'
<1> SUFFICES ASSUME Inv, LoadNextBlock PROVE Inv'
  OBVIOUS
<1>1. Shape' /\ InRing' /\ ProducerSees'
  BY ConsumerLooks DEF LoadNextBlock
<1>2. ConsumerSees'
  BY DEF Inv, LoadNextBlock, NotYet, ConsumerSees, ConsumerOnly
<1> QED
  BY <1>1, <1>2 DEF Inv

(* An index read anew: it tells whether there is something in the block.   *)
LEMMA ReadTailKeeps ==
  ASSUME Inv, cpc \in {"loadTail", "again"}, NEW there, ReadTail(there),
         there = IF cpc = "loadTail" THEN "tailBlock" ELSE "next"
  PROVE  Inv'
<1>1. /\ blocks' = [blocks EXCEPT ![frontBlock].localTail = blocks[frontBlock].tail]
      /\ UNCHANGED frontBlock /\ ConsumerOnly /\ tailBlock' = tailBlock
  BY DEF ReadTail, ConsumerOnly
<1>2. frontBlock \in Blocks
  BY Ends
<1>3. /\ Shape' /\ InRing' /\ ProducerSees'
      /\ blocks'[frontBlock].localTail = blocks[frontBlock].tail
      /\ blocks'[frontBlock].front = blocks[frontBlock].front
      /\ blocks'[frontBlock].tail = blocks[frontBlock].tail
  BY <1>1, <1>2, ConsumerNotes
<1>4. CASE blocks[frontBlock].front # blocks[frontBlock].tail
  <2>1. cpc' \in {"idle", "take"}
    BY <1>4 DEF ReadTail, Found
  <2> QED
    BY <1>1, <1>3, <1>4, <2>1 DEF ConsumerSees, Inv
<1>5. CASE blocks[frontBlock].front = blocks[frontBlock].tail
  <2>1. cpc' = there /\ (cpc = "again" => frontBlock # tailBlock)
    BY <1>5 DEF ReadTail, NotYet, Inv, ConsumerSees
  <2>2. ConsumerSees'
    BY <1>1, <1>3, <1>5, <2>1 DEF ConsumerSees, Vacant
  <2> QED
    BY <1>3, <2>2 DEF Inv
<1> QED
  BY <1>4, <1>5

LEMMA LoadNextTailKeeps == Inv /\ LoadNextTail => Inv'
<1> SUFFICES ASSUME Inv, LoadNextTail PROVE Inv'
  OBVIOUS
<1>1. /\ cpc = "loadNextTail" /\ Found(nextBlock)
      /\ UNCHANGED <<frontBlock, op, nextBlock>> /\ ConsumerOnly /\ tailBlock' = tailBlock
  BY DEF LoadNextTail, ConsumerOnly
<1>2. /\ frontBlock \in Blocks /\ nextBlock \in Blocks /\ nextBlock # frontBlock
      /\ ~Vacant(blocks[nextBlock]) /\ Vacant(blocks[frontBlock])
      /\ nextBlock = blocks[frontBlock].next /\ frontBlock # tailBlock
  BY <1>1, Ends DEF Inv, ConsumerSees
<1>3. CASE op = "peek"
  <2>1. cpc' = "idle" /\ UNCHANGED blocks
    BY <1>1, <1>3 DEF LoadNextTail, Found
  <2> QED
    BY <1>1, <2>1, ConsumerLooks DEF Inv, ConsumerSees
<1>4. CASE op # "peek"
  <2>1. /\ cpc' = "advance"
        /\ blocks' = [blocks EXCEPT ![nextBlock].localTail = blocks[nextBlock].tail]
    BY <1>1, <1>2, <1>4 DEF LoadNextTail, Found
  <2>2. /\ Shape' /\ InRing' /\ ProducerSees'
        /\ blocks'[nextBlock].localTail = blocks[nextBlock].tail
        /\ \A b \in Blocks : /\ blocks'[b].front = blocks[b].front
                             /\ blocks'[b].tail = blocks[b].tail
                             /\ blocks'[b].next = blocks[b].next
    BY <1>1, <1>2, <2>1, ConsumerNotes
  <2>3. ConsumerSees'
    BY <1>1, <1>2, <2>1, <2>2 DEF ConsumerSees, Vacant
  <2> QED
    BY <2>2, <2>3 DEF Inv
<1> QED
  BY <1>3, <1>4

LEMMA AdvanceFrontKeeps == Inv /\ AdvanceFront => Inv'
<1> SUFFICES ASSUME Inv, AdvanceFront PROVE Inv'
  OBVIOUS
<1>1. /\ UNCHANGED <<blocks, tailBlock, largestBlockSize, ppc, element, queue>>
      /\ cpc = "advance" /\ cpc' = "take" /\ frontBlock' = nextBlock
  BY DEF AdvanceFront, ConsumerOnly, producer
<1>2. /\ frontBlock \in Linked /\ frontBlock # tailBlock /\ Vacant(blocks[frontBlock])
      /\ nextBlock = blocks[frontBlock].next /\ nextBlock \in Linked
      /\ blocks[nextBlock].front # blocks[nextBlock].localTail
      /\ ~Vacant(blocks[nextBlock]) /\ nextBlock # frontBlock
  BY <1>1, Ends DEF Inv, ConsumerSees
<1>3. Shape'
  BY <1>1 DEF Inv, Shape, Blocks
<1>4. Linked' = Linked /\ Pending' = Pending
  BY <1>1 DEF Linked, Pending, Owns
<1>5. InRing'
  <2>1. Links' = Links /\ Links[frontBlock] = nextBlock
    BY <1>1, <1>2, <1>4 DEF Links
  <2>2. Active' = Active \ {frontBlock}
    <3>1. nextBlock \notin Pending /\ frontBlock \notin Pending
      <4>1. ppc = "advance" => Owns.next # nextBlock /\ Owns.next # frontBlock
        BY <1>2, Ends DEF Inv, ProducerSees, Owns
      <4> QED
        BY <4>1 DEF Pending
    <3> QED
      BY <1>1, <1>2, <1>4, <3>1 DEF Active
  <2>3. Ring(Linked, Links, Active \ {frontBlock}, Links[frontBlock], tailBlock)
    BY <1>2, FrontMoves DEF Inv, InRing
  <2> QED
    BY <1>1, <1>4, <2>1, <2>2, <2>3 DEF InRing
<1>6. ProducerSees'
  BY <1>1, <1>2, ProducerUndisturbed
<1>7. ConsumerSees'
  BY <1>1, <1>2 DEF ConsumerSees
<1> QED
  BY <1>3, <1>5, <1>6, <1>7 DEF Inv

LEMMA ReleaseKeeps == Inv /\ Release => Inv'
<1> SUFFICES ASSUME Inv, Release PROVE Inv'
  OBVIOUS
<1> DEFINE old == blocks[frontBlock]
           new == [old EXCEPT !.front = Follow(Size(old), old.front)]
<1>1. frontBlock \in Blocks /\ WellFormed(old)
  BY Ends
<1>2. /\ UNCHANGED <<frontBlock, tailBlock, ppc, element>>
      /\ Altered(frontBlock, new) /\ cpc = "release" /\ cpc' = "idle"
  BY <1>1, TailFollows DEF Release, ConsumerOnly, producer, Altered
<1>3. WellFormed(new)
  BY <1>1, <1>2, Released DEF Inv, ConsumerSees
<1>4. /\ new.tail = old.tail /\ new.next = old.next /\ new.localFront = old.localFront
      /\ Size(new) = Size(old)
  BY <1>1 DEF WellFormed, Block, Size
<1> HIDE DEF new, old
<1>5. /\ Shape' /\ Len(blocks') = Len(blocks) /\ Blocks' = Blocks
      /\ blocks'[frontBlock] = new /\ \A b \in Blocks : b # frontBlock => blocks'[b] = blocks[b]
  BY <1>1, <1>2, <1>3, Alteration DEF Inv, Shape
<1>6. \A b \in Blocks : /\ blocks'[b].tail = blocks[b].tail
                        /\ blocks'[b].next = blocks[b].next
                        /\ blocks'[b].localFront = blocks[b].localFront
                        /\ Size(blocks'[b]) = Size(blocks[b])
  BY <1>4, <1>5 DEF old
<1>7. Linked' = Linked /\ Linked \subseteq Blocks /\ Pending' = Pending
  BY <1>2, <1>5, <1>6, Ends DEF Linked, Pending, Owns
<1>8. InRing'
  BY <1>2, <1>5, <1>6, <1>7, RingStays
<1>9. ProducerSees'
  BY <1>2, <1>5, <1>6, ProducerUndisturbed
<1>10. ConsumerSees'
  BY <1>2 DEF ConsumerSees
<1> QED
  BY <1>5, <1>8, <1>9, <1>10 DEF Inv

----------------------------------------------------------------------------
(* The constructor makes one block, or a ring of empty blocks.  All of     *)
(* them but one have room for maxSize elements, each with a slot to spare; *)
(* a block that is alone has that room itself.                             *)

(* The solvers are given what \div means.                                  *)
LEMMA Divides ==
  ASSUME NEW a \in Nat, NEW d \in Nat \ {0}
  PROVE  a \div d \in Nat /\ (a \div d) * d <= a /\ a < (a \div d) * d + d
OBVIOUS

(* The number of blocks, rounded up, with one to spare.                    *)
LEMMA Counted ==
  ASSUME NEW room \in Nat \ {0}, NEW most \in Nat \ {0, 1}
  PROVE  LET count == (room + most * 2 - 3) \div (most - 1)
         IN  count \in Nat /\ count > 1 /\ (count - 1) * (most - 1) >= room
<1>1. PICK asked, each, count : asked = room + most * 2 - 3 /\ each = most - 1 /\ count = asked \div each
  OBVIOUS
<1>2. asked \in Nat /\ each \in Nat \ {0} /\ asked = room + each + each - 1
  BY <1>1
<1>3. count \in Nat /\ count * each <= asked /\ asked < count * each + each
  BY <1>1, <1>2, Divides
<1>4. PICK all : all = (count - 1) * each
  OBVIOUS
<1>5. count * each = all + each /\ all \in Int
  BY <1>2, <1>3, <1>4
<1>6. all >= room
  BY <1>2, <1>3, <1>5
<1>7. count # 0 /\ count # 1
  BY <1>2, <1>4, <1>6
<1> QED
  BY <1>1, <1>3, <1>4, <1>6, <1>7

(* But for the spare block, blocks of this size and number have the room.  *)
Roomy(size, count, room) ==
  \/ count = 1 /\ size > room
  \/ count > 1 /\ (count - 1) * (size - 1) >= room

LEMMA FirstRing ==
  ASSUME Init
  PROVE  \E size \in Sizes, count \in Nat \ {0} :
           /\ blocks = [b \in 1..count |-> make_block(size, (b % count) + 1)]
           /\ Roomy(size, count, maxSize)
<1> DEFINE one == ceilToPow2(maxSize + 1)
           many == one > MAX_BLOCK_SIZE * 2
           size == IF many THEN MAX_BLOCK_SIZE ELSE one
           count == IF many THEN (maxSize + MAX_BLOCK_SIZE * 2 - 3) \div (MAX_BLOCK_SIZE - 1) ELSE 1
<1>1. queue \in Queues /\ blocks = InitialRing
  BY DEF Init
<1>2. maxSize \in Nat \ {0} /\ MAX_BLOCK_SIZE \in Nat \ {0, 1}
  BY <1>1, QueuesAssumption DEF maxSize, MAX_BLOCK_SIZE
<1>3. one \in Sizes /\ one > maxSize
  <2>1. one \in Nat /\ one > maxSize
    BY <1>1, CeilAssumption DEF maxSize
  <2> QED
    BY <1>2, <2>1 DEF Sizes
<1>4. blocks = [b \in 1..count |-> make_block(size, (b % count) + 1)]
  BY <1>1 DEF InitialRing
<1>5. size \in Sizes /\ count \in Nat \ {0} /\ Roomy(size, count, maxSize)
  <2> HIDE DEF one
  <2>1. CASE many
    BY <1>2, <2>1, Counted DEF Sizes, Roomy
  <2>2. CASE ~many
    BY <1>3, <2>2 DEF Roomy
  <2> QED
    BY <2>1, <2>2
<1> QED
  BY <1>4, <1>5

LEMMA InitKeeps == Init => Inv
<1> SUFFICES ASSUME Init PROVE Inv
  OBVIOUS
<1>1. PICK size \in Sizes, count \in Nat \ {0} :
        blocks = [b \in 1..count |-> make_block(size, (b % count) + 1)]
  BY FirstRing
<1> DEFINE after(b) == (b % count) + 1
<1>2. \A b \in 1..count : after(b) = IF b = count THEN 1 ELSE b + 1
  OBVIOUS
<1>3. /\ DOMAIN blocks = 1..count
      /\ \A b \in 1..count : blocks[b] = make_block(size, after(b))
  BY <1>1
<1> HIDE DEF after
<1>4. \A b \in 1..count : after(b) \in 1..count
  BY <1>2
<1>5. \A b \in 1..count : /\ WellFormed(blocks[b]) /\ Vacant(blocks[b])
                          /\ blocks[b].next = after(b) /\ Size(blocks[b]) = size
  BY <1>3, <1>4, Made
<1>6. Shape
  <2>1. blocks \in Seq(Block) /\ Len(blocks) = count
    <3>1. \A b \in 1..count : blocks[b] \in Block
      BY <1>5 DEF WellFormed
    <3> QED
      BY <1>1, <3>1
  <2>2. largestBlockSize = size
    BY <1>5 DEF Init, Size
  <2>3. queue \in Queues /\ element \in 0..MaxElements
    BY ElementsAssumption DEF Init
  <2> QED
    BY <1>3, <1>5, <2>1, <2>2, <2>3 DEF Shape, Blocks
<1>7. ppc = "idle" /\ cpc = "idle" /\ frontBlock = 1 /\ tailBlock = 1
  BY DEF Init
<1>8. InRing
  <2>1. Len(blocks) = count
    BY <1>3, <1>6 DEF Shape
  <2>2. Linked = 1..count /\ Links = [b \in 1..count |-> after(b)] /\ Active = {1}
    BY <1>5, <1>7, <2>1 DEF Linked, Links, Active, Pending
  <2>3. Ring(1..count, [b \in 1..count |-> after(b)], {1}, 1, 1)
    <3> DEFINE nx == [b \in 1..count |-> after(b)]
    <3>1. nx \in [1..count -> 1..count] /\ \A b \in 1..count : nx[b] = after(b)
      BY <1>4
    <3>2. \A a, b \in 1..count : nx[a] = nx[b] => a = b
      BY <1>2, <3>1
    <3> HIDE DEF nx
    <3> QED
      BY <3>1, <3>2 DEF Ring
  <2> QED
    BY <1>7, <2>2, <2>3 DEF InRing
<1> QED
  BY <1>6, <1>7, <1>8 DEF Inv, ProducerSees, ConsumerSees

----------------------------------------------------------------------------
LEMMA NextKeeps == Inv /\ [Next]_vars => Inv'
<1> SUFFICES ASSUME Inv, [Next]_vars PROVE Inv'
  OBVIOUS
<1>1. CASE Producer
  BY <1>1, EnqueueKeeps, LoadFrontKeeps, StoreKeeps, PublishKeeps, FullKeeps, LoadNextKeeps,
     StoreNextKeeps, PublishNextKeeps, AllocateKeeps, LinkKeeps, AdvanceKeeps DEF Producer
<1>2. CASE Consumer
  BY <1>2, CallKeeps, LookKeeps, ReadTailKeeps, LoadTailBlockKeeps, LoadNextBlockKeeps,
     LoadNextTailKeeps, AdvanceFrontKeeps, TakeKeeps, ReleaseKeeps
     DEF Consumer, LoadTail, Again
<1>3. CASE UNCHANGED vars
  <2>1. /\ UNCHANGED <<blocks, frontBlock, tailBlock, largestBlockSize, queue>>
        /\ UNCHANGED <<ppc, element, cpc, nextBlock>>
    BY <1>3 DEF vars, producer, consumer
  <2>2. Shape' /\ InRing' /\ ProducerSees'
    BY <1>3, ConsumerLooks DEF vars, ConsumerOnly
  <2>3. ConsumerSees'
    BY <2>1 DEF Inv, ConsumerSees, Vacant
  <2> QED
    BY <2>2, <2>3 DEF Inv
<1> QED
  BY <1>1, <1>2, <1>3 DEF Next

LEMMA Invariance == Spec => []Inv
BY InitKeeps, NextKeeps, PTL DEF Spec

(* Of Spec: whatever the queue's size and however the steps of the two     *)
(* threads fall, the slot the producer writes an element to is never the   *)
(* one the consumer moves an element out of.                               *)
THEOREM ThreadsKeepApart == Spec => []SlotsApart
<1>1. Inv => SlotsApart
  <2> SUFFICES ASSUME Inv PROVE SlotsApart
    OBVIOUS
  <2>1. CASE ppc = "store"
    <3>1. cpc \in {"take", "release"} /\ tailBlock = frontBlock =>
            Owns.tail # blocks[frontBlock].front
      BY Released, Ends DEF Inv, ConsumerSees, Vacant, Owns
    <3> QED
      BY <2>1, <3>1 DEF SlotsApart
  <2>2. CASE ppc = "storeNext"
    BY <2>2 DEF SlotsApart, Inv, ProducerSees
  <2> QED
    BY <2>1, <2>2 DEF SlotsApart
<1> QED
  BY <1>1, Invariance, PTL

(* What readerwriterqueue.h asserts where a thread goes to another block:  *)
(* the producer is about to fill the block after its tail block, and finds *)
(* it empty (line 459); the consumer finds an element in the block after   *)
(* its front block (lines 252 and 317; pop(), which has the same assertion *)
(* on line 368, is not modelled).                                          *)
AssertionsHold ==
  /\ ppc \in {"loadNext", "storeNext"} => Vacant(blocks[Owns.next])
  /\ ppc = "storeNext" => blocks[Owns.next].localFront = blocks[Owns.next].tail
  /\ cpc = "loadNextTail" => blocks[nextBlock].front # blocks[nextBlock].tail

(* Of Spec: no assertion of what the worker and the game call in           *)
(* readerwriterqueue.h ever fails.                                         *)
THEOREM AssertionsNeverFail == Spec => []AssertionsHold
<1>1. Inv => AssertionsHold
  BY Ends DEF Inv, ProducerSees, ConsumerSees, AssertionsHold, Vacant
<1> QED
  BY <1>1, Invariance, PTL

----------------------------------------------------------------------------
(* Induction.  A set of numbers each of which has the one below in the set *)
(* is empty: no finite part of it could be mapped into a smaller one.      *)
LEMMA NoDescent ==
  ASSUME NEW S \in SUBSET Nat, \A k \in S : k - 1 \in S
  PROVE  S = {}
<1> SUFFICES ASSUME NEW top \in S PROVE FALSE
  OBVIOUS
<1> DEFINE U == {k \in S : k <= top}
           down == [k \in U |-> k - 1]
<1>1. top \in Nat /\ \A k \in S : k \in Nat
  OBVIOUS
<1>2. top \in U /\ \A k \in U : k \in 0..top
  BY <1>1
<1>3. IsFiniteSet(U)
  <2> HIDE DEF U
  <2>1. IsFiniteSet(0..top)
    BY <1>1, FS_Interval
  <2>2. U \in SUBSET (0..top)
    BY <1>2
  <2> QED
    BY <2>1, <2>2, FS_Subset
<1>4. \A k \in U : k - 1 \in U \ {top}
  BY <1>1
<1>5. down \in [U -> U \ {top}] /\ \A k \in U : down[k] = k - 1
  BY <1>4
<1>6. U \subseteq Nat
  BY <1>1
<1> HIDE DEF U, down
<1>7. IsFiniteSet(U \ {top}) /\ Cardinality(U \ {top}) < Cardinality(U)
  <2>1. /\ Cardinality(U) \in Nat /\ Cardinality(U \ {top}) = Cardinality(U) - 1
        /\ IsFiniteSet(U \ {top})
    BY <1>2, <1>3, FS_RemoveElement, FS_CardinalityType
  <2> QED
    BY <2>1
<1>8. PICK j, k \in U : j # k /\ down[j] = down[k]
  BY <1>3, <1>5, <1>7, FS_PigeonHole
<1> QED
  BY <1>5, <1>6, <1>8

----------------------------------------------------------------------------
(* What follows from each block on.  The rank of a block is the number of  *)
(* steps to the tail.                                                      *)
Falls(bs, t, r) ==
  /\ r \in [DOMAIN bs -> Nat] /\ t \in DOMAIN bs /\ r[t] = 0
  /\ \A b \in DOMAIN bs \ {t} : bs[b].next \in DOMAIN bs /\ r[b] = r[bs[b].next] + 1

Told(bs, t, f, b) == IF b = t THEN In(bs[b]) ELSE In(bs[b]) \o f[bs[b].next]
Tells(bs, t, f) == f = [b \in DOMAIN bs |-> Told(bs, t, f, b)]

(* Two rings that agree up to some rank hold the same up to that rank.     *)
Agree(bs, cs, t, r, n) ==
  \A b \in DOMAIN bs : r[b] <= n =>
    b \in DOMAIN cs /\ In(cs[b]) = In(bs[b]) /\ (b # t => cs[b].next = bs[b].next)

LEMMA SameTold ==
  ASSUME NEW bs, NEW cs, NEW t, NEW r, NEW n \in Nat, NEW f, NEW g,
         Falls(bs, t, r), Tells(bs, t, f), Tells(cs, t, g),
         Agree(bs, cs, t, r, n)
  PROVE  \A b \in DOMAIN bs : r[b] <= n => g[b] = f[b]
<1> DEFINE Fails(k) == \E b \in DOMAIN bs : r[b] = k /\ r[b] <= n /\ g[b] # f[b]
           S == {k \in Nat : Fails(k)}
<1>1. ASSUME NEW k \in S PROVE k - 1 \in S
  <2>1. PICK b \in DOMAIN bs : r[b] = k /\ r[b] <= n /\ g[b] # f[b]
    OBVIOUS
  <2>2. b \in DOMAIN cs /\ In(cs[b]) = In(bs[b]) /\ (b # t => cs[b].next = bs[b].next)
    BY <2>1 DEF Agree
  <2>3. f[b] = Told(bs, t, f, b) /\ g[b] = Told(cs, t, g, b)
    BY <2>1, <2>2 DEF Tells
  <2>4. b # t
    BY <2>1, <2>2, <2>3 DEF Told
  <2>5. g[bs[b].next] # f[bs[b].next]
    BY <2>1, <2>2, <2>3, <2>4 DEF Told
  <2>6. /\ bs[b].next \in DOMAIN bs /\ r[bs[b].next] \in Nat /\ k \in Nat
        /\ r[b] = r[bs[b].next] + 1
    BY <2>4 DEF Falls
  <2>7. r[bs[b].next] = k - 1 /\ r[bs[b].next] <= n /\ k - 1 \in Nat
    BY <2>1, <2>6
  <2>8. Fails(k - 1)
    BY <2>5, <2>6, <2>7
  <2> QED
    BY <2>7, <2>8
<1>2. S = {}
  <2> HIDE DEF S
  <2>1. S \in SUBSET Nat
    BY DEF S
  <2> QED
    BY <1>1, <2>1, NoDescent
<1>3. \A b \in DOMAIN bs : r[b] \in Nat
  BY DEF Falls
<1> QED
  BY <1>2, <1>3

(* There is something to tell. *)
LEMMA SomeTold ==
  ASSUME NEW bs, NEW t, NEW r, NEW top \in Nat, NEW V, Falls(bs, t, r),
         \A b \in DOMAIN bs : r[b] <= top /\ In(bs[b]) \in Seq(V)
  PROVE  \E f \in [DOMAIN bs -> Seq(V)] : Tells(bs, t, f)
<1> DEFINE Upto(k, f) == \A b \in DOMAIN bs : r[b] <= k => f[b] = Told(bs, t, f, b)
           S == {k \in Nat : ~\E f \in [DOMAIN bs -> Seq(V)] : Upto(k, f)}
<1>1. /\ \A b \in DOMAIN bs : r[b] \in Nat
      /\ \A b \in DOMAIN bs : b # t => bs[b].next \in DOMAIN bs /\ r[b] = r[bs[b].next] + 1
      /\ r[t] = 0
  BY DEF Falls
<1>2. 0 \notin S
  <2> DEFINE f == [b \in DOMAIN bs |-> In(bs[b])]
  <2>1. f \in [DOMAIN bs -> Seq(V)]
    OBVIOUS
  <2>2. ASSUME NEW b \in DOMAIN bs, r[b] <= 0 PROVE f[b] = Told(bs, t, f, b)
    <3>1. b = t
      BY <1>1, <2>2
    <3> QED
      BY <3>1 DEF Told
  <2>3. Upto(0, f)
    BY <2>2
  <2> HIDE DEF f
  <2> QED
    BY <2>1, <2>3
<1>3. ASSUME NEW k \in S PROVE k - 1 \in S
  <2>1. k \in Nat /\ k - 1 \in Nat
    BY <1>2
  <2>2. ASSUME NEW f \in [DOMAIN bs -> Seq(V)], Upto(k - 1, f) PROVE FALSE
    <3> DEFINE g == [b \in DOMAIN bs |-> IF r[b] = k THEN In(bs[b]) \o f[bs[b].next] ELSE f[b]]
    <3>1. ASSUME NEW b \in DOMAIN bs, r[b] = k PROVE b # t /\ bs[b].next \in DOMAIN bs /\ r[bs[b].next] = k - 1
      <4>1. b # t
        BY <1>1, <2>1, <3>1
      <4>2. bs[b].next \in DOMAIN bs /\ r[b] = r[bs[b].next] + 1 /\ r[bs[b].next] \in Nat
        BY <1>1, <4>1
      <4> QED
        BY <3>1, <4>1, <4>2
    <3>2. g \in [DOMAIN bs -> Seq(V)]
      <4>1. ASSUME NEW b \in DOMAIN bs PROVE g[b] \in Seq(V)
        <5>1. CASE r[b] = k
          <6>1. f[bs[b].next] \in Seq(V) /\ In(bs[b]) \in Seq(V)
            BY <3>1, <5>1
          <6> QED
            BY <5>1, <6>1, ConcatProperties
        <5> QED
          BY <5>1
      <4> QED
        BY <4>1
    <3>3. ASSUME NEW b \in DOMAIN bs, r[b] <= k PROVE g[b] = Told(bs, t, g, b)
      <4>1. CASE r[b] = k
        <5>1. /\ b # t /\ g[b] = In(bs[b]) \o f[bs[b].next]
              /\ bs[b].next \in DOMAIN bs /\ r[bs[b].next] # k
          BY <2>1, <3>1, <4>1
        <5>2. g[bs[b].next] = f[bs[b].next]
          BY <5>1
        <5> QED
          BY <5>1, <5>2 DEF Told
      <4>2. CASE r[b] # k
        <5>1. r[b] <= k - 1
          BY <1>1, <2>1, <3>3, <4>2
        <5>2. g[b] = f[b] /\ f[b] = Told(bs, t, f, b)
          BY <2>2, <4>2, <5>1
        <5>3. b # t => g[bs[b].next] = f[bs[b].next]
          <6>1. b # t => bs[b].next \in DOMAIN bs /\ r[bs[b].next] # k
            BY <1>1, <2>1, <5>1
          <6> QED
            BY <6>1
        <5> QED
          BY <5>2, <5>3 DEF Told
      <4> QED
        BY <4>1, <4>2
    <3>4. Upto(k, g)
      BY <3>3
    <3> HIDE DEF g
    <3> QED
      BY <3>2, <3>4
  <2> QED
    BY <2>1, <2>2
<1>4. S = {}
  <2> HIDE DEF S
  <2>1. S \in SUBSET Nat
    BY DEF S
  <2> QED
    BY <1>3, <2>1, NoDescent
<1>5. PICK f \in [DOMAIN bs -> Seq(V)] : Upto(top, f)
  BY <1>4
<1>6. f = [b \in DOMAIN bs |-> Told(bs, t, f, b)]
  BY <1>5
<1> QED
  BY <1>6 DEF Tells

----------------------------------------------------------------------------
(* The elements of a block. *)
LEMMA Wraps ==
  ASSUME NEW size \in Sizes, NEW n \in 0..(2 * size - 1)
  PROVE  n % size = IF n < size THEN n ELSE n - size
<1>1. CASE n < size
  BY <1>1 DEF Sizes
<1>2. CASE n >= size
  <2>1. n = (n - size) + size /\ n - size \in 0..(size - 1)
    BY <1>2 DEF Sizes
  <2> QED
    BY <1>2, <2>1 DEF Sizes
<1> QED
  BY <1>1, <1>2 DEF Sizes

Slot(size, i, k) == IF i + k < size THEN i + k ELSE i + k - size

(* The elements lie in the slots from front on. *)
LEMMA InIs ==
  ASSUME NEW block, WellFormed(block)
  PROVE  LET count == Dist(Size(block), block.front, block.tail)
         IN  /\ count \in 0..(Size(block) - 1)
             /\ In(block) = [i \in 1..count |-> block.data[Slot(Size(block), block.front, i - 1)]]
             /\ In(block) \in Seq(Values) /\ Len(In(block)) = count
<1> DEFINE size == Size(block)
           count == Dist(size, block.front, block.tail)
<1>1. /\ size \in Sizes /\ block.data \in [0..(size - 1) -> Values]
      /\ block.front \in 0..(size - 1) /\ block.tail \in 0..(size - 1)
  BY BlockSize DEF WellFormed
<1>2. (size + block.tail - block.front) % size = count
  <2> HIDE DEF size
  <2>1. PICK n : n = size + block.tail - block.front
    OBVIOUS
  <2>2. n \in 0..(2 * size - 1)
    BY <1>1, <2>1 DEF Sizes
  <2>3. n % size = IF n < size THEN n ELSE n - size
    BY <1>1, <2>2, Wraps
  <2> QED
    BY <1>1, <2>1, <2>3 DEF Dist, Sizes
<1>3. count \in 0..(size - 1)
  BY <1>1, Distances DEF Measured
<1>4. ASSUME NEW i \in 1..count
      PROVE  /\ (block.front + i - 1) % size = Slot(size, block.front, i - 1)
             /\ Slot(size, block.front, i - 1) \in 0..(size - 1)
  <2> HIDE DEF size, count
  <2>1. PICK n : n = block.front + i - 1
    OBVIOUS
  <2>2. n \in 0..(2 * size - 1) /\ i \in Nat /\ i - 1 \in 0..(size - 1)
    BY <1>1, <1>3, <2>1 DEF Sizes
  <2>3. n % size = IF n < size THEN n ELSE n - size
    BY <1>1, <2>2, Wraps
  <2>4. n = block.front + (i - 1)
    BY <1>1, <2>1, <2>2 DEF Sizes
  <2>5. n % size = Slot(size, block.front, i - 1)
    BY <1>1, <2>2, <2>3, <2>4 DEF Slot, Sizes
  <2>6. n % size \in 0..(size - 1)
    BY <1>1, <2>2, <2>3 DEF Sizes
  <2> QED
    BY <2>1, <2>5, <2>6
<1>5. In(block) = [i \in 1..count |-> block.data[(block.front + i - 1) % size]]
  BY <1>2 DEF In, Size
<1> HIDE DEF size, count
<1>6. In(block) = [i \in 1..count |-> block.data[Slot(size, block.front, i - 1)]]
  BY <1>4, <1>5
<1>7. \A i \in 1..count : block.data[Slot(size, block.front, i - 1)] \in Values
  BY <1>1, <1>4
<1>8. In(block) \in Seq(Values) /\ Len(In(block)) = count
  <2>1. count \in Nat
    BY <1>1, <1>3 DEF Sizes
  <2> QED
    BY <1>6, <1>7, <2>1
<1> QED
  BY <1>3, <1>6, <1>8 DEF size, count

(* What is in a block depends on nothing but front, tail and the slots     *)
(* between them.                                                           *)
LEMMA InSame ==
  ASSUME NEW block, NEW new, new.front = block.front, new.tail = block.tail, new.data = block.data
  PROVE  In(new) = In(block)
BY DEF In

LEMMA InVacant ==
  ASSUME NEW block, WellFormed(block)
  PROVE  /\ Vacant(block) <=> In(block) = <<>>
         /\ Len(In(block)) = 0 <=> Vacant(block)
<1>1. /\ Size(block) \in Sizes
      /\ block.front \in 0..(Size(block) - 1) /\ block.tail \in 0..(Size(block) - 1)
  BY BlockSize DEF WellFormed
<1>2. Dist(Size(block), block.front, block.tail) = 0 <=> Vacant(block)
  BY <1>1, Distances DEF Measured, Vacant
<1>3. In(block) \in Seq(Values) /\ Len(In(block)) = Dist(Size(block), block.front, block.tail)
  BY InIs
<1> QED
  BY <1>2, <1>3, EmptySeq

(* An element is written into the slot at tail. *)
LEMMA InWritten ==
  ASSUME NEW block, WellFormed(block), NEW v \in Values
  PROVE  In([block EXCEPT !.data[block.tail] = v]) = In(block)
<1> DEFINE new == [block EXCEPT !.data[block.tail] = v]
           size == Size(block)
           count == Dist(size, block.front, block.tail)
<1>1. /\ size \in Sizes /\ block.data \in [0..(size - 1) -> Values]
      /\ block.front \in 0..(size - 1) /\ block.tail \in 0..(size - 1) /\ block \in Block
  BY BlockSize DEF WellFormed
<1>2. WellFormed(new)
  BY <1>1, Written
<1>3. /\ new.front = block.front /\ new.tail = block.tail
      /\ new.data = [block.data EXCEPT ![block.tail] = v]
      /\ Size(new) = size
  BY <1>1 DEF Block, Size
<1>4. /\ In(block) = [i \in 1..count |-> block.data[Slot(size, block.front, i - 1)]]
      /\ count \in 0..(size - 1)
  BY InIs
<1> HIDE DEF new
<1>5. In(new) = [i \in 1..Dist(Size(new), new.front, new.tail) |->
                   new.data[Slot(Size(new), new.front, i - 1)]]
  BY <1>2, InIs
<1>6. In(new) = [i \in 1..count |-> new.data[Slot(size, block.front, i - 1)]]
  BY <1>3, <1>5
<1> HIDE DEF size
<1>7. ASSUME NEW i \in 1..count
      PROVE  /\ Slot(size, block.front, i - 1) # block.tail
             /\ Slot(size, block.front, i - 1) \in 0..(size - 1)
  <2>1. PICK front, tail : front = block.front /\ tail = block.tail
    OBVIOUS
  <2>2. front \in 0..(size - 1) /\ tail \in 0..(size - 1) /\ size \in Sizes
    BY <1>1, <2>1
  <2>3. i \in Int /\ 1 <= i /\ i <= Dist(size, front, tail)
    BY <1>4, <2>1
  <2>4. Slot(size, front, i - 1) # tail /\ Slot(size, front, i - 1) \in 0..(size - 1)
    BY <2>2, <2>3 DEF Slot, Dist, Sizes
  <2> QED
    BY <2>1, <2>4
<1>8. \A i \in 1..count : new.data[Slot(size, block.front, i - 1)] = block.data[Slot(size, block.front, i - 1)]
  BY <1>1, <1>3, <1>7
<1> QED
  BY <1>4, <1>6, <1>8 DEF new

(* The slot at tail is published. *)
LEMMA InPublished ==
  ASSUME NEW block, WellFormed(block),
         Follow(Size(block), block.tail) # block.front,
         WellFormed([block EXCEPT !.tail = Follow(Size(block), block.tail)])
  PROVE  In([block EXCEPT !.tail = Follow(Size(block), block.tail)]) =
           Append(In(block), block.data[block.tail])
<1> DEFINE new == [block EXCEPT !.tail = Follow(Size(block), block.tail)]
           size == Size(block)
           count == Dist(size, block.front, block.tail)
           item(i) == block.data[Slot(size, block.front, i - 1)]
<1>1. /\ size \in Sizes /\ block.data \in [0..(size - 1) -> Values]
      /\ block.front \in 0..(size - 1) /\ block.tail \in 0..(size - 1) /\ block \in Block
  BY BlockSize DEF WellFormed
<1>2. /\ new.front = block.front /\ new.tail = Follow(size, block.tail)
      /\ new.data = block.data /\ Size(new) = size
  BY <1>1 DEF Block, Size
<1>3. /\ In(block) = [i \in 1..count |-> item(i)]
      /\ count \in 0..(size - 1) /\ In(block) \in Seq(Values) /\ Len(In(block)) = count
  BY InIs
<1>4. Dist(size, block.front, Follow(size, block.tail)) = count + 1
  BY <1>1, Distances DEF Measured
<1>5. WellFormed(new)
  OBVIOUS
<1> HIDE DEF new
<1>6. In(new) = [i \in 1..Dist(Size(new), new.front, new.tail) |->
                    new.data[Slot(Size(new), new.front, i - 1)]]
  BY <1>5, InIs
<1>7. In(new) = [i \in 1..(count + 1) |-> item(i)]
  BY <1>2, <1>4, <1>6
<1> HIDE DEF size, count
<1>8. count \in Nat
  BY <1>1, <1>3 DEF Sizes
<1>9. Slot(size, block.front, count) = block.tail
  BY <1>1, <1>8 DEF Slot, Dist, count, Sizes
<1>10. item(count + 1) = block.data[block.tail]
  <2>1. PICK n : n = count + 1
    OBVIOUS
  <2>2. n - 1 = count
    BY <1>8, <2>1
  <2>3. item(n) = block.data[Slot(size, block.front, n - 1)]
    OBVIOUS
  <2> QED
    BY <1>9, <2>1, <2>2, <2>3
<1> HIDE DEF item
<1>11. [i \in 1..(count + 1) |-> item(i)] = Append([i \in 1..count |-> item(i)], item(count + 1))
  BY <1>3, <1>8
<1> QED
  BY <1>3, <1>7, <1>10, <1>11 DEF new, size

(* The first element is released. *)
LEMMA InReleased ==
  ASSUME NEW block, WellFormed(block), ~Vacant(block),
         WellFormed([block EXCEPT !.front = Follow(Size(block), block.front)])
  PROVE  /\ In(block) # <<>> /\ Head(In(block)) = block.data[block.front]
         /\ In([block EXCEPT !.front = Follow(Size(block), block.front)]) = Tail(In(block))
<1> DEFINE new == [block EXCEPT !.front = Follow(Size(block), block.front)]
           size == Size(block)
           count == Dist(size, block.front, block.tail)
           item(i) == block.data[Slot(size, block.front, i - 1)]
<1>1. /\ size \in Sizes /\ block.data \in [0..(size - 1) -> Values]
      /\ block.front \in 0..(size - 1) /\ block.tail \in 0..(size - 1) /\ block \in Block
  BY BlockSize DEF WellFormed
<1>2. /\ new.front = Follow(size, block.front) /\ new.tail = block.tail
      /\ new.data = block.data /\ Size(new) = size
  BY <1>1 DEF Block, Size
<1>3. /\ In(block) = [i \in 1..count |-> item(i)]
      /\ count \in 0..(size - 1) /\ In(block) \in Seq(Values) /\ Len(In(block)) = count
  BY InIs
<1>4. Dist(size, Follow(size, block.front), block.tail) = count - 1 /\ count # 0
  BY <1>1, Distances DEF Measured, Vacant
<1>5. count \in Nat /\ count > 0
  BY <1>1, <1>3, <1>4 DEF Sizes
<1>6. WellFormed(new)
  OBVIOUS
<1> HIDE DEF new
<1>7. In(new) = [i \in 1..Dist(Size(new), new.front, new.tail) |->
                    new.data[Slot(Size(new), new.front, i - 1)]]
  BY <1>6, InIs
<1>8. In(new) = [i \in 1..(count - 1) |-> block.data[Slot(size, Follow(size, block.front), i - 1)]]
  BY <1>2, <1>4, <1>7
<1> HIDE DEF size, count
<1>9. ASSUME NEW i \in 1..(count - 1)
      PROVE  Slot(size, Follow(size, block.front), i - 1) = Slot(size, block.front, i + 1 - 1)
  <2>1. Follow(size, block.front) = IF block.front + 1 = size THEN 0 ELSE block.front + 1
    BY <1>1, Following
  <2> QED
    BY <1>1, <1>3, <1>5, <2>1 DEF Slot, Sizes
<1>10. In(new) = [i \in 1..(count - 1) |-> item(i + 1)]
  BY <1>8, <1>9
<1>11. item(1) = block.data[block.front]
  BY <1>1 DEF Slot, Sizes
<1> HIDE DEF item
<1>12. In(block) # <<>> /\ Head(In(block)) = item(1)
  BY <1>3, <1>5
<1>13. Tail(In(block)) = [i \in 1..(count - 1) |-> item(i + 1)]
  <2>1. /\ Len(Tail(In(block))) = count - 1 /\ Tail(In(block)) \in Seq(Values)
        /\ \A i \in 1..(count - 1) : Tail(In(block))[i] = In(block)[i + 1]
    BY <1>3, <1>5, <1>12, HeadTailProperties
  <2>2. \A i \in 1..(count - 1) : In(block)[i + 1] = item(i + 1)
    BY <1>3, <1>5
  <2>3. DOMAIN Tail(In(block)) = 1..(count - 1)
    BY <2>1, LenProperties
  <2>4. Tail(In(block)) = [i \in DOMAIN Tail(In(block)) |-> Tail(In(block))[i]]
    BY <2>1, LenProperties
  <2> QED
    BY <2>1, <2>2, <2>3, <2>4
<1> QED
  BY <1>10, <1>11, <1>12, <1>13 DEF new, size

----------------------------------------------------------------------------
(* The circle: the rank falls by one from block to block down to the tail, *)
(* and the tail is followed by the block of rank far.                      *)
Circle(bs, t, far, r) ==
  /\ bs \in Seq(Block) /\ \A b \in DOMAIN bs : WellFormed(bs[b])
  /\ r \in [DOMAIN bs -> 0..(Len(bs) - 1)]
  /\ \A a, b \in DOMAIN bs : r[a] = r[b] => a = b
  /\ t \in DOMAIN bs /\ r[t] = 0
  /\ \A b \in DOMAIN bs : bs[b].next \in DOMAIN bs
  /\ r[bs[t].next] = far
  /\ \A b \in DOMAIN bs \ {t} : r[b] = r[bs[b].next] + 1

Circular(bs, t, far, r) ==
  /\ Falls(bs, t, r) /\ Len(bs) \in Nat /\ Len(bs) > 0 /\ DOMAIN bs = 1..Len(bs)
  /\ t \in DOMAIN bs /\ r[t] = 0 /\ r[bs[t].next] = far
  /\ \A b \in DOMAIN bs : r[b] \in Nat /\ r[b] <= Len(bs) - 1
  /\ \A b \in DOMAIN bs : bs[b].next \in DOMAIN bs
  /\ \A b \in DOMAIN bs : b # t => r[b] = r[bs[b].next] + 1
  /\ \A a, b \in DOMAIN bs : r[a] = r[b] => a = b
  /\ \A b \in DOMAIN bs : In(bs[b]) \in Seq(Values)

LEMMA CircleFalls ==
  ASSUME NEW bs, NEW t, NEW far, NEW r, Circle(bs, t, far, r)
  PROVE  Circular(bs, t, far, r)
<1>1. /\ bs \in Seq(Block) /\ r \in [DOMAIN bs -> 0..(Len(bs) - 1)] /\ t \in DOMAIN bs
      /\ \A b \in DOMAIN bs : WellFormed(bs[b])
  BY DEF Circle
<1>2. Len(bs) \in Nat /\ DOMAIN bs = 1..Len(bs)
  BY <1>1, LenProperties
<1>3. \A b \in DOMAIN bs : r[b] \in Nat /\ r[b] <= Len(bs) - 1
  BY <1>1, <1>2
<1>4. Len(bs) > 0
  BY <1>1, <1>2
<1>5. Falls(bs, t, r)
  <2>1. r \in [DOMAIN bs -> Nat]
    BY <1>1, <1>3
  <2> QED
    BY <2>1 DEF Circle, Falls
<1>6. \A b \in DOMAIN bs : In(bs[b]) \in Seq(Values)
  BY <1>1, InIs
<1>7. /\ t \in DOMAIN bs /\ r[t] = 0 /\ r[bs[t].next] = far
      /\ \A b \in DOMAIN bs : bs[b].next \in DOMAIN bs
      /\ \A b \in DOMAIN bs : b # t => r[b] = r[bs[b].next] + 1
      /\ \A a, b \in DOMAIN bs : r[a] = r[b] => a = b
  BY DEF Circle
<1> QED
  BY <1>2, <1>3, <1>4, <1>5, <1>6, <1>7 DEF Circular

(* No block is linked anew. *)
LEMMA CircleStays ==
  ASSUME NEW bs, NEW cs \in Seq(Block), NEW t, NEW far, NEW r, Circle(bs, t, far, r),
         DOMAIN cs = DOMAIN bs, Len(cs) = Len(bs),
         \A b \in DOMAIN bs : WellFormed(cs[b]) /\ cs[b].next = bs[b].next
  PROVE  Circle(cs, t, far, r)
BY DEF Circle

(* The tail moves on. *)
LEMMA CircleTurns ==
  ASSUME NEW bs, NEW t, NEW r, Circle(bs, t, Len(bs) - 1, r), NEW u, u = bs[t].next
  PROVE  Circle(bs, u, Len(bs) - 1, [b \in DOMAIN bs |-> IF b = u THEN 0 ELSE r[b] + 1])
<1>1. Circular(bs, t, Len(bs) - 1, r)
  BY CircleFalls
<1> DEFINE q == [b \in DOMAIN bs |-> IF b = u THEN 0 ELSE r[b] + 1]
<1>2. /\ Len(bs) \in Nat /\ Len(bs) > 0
      /\ \A b \in DOMAIN bs : r[b] \in Nat /\ r[b] <= Len(bs) - 1
  BY <1>1 DEF Circular
<1>3. /\ u \in DOMAIN bs /\ t \in DOMAIN bs /\ r[u] = Len(bs) - 1 /\ r[t] = 0
      /\ \A b \in DOMAIN bs : bs[b].next \in DOMAIN bs
      /\ \A b \in DOMAIN bs : b # t => r[b] = r[bs[b].next] + 1
      /\ \A a, b \in DOMAIN bs : r[a] = r[b] => a = b
  BY DEF Circle
<1>4. ASSUME NEW b \in DOMAIN bs, b # u
      PROVE  r[b] < Len(bs) - 1
  <2>1. r[b] # r[u]
    BY <1>3, <1>4
  <2>2. r[b] \in Nat /\ r[b] <= Len(bs) - 1 /\ Len(bs) \in Nat /\ r[u] = Len(bs) - 1
    BY <1>2, <1>3
  <2> QED
    BY <2>1, <2>2
<1>5. \A b \in DOMAIN bs : q[b] = IF b = u THEN 0 ELSE r[b] + 1
  OBVIOUS
<1>6. q \in [DOMAIN bs -> 0..(Len(bs) - 1)]
  <2>1. \A b \in DOMAIN bs : (IF b = u THEN 0 ELSE r[b] + 1) \in 0..(Len(bs) - 1)
    BY <1>2, <1>4
  <2> QED
    BY <2>1
<1> HIDE DEF q
<1>7. ASSUME NEW a \in DOMAIN bs, NEW b \in DOMAIN bs, q[a] = q[b]
      PROVE  a = b
  <2>1. r[a] \in Nat /\ r[b] \in Nat
    BY <1>2
  <2>2. CASE a = u
    BY <1>5, <1>7, <2>1, <2>2
  <2>3. CASE a # u
    <3>1. b # u /\ r[a] = r[b]
      BY <1>5, <1>7, <2>1, <2>3
    <3> QED
      BY <1>3, <3>1
  <2> QED
    BY <2>2, <2>3
<1>8. q[bs[u].next] = Len(bs) - 1
  <2>1. CASE u = t
    <3>1. Len(bs) - 1 = 0 /\ bs[u].next = u
      BY <1>3, <2>1
    <3> QED
      BY <1>3, <1>5, <3>1
  <2>2. CASE u # t
    <3>1. bs[u].next \in DOMAIN bs /\ r[bs[u].next] \in Nat /\ Len(bs) - 1 = r[bs[u].next] + 1
      BY <1>2, <1>3, <2>2
    <3>2. bs[u].next # u
      BY <1>3, <3>1
    <3> QED
      BY <1>5, <3>1, <3>2
  <2> QED
    BY <2>1, <2>2
<1>9. ASSUME NEW b \in DOMAIN bs, b # u PROVE q[b] = q[bs[b].next] + 1
  <2>1. CASE b = t
    BY <1>3, <1>5, <1>9, <2>1
  <2>2. CASE b # t
    <3>1. r[b] = r[bs[b].next] + 1 /\ bs[b].next \in DOMAIN bs
      BY <1>3, <2>2
    <3>2. bs[b].next # u
      <4>1. r[b] # r[u] + 1
        <5>1. r[b] \in Nat /\ r[b] <= Len(bs) - 1 /\ Len(bs) \in Nat
          BY <1>2, <1>9
        <5>2. r[u] = Len(bs) - 1
          BY <1>3
        <5> QED
          BY <5>1, <5>2
      <4> QED
        BY <3>1, <4>1
    <3> QED
      BY <1>5, <1>9, <3>1, <3>2
  <2> QED
    BY <2>1, <2>2
<1>10. Circle(bs, u, Len(bs) - 1, q)
  BY <1>3, <1>5, <1>6, <1>7, <1>8, <1>9 DEF Circle
<1> QED
  BY <1>10 DEF q

(* A block is made, and is followed by the one that follows the tail. *)
LEMMA CircleGrows ==
  ASSUME NEW bs, NEW t, NEW r, Circle(bs, t, Len(bs) - 1, r),
         NEW cs \in Seq(Block), Len(cs) = Len(bs) + 1,
         \A b \in DOMAIN bs : cs[b] = bs[b],
         WellFormed(cs[Len(cs)]), cs[Len(cs)].next = bs[t].next
  PROVE  Circle(cs, t, Len(cs) - 2, [b \in DOMAIN cs |-> IF b = Len(cs) THEN Len(bs) ELSE r[b]])
<1>1. Circular(bs, t, Len(bs) - 1, r)
  BY CircleFalls
<1> DEFINE q == [b \in DOMAIN cs |-> IF b = Len(cs) THEN Len(bs) ELSE r[b]]
<1>2. /\ Len(bs) \in Nat /\ Len(bs) > 0 /\ DOMAIN bs = 1..Len(bs)
      /\ \A b \in DOMAIN bs : r[b] \in Nat /\ r[b] <= Len(bs) - 1
  BY <1>1 DEF Circular
<1>3. DOMAIN cs = 1..(Len(bs) + 1)
  BY <1>2, LenProperties
<1>4. \A b \in DOMAIN cs : q[b] = IF b = Len(cs) THEN Len(bs) ELSE r[b]
  OBVIOUS
<1>5. \A b \in DOMAIN cs : b = Len(cs) \/ b \in DOMAIN bs
  BY <1>2, <1>3
<1>6. \A b \in DOMAIN bs : b \in DOMAIN cs /\ b # Len(cs) /\ q[b] = r[b]
  BY <1>2, <1>3, <1>4
<1>7. q[Len(cs)] = Len(bs) /\ Len(cs) \in DOMAIN cs
  BY <1>2, <1>3, <1>4
<1>8. q \in [DOMAIN cs -> 0..(Len(cs) - 1)]
  <2>1. \A b \in DOMAIN cs : (IF b = Len(cs) THEN Len(bs) ELSE r[b]) \in 0..(Len(cs) - 1)
    BY <1>2, <1>5
  <2> QED
    BY <2>1
<1> HIDE DEF q
<1>9. /\ t \in DOMAIN bs /\ r[t] = 0 /\ bs[t].next \in DOMAIN bs /\ r[bs[t].next] = Len(bs) - 1
      /\ \A b \in DOMAIN bs : bs[b].next \in DOMAIN bs /\ WellFormed(bs[b])
      /\ \A b \in DOMAIN bs : b # t => r[b] = r[bs[b].next] + 1
      /\ \A a, b \in DOMAIN bs : r[a] = r[b] => a = b
  BY DEF Circle
<1>10. \A a, b \in DOMAIN cs : q[a] = q[b] => a = b
  <2>1. \A b \in DOMAIN bs : q[b] # q[Len(cs)]
    BY <1>2, <1>6, <1>7
  <2> QED
    BY <1>5, <1>6, <1>9, <2>1
<1>11. ASSUME NEW b \in DOMAIN cs
       PROVE  cs[b].next \in DOMAIN cs /\ WellFormed(cs[b]) /\ (b # t => q[b] = q[cs[b].next] + 1)
  <2>1. CASE b = Len(cs)
    <3>1. cs[b].next \in DOMAIN bs /\ r[cs[b].next] = Len(bs) - 1
      BY <1>9, <2>1
    <3>2. cs[b].next \in DOMAIN cs /\ q[cs[b].next] = Len(bs) - 1
      BY <1>6, <3>1
    <3> QED
      BY <1>2, <1>7, <2>1, <3>2
  <2>2. CASE b # Len(cs)
    <3>1. b \in DOMAIN bs /\ cs[b] = bs[b] /\ bs[b].next \in DOMAIN bs
      BY <1>5, <1>9, <2>2
    <3>2. q[b] = r[b] /\ q[bs[b].next] = r[bs[b].next] /\ bs[b].next \in DOMAIN cs
      BY <1>6, <3>1
    <3> QED
      BY <1>9, <3>1, <3>2
  <2> QED
    BY <2>1, <2>2
<1>12. q[cs[t].next] = Len(cs) - 2 /\ q[t] = 0 /\ t \in DOMAIN cs
  BY <1>2, <1>6, <1>9
<1>13. Circle(cs, t, Len(cs) - 2, q)
  BY <1>8, <1>10, <1>11, <1>12 DEF Circle
<1> QED
  BY <1>13 DEF q

(* It is linked after the tail. *)
LEMMA CircleLinks ==
  ASSUME NEW bs, NEW t, NEW r, Circle(bs, t, Len(bs) - 2, r), bs[Len(bs)].next = bs[t].next,
         Len(bs) # t, NEW cs \in Seq(Block), DOMAIN cs = DOMAIN bs, Len(cs) = Len(bs),
         \A b \in DOMAIN bs : WellFormed(cs[b]) /\ (b # t => cs[b].next = bs[b].next),
         cs[t].next = Len(bs)
  PROVE  Circle(cs, t, Len(bs) - 1, r)
<1>1. Circular(bs, t, Len(bs) - 2, r)
  BY CircleFalls
<1>2. /\ Len(bs) \in Nat /\ Len(bs) > 0 /\ DOMAIN bs = 1..Len(bs)
  BY <1>1 DEF Circular
<1>3. Len(bs) \in DOMAIN bs
  BY <1>2
<1>4. r[Len(bs)] = Len(bs) - 1
  <2>1. r[bs[t].next] = Len(bs) - 2 /\ r[Len(bs)] = r[bs[Len(bs)].next] + 1
    BY <1>1, <1>3 DEF Circular
  <2> QED
    BY <1>2, <2>1
<1>5. /\ \A b \in DOMAIN bs : cs[b].next \in DOMAIN bs
      /\ \A b \in DOMAIN bs \ {t} : r[b] = r[cs[b].next] + 1
      /\ r[cs[t].next] = Len(bs) - 1
  BY <1>1, <1>3, <1>4 DEF Circular
<1>6. /\ r \in [DOMAIN bs -> 0..(Len(bs) - 1)] /\ \A a, b \in DOMAIN bs : r[a] = r[b] => a = b
      /\ t \in DOMAIN bs /\ r[t] = 0
  BY DEF Circle
<1> QED
  BY <1>5, <1>6 DEF Circle

----------------------------------------------------------------------------
(* The contents, told block by block from the front block to the tail.     *)
ContentsFrom(bs, fr, t) ==
  LET from[b \in DOMAIN bs] == IF b = t THEN In(bs[b]) ELSE In(bs[b]) \o from[bs[b].next]
  IN from[fr]

(* It is told in one way. *)
LEMMA ToldFrom ==
  ASSUME NEW bs, NEW t, NEW far, NEW r, Circle(bs, t, far, r), NEW f, Tells(bs, t, f),
         NEW fr \in DOMAIN bs
  PROVE  ContentsFrom(bs, fr, t) = f[fr]
<1>1. Circular(bs, t, far, r)
  BY CircleFalls
<1> DEFINE g == CHOOSE h : Tells(bs, t, h)
<1>2. Tells(bs, t, g)
  OBVIOUS
<1>3. ContentsFrom(bs, fr, t) = g[fr]
  BY DEF ContentsFrom, Tells, Told
<1> HIDE DEF g
<1>4. Falls(bs, t, r) /\ r[fr] \in Nat
  BY <1>1 DEF Circular
<1>5. Agree(bs, bs, t, r, r[fr])
  BY DEF Agree
<1>6. \A b \in DOMAIN bs : r[b] <= r[fr] => g[b] = f[b]
  BY <1>2, <1>4, <1>5, SameTold
<1> QED
  BY <1>3, <1>4, <1>6

LEMMA CircleTold ==
  ASSUME NEW bs, NEW t, NEW far, NEW r, Circle(bs, t, far, r)
  PROVE  \E f \in [DOMAIN bs -> Seq(Values)] : Tells(bs, t, f)
<1>1. Circular(bs, t, far, r)
  BY CircleFalls
<1>2. PICK top : top = Len(bs)
  OBVIOUS
<1>3. top \in Nat /\ Falls(bs, t, r)
      /\ \A b \in DOMAIN bs : r[b] \in Nat /\ r[b] <= Len(bs) - 1 /\ In(bs[b]) \in Seq(Values)
  BY <1>2, <1>1 DEF Circular
<1>4. \A b \in DOMAIN bs : r[b] <= top /\ In(bs[b]) \in Seq(Values)
  BY <1>2, <1>3
<1> QED
  BY <1>3, <1>4, SomeTold

(* One block further. *)
LEMMA Unfolds ==
  ASSUME NEW bs, NEW t, NEW far, NEW r, Circle(bs, t, far, r), NEW fr \in DOMAIN bs
  PROVE  /\ ContentsFrom(bs, fr, t) \in Seq(Values)
         /\ fr = t => ContentsFrom(bs, fr, t) = In(bs[fr])
         /\ fr # t => ContentsFrom(bs, fr, t) = In(bs[fr]) \o ContentsFrom(bs, bs[fr].next, t)
<1>1. Circular(bs, t, far, r)
  BY CircleFalls
<1>2. PICK f \in [DOMAIN bs -> Seq(Values)] : Tells(bs, t, f)
  BY CircleTold
<1>3. \A b \in DOMAIN bs : ContentsFrom(bs, b, t) = f[b]
  BY <1>2, ToldFrom
<1>4. f[fr] = Told(bs, t, f, fr)
  BY <1>2 DEF Tells
<1>5. bs[fr].next \in DOMAIN bs
  BY <1>1 DEF Circular
<1> QED
  BY <1>2, <1>3, <1>4, <1>5 DEF Told

(* Two rings that agree from the front block on have the same contents.    *)
LEMMA SameContents ==
  ASSUME NEW bs, NEW cs, NEW t, NEW far, NEW gar, NEW r, NEW q,
         Circle(bs, t, far, r), Circle(cs, t, gar, q), NEW fr \in DOMAIN bs,
         Agree(bs, cs, t, r, r[fr])
  PROVE  ContentsFrom(cs, fr, t) = ContentsFrom(bs, fr, t)
<1>1. Circular(bs, t, far, r)
  BY CircleFalls
<1>2. PICK f \in [DOMAIN bs -> Seq(Values)] : Tells(bs, t, f)
  BY CircleTold
<1>3. PICK g \in [DOMAIN cs -> Seq(Values)] : Tells(cs, t, g)
  BY CircleTold
<1>4. Falls(bs, t, r) /\ r[fr] \in Nat
  BY <1>1 DEF Circular
<1>5. \A b \in DOMAIN bs : r[b] <= r[fr] => g[b] = f[b]
  BY <1>2, <1>3, <1>4, SameTold
<1>6. g[fr] = f[fr] /\ fr \in DOMAIN cs
  BY <1>4, <1>5 DEF Agree
<1> QED
  BY <1>2, <1>3, <1>6, ToldFrom

LEMMA AppendAfter ==
  ASSUME NEW s \in Seq(Values), NEW z \in Seq(Values), NEW v \in Values
  PROVE  /\ Append(s \o z, v) = s \o Append(z, v)
         /\ Append(s, v) = s \o <<v>>
<1>1. <<v>> \in Seq(Values) /\ s \o z \in Seq(Values)
  BY ConcatProperties
<1>2. Append(s, v) = s \o <<v>> /\ Append(z, v) = z \o <<v>>
  BY AppendIsConcat
<1>3. Append(s \o z, v) = (s \o z) \o <<v>>
  BY <1>1, AppendIsConcat
<1>4. (s \o z) \o <<v>> = s \o (z \o <<v>>)
  BY <1>1, ConcatAssociative
<1> QED
  BY <1>2, <1>3, <1>4

(* An element is published in the tail block. *)
Elsewhere(bs, cs, t) ==
  \A b \in DOMAIN bs : b # t => In(cs[b]) = In(bs[b]) /\ cs[b].next = bs[b].next

LEMMA PutHere ==
  ASSUME NEW bs, NEW cs, NEW t, NEW far, NEW gar, NEW r, NEW q, NEW v \in Values,
         Circle(bs, t, far, r), Circle(cs, t, gar, q), NEW fr \in DOMAIN bs,
         DOMAIN cs = DOMAIN bs, In(cs[t]) = Append(In(bs[t]), v), Elsewhere(bs, cs, t)
  PROVE  ContentsFrom(cs, fr, t) = Append(ContentsFrom(bs, fr, t), v)
<1>1. Circular(bs, t, far, r)
  BY CircleFalls
<1>2. PICK f \in [DOMAIN bs -> Seq(Values)] : Tells(bs, t, f)
  BY CircleTold
<1> DEFINE g == [b \in DOMAIN bs |-> Append(f[b], v)]
<1>3. \A b \in DOMAIN bs : f[b] \in Seq(Values) /\ In(bs[b]) \in Seq(Values) /\ bs[b].next \in DOMAIN bs
  BY <1>2, <1>1 DEF Circular
<1>4. ASSUME NEW b \in DOMAIN bs
      PROVE  Append(f[b], v) = Told(cs, t, g, b)
  <2>1. f[b] = Told(bs, t, f, b)
    BY <1>2 DEF Tells
  <2>2. CASE b = t
    BY <2>1, <2>2 DEF Told
  <2>3. CASE b # t
    <3>1. f[b] = In(bs[b]) \o f[bs[b].next] /\ g[bs[b].next] = Append(f[bs[b].next], v)
      BY <1>3, <2>1, <2>3 DEF Told
    <3>2. Append(In(bs[b]) \o f[bs[b].next], v) = In(bs[b]) \o Append(f[bs[b].next], v)
      BY <1>3, AppendAfter
    <3> QED
      BY <2>3, <3>1, <3>2 DEF Told, Elsewhere
  <2> QED
    BY <2>2, <2>3
<1>5. Tells(cs, t, g)
  BY <1>4 DEF Tells
<1>6. g[fr] = Append(f[fr], v)
  OBVIOUS
<1> HIDE DEF g
<1>7. ContentsFrom(cs, fr, t) = g[fr]
  BY <1>5, ToldFrom
<1>8. ContentsFrom(bs, fr, t) = f[fr]
  BY <1>2, ToldFrom
<1> QED
  BY <1>6, <1>7, <1>8

(* The block beside the tail block, with an element, becomes the tail block. *)
LEMMA PutBeside ==
  ASSUME NEW bs, NEW t, NEW r, NEW v \in Values, NEW u, u = bs[t].next,
         Circle(bs, t, Len(bs) - 1, r), NEW fr \in DOMAIN bs, fr # u, In(bs[u]) = <<v>>
  PROVE  ContentsFrom(bs, fr, u) = Append(ContentsFrom(bs, fr, t), v)
<1>1. PICK f \in [DOMAIN bs -> Seq(Values)] : Tells(bs, t, f)
  BY CircleTold
<1> DEFINE g == [b \in DOMAIN bs |-> IF b = u THEN <<v>> ELSE Append(f[b], v)]
<1>2. \A b \in DOMAIN bs : f[b] \in Seq(Values) /\ In(bs[b]) \in Seq(Values)
  BY <1>1, InIs DEF Circle
<1>3. PICK far : far = Len(bs) - 1
  OBVIOUS
<1>4. Circle(bs, t, far, r)
  BY <1>3
<1>5. Circular(bs, t, far, r)
  BY <1>4, CircleFalls
<1>6. /\ Len(bs) \in Nat
      /\ \A b \in DOMAIN bs : r[b] \in Nat /\ r[b] <= far /\ bs[b].next \in DOMAIN bs
      /\ r[t] = 0 /\ t \in DOMAIN bs /\ r[u] = far /\ far \in Nat
  BY <1>3, <1>5 DEF Circular
<1>7. /\ \A b \in DOMAIN bs : b # t => r[b] = r[bs[b].next] + 1
      /\ \A a, b \in DOMAIN bs : r[a] = r[b] => a = b
  BY <1>5 DEF Circular
<1>8. t # u
  <2> SUFFICES ASSUME t = u PROVE FALSE
    OBVIOUS
  <2>1. r[fr] \in Nat /\ r[fr] <= far
    BY <1>6
  <2>2. far = 0 /\ r[t] = 0
    BY <1>6
  <2>3. r[fr] = r[t]
    BY <2>1, <2>2
  <2> QED
    BY <1>6, <1>7, <2>3
<1>9. ASSUME NEW b \in DOMAIN bs, b # t PROVE bs[b].next # u
  <2>1. /\ r[b] = r[bs[b].next] + 1 /\ r[b] <= far /\ r[b] \in Nat
        /\ r[bs[b].next] \in Nat /\ far \in Nat
    BY <1>6, <1>7, <1>9
  <2>2. r[bs[b].next] # far
    BY <2>1
  <2> QED
    BY <1>6, <2>2
<1>10. ASSUME NEW b \in DOMAIN bs
      PROVE  (IF b = u THEN <<v>> ELSE Append(f[b], v)) = Told(bs, u, g, b)
  <2>1. f[b] = Told(bs, t, f, b)
    BY <1>1 DEF Tells
  <2>2. CASE b = u
    BY <2>2 DEF Told
  <2>3. CASE b = t
    <3>1. f[b] = In(bs[b]) /\ g[bs[b].next] = <<v>>
      BY <1>6, <2>1, <2>3 DEF Told
    <3>2. Append(In(bs[b]), v) = In(bs[b]) \o <<v>>
      BY <1>2, AppendAfter
    <3> QED
      BY <1>8, <2>3, <3>1, <3>2 DEF Told
  <2>4. CASE b # t /\ b # u
    <3>1. /\ f[b] = In(bs[b]) \o f[bs[b].next] /\ bs[b].next \in DOMAIN bs
          /\ g[bs[b].next] = Append(f[bs[b].next], v)
      BY <1>6, <1>9, <2>1, <2>4 DEF Told
    <3>2. Append(In(bs[b]) \o f[bs[b].next], v) = In(bs[b]) \o Append(f[bs[b].next], v)
      BY <1>2, <3>1, AppendAfter
    <3> QED
      BY <2>4, <3>1, <3>2 DEF Told
  <2> QED
    BY <2>2, <2>3, <2>4
<1>11. Tells(bs, u, g)
  BY <1>10 DEF Tells
<1>12. g[fr] = Append(f[fr], v)
  OBVIOUS
<1> HIDE DEF g
<1>13. PICK q : Circle(bs, u, Len(bs) - 1, q)
  BY CircleTurns
<1>14. ContentsFrom(bs, fr, u) = g[fr]
  BY <1>11, <1>13, ToldFrom
<1>15. ContentsFrom(bs, fr, t) = f[fr]
  BY <1>1, ToldFrom
<1> QED
  BY <1>12, <1>14, <1>15

(* The front moves on from an empty block. *)
LEMMA LeftBehind ==
  ASSUME NEW bs, NEW t, NEW far, NEW r, Circle(bs, t, far, r),
         NEW fr \in DOMAIN bs, fr # t, In(bs[fr]) = <<>>
  PROVE  ContentsFrom(bs, bs[fr].next, t) = ContentsFrom(bs, fr, t)
<1>1. Circular(bs, t, far, r)
  BY CircleFalls
<1>2. bs[fr].next \in DOMAIN bs
  BY <1>1 DEF Circular
<1>3. ContentsFrom(bs, bs[fr].next, t) \in Seq(Values)
  BY <1>2, Unfolds
<1>4. ContentsFrom(bs, fr, t) = <<>> \o ContentsFrom(bs, bs[fr].next, t)
  BY Unfolds
<1> QED
  BY <1>3, <1>4, ConcatEmptySeq

(* A block with an element in it is not followed by anything earlier.      *)
LEMMA HeadBefore ==
  ASSUME NEW s \in Seq(Values), NEW z \in Seq(Values), s # <<>>
  PROVE  s \o z # <<>> /\ Head(s \o z) = Head(s) /\ Tail(s \o z) = Tail(s) \o z
<1>1. s \o z \in Seq(Values) /\ Len(s \o z) = Len(s) + Len(z)
      /\ \A i \in 1..(Len(s) + Len(z)) : (s \o z)[i] = IF i <= Len(s) THEN s[i] ELSE z[i - Len(s)]
  BY ConcatProperties
<1>2. Len(s) \in Nat /\ Len(s) > 0 /\ Len(z) \in Nat
  BY EmptySeq, LenProperties
<1>3. s \o z # <<>>
  BY <1>1, <1>2
<1>4. Head(s \o z) = Head(s)
  BY <1>1, <1>2 DEF Head
<1>5. /\ Tail(s) \in Seq(Values) /\ Len(Tail(s)) = Len(s) - 1
      /\ \A i \in 1..(Len(s) - 1) : Tail(s)[i] = s[i + 1]
  BY HeadTailProperties
<1>6. /\ Tail(s \o z) \in Seq(Values) /\ Len(Tail(s \o z)) = Len(s) + Len(z) - 1
      /\ \A i \in 1..(Len(s) + Len(z) - 1) : Tail(s \o z)[i] = (s \o z)[i + 1]
  BY <1>1, <1>3, HeadTailProperties
<1>7. /\ Tail(s) \o z \in Seq(Values) /\ Len(Tail(s) \o z) = Len(s) - 1 + Len(z)
      /\ \A i \in 1..(Len(s) - 1 + Len(z)) :
           (Tail(s) \o z)[i] = IF i <= Len(s) - 1 THEN Tail(s)[i] ELSE z[i - (Len(s) - 1)]
  BY <1>5, ConcatProperties
<1>8. ASSUME NEW i \in 1..(Len(s) + Len(z) - 1)
      PROVE  Tail(s \o z)[i] = (Tail(s) \o z)[i]
  <2>1. /\ i \in 1..(Len(s) - 1 + Len(z)) /\ i + 1 \in 1..(Len(s) + Len(z)) /\ i \in Nat
        /\ i + 1 - Len(s) = i - (Len(s) - 1)
    BY <1>2
  <2>2. Tail(s \o z)[i] = IF i + 1 <= Len(s) THEN s[i + 1] ELSE z[i + 1 - Len(s)]
    BY <1>1, <1>6, <2>1
  <2>3. (Tail(s) \o z)[i] = IF i <= Len(s) - 1 THEN Tail(s)[i] ELSE z[i - (Len(s) - 1)]
    BY <1>7, <2>1
  <2>4. CASE i + 1 <= Len(s)
    <3>1. i <= Len(s) - 1 /\ i \in 1..(Len(s) - 1)
      BY <1>2, <2>1, <2>4
    <3> QED
      BY <1>5, <2>2, <2>3, <2>4, <3>1
  <2>5. CASE ~(i + 1 <= Len(s))
    <3>1. ~(i <= Len(s) - 1)
      BY <1>2, <2>1, <2>5
    <3> QED
      BY <2>1, <2>2, <2>3, <2>5, <3>1
  <2> QED
    BY <2>4, <2>5
<1>9. Tail(s \o z) = Tail(s) \o z
  BY <1>2, <1>6, <1>7, <1>8, SeqEqual
<1> QED
  BY <1>3, <1>4, <1>9

(* What the front block has is first. *)
LEMMA FirstIsFirst ==
  ASSUME NEW bs, NEW t, NEW far, NEW r, Circle(bs, t, far, r), NEW fr \in DOMAIN bs,
         In(bs[fr]) # <<>>
  PROVE  /\ ContentsFrom(bs, fr, t) # <<>>
         /\ Head(ContentsFrom(bs, fr, t)) = Head(In(bs[fr]))
<1>1. Circular(bs, t, far, r)
  BY CircleFalls
<1>2. bs[fr].next \in DOMAIN bs /\ In(bs[fr]) \in Seq(Values)
  BY <1>1 DEF Circular
<1>3. ContentsFrom(bs, bs[fr].next, t) \in Seq(Values)
  BY <1>2, Unfolds
<1>4. CASE fr = t
  BY <1>4, Unfolds
<1>5. CASE fr # t
  <2>1. ContentsFrom(bs, fr, t) = In(bs[fr]) \o ContentsFrom(bs, bs[fr].next, t)
    BY <1>5, Unfolds
  <2> QED
    BY <1>2, <1>3, <2>1, HeadBefore
<1> QED
  BY <1>4, <1>5

(* The front block gives up its first element. *)
LEMMA TakenOut ==
  ASSUME NEW bs, NEW cs, NEW t, NEW far, NEW gar, NEW r, NEW q,
         Circle(bs, t, far, r), Circle(cs, t, gar, q), NEW fr \in DOMAIN bs,
         DOMAIN cs = DOMAIN bs, In(bs[fr]) # <<>>, In(cs[fr]) = Tail(In(bs[fr])),
         \A b \in DOMAIN bs : b # fr => In(cs[b]) = In(bs[b]),
         \A b \in DOMAIN bs : cs[b].next = bs[b].next
  PROVE  ContentsFrom(cs, fr, t) = Tail(ContentsFrom(bs, fr, t))
<1>1. Circular(bs, t, far, r)
  BY CircleFalls
<1>2. CASE fr = t
  BY <1>2, Unfolds
<1>3. CASE fr # t
  <2>1. PICK nx : nx = bs[fr].next
    OBVIOUS
  <2>2. /\ nx \in DOMAIN bs /\ In(bs[fr]) \in Seq(Values)
        /\ \A b \in DOMAIN bs : r[b] \in Nat
        /\ r[fr] = r[nx] + 1
    BY <1>3, <2>1, <1>1 DEF Circular
  <2>3. \A b \in DOMAIN bs : r[b] <= r[nx] => b # fr
    BY <2>2
  <2>4. Agree(bs, cs, t, r, r[nx])
    BY <2>3 DEF Agree
  <2>5. ContentsFrom(cs, nx, t) = ContentsFrom(bs, nx, t)
    BY <2>2, <2>4, SameContents
  <2>6. ContentsFrom(bs, nx, t) \in Seq(Values)
    BY <2>2, Unfolds
  <2>7. ContentsFrom(bs, fr, t) = In(bs[fr]) \o ContentsFrom(bs, nx, t)
    BY <1>3, <2>1, Unfolds
  <2>8. ContentsFrom(cs, fr, t) = Tail(In(bs[fr])) \o ContentsFrom(cs, nx, t)
    <3>1. fr \in DOMAIN cs /\ cs[fr].next = nx
      BY <2>1
    <3> QED
      BY <1>3, <3>1, Unfolds
  <2>9. Tail(In(bs[fr]) \o ContentsFrom(bs, nx, t)) = Tail(In(bs[fr])) \o ContentsFrom(bs, nx, t)
    BY <2>2, <2>6, HeadBefore
  <2> QED
    BY <2>5, <2>7, <2>8, <2>9
<1> QED
  BY <1>2, <1>3

(* So many blocks with so many elements each. *)
LEMMA LongEnough ==
  ASSUME NEW bs, NEW t, NEW far, NEW r, Circle(bs, t, far, r), NEW fr \in DOMAIN bs,
         NEW least \in Nat, \A b \in DOMAIN bs : r[b] < r[fr] => Len(In(bs[b])) >= least
  PROVE  Len(ContentsFrom(bs, fr, t)) >= r[fr] * least
<1>1. Circular(bs, t, far, r)
  BY CircleFalls
<1>2. PICK f \in [DOMAIN bs -> Seq(Values)] : Tells(bs, t, f)
  BY CircleTold
<1>3. \A b \in DOMAIN bs : f[b] \in Seq(Values)
  BY <1>2
<1>4. /\ \A b \in DOMAIN bs : In(bs[b]) \in Seq(Values)
      /\ \A b \in DOMAIN bs : r[b] \in Nat /\ bs[b].next \in DOMAIN bs
      /\ r[t] = 0
      /\ \A b \in DOMAIN bs : b # t => r[b] = r[bs[b].next] + 1
  BY <1>1 DEF Circular
<1>5. \A b \in DOMAIN bs : Len(f[b]) \in Nat /\ Len(In(bs[b])) \in Nat
  BY <1>3, <1>4, LenProperties
<1>6. \A b \in DOMAIN bs : b # t => Len(f[b]) = Len(In(bs[b])) + Len(f[bs[b].next])
  <2> TAKE b \in DOMAIN bs
  <2> SUFFICES ASSUME b # t PROVE Len(f[b]) = Len(In(bs[b])) + Len(f[bs[b].next])
    OBVIOUS
  <2>1. f[b] = In(bs[b]) \o f[bs[b].next]
    BY <1>2 DEF Tells, Told
  <2> QED
    BY <1>3, <1>4, <2>1, ConcatProperties
<1>7. PICK top : top = r[fr]
  OBVIOUS
<1>8. top \in Nat
  BY <1>4, <1>7
<1> DEFINE Short(k) == \E b \in DOMAIN bs : r[b] = k /\ k < top /\ Len(f[b]) < (k + 1) * least
           S == {k \in Nat : Short(k)}
<1>9. ASSUME NEW k \in S PROVE k - 1 \in S
  <2>1. PICK b \in DOMAIN bs : r[b] = k /\ k < top /\ Len(f[b]) < (k + 1) * least
    OBVIOUS
  <2>2. k \in Nat /\ Len(In(bs[b])) >= least /\ Len(In(bs[b])) \in Nat
    BY <1>5, <1>7, <2>1
  <2>3. b # t
    <3> SUFFICES ASSUME b = t PROVE FALSE
      OBVIOUS
    <3>1. k = 0 /\ f[b] = In(bs[b])
      BY <1>2, <1>4, <2>1 DEF Tells, Told
    <3>2. k + 1 = 1 /\ 1 * least = least
      BY <3>1
    <3>3. Len(f[b]) < least /\ Len(f[b]) = Len(In(bs[b]))
      BY <2>1, <3>1, <3>2
    <3> QED
      BY <2>2, <3>3
  <2>4. PICK nx : nx = bs[b].next
    OBVIOUS
  <2>5. /\ nx \in DOMAIN bs /\ r[nx] \in Nat /\ k = r[nx] + 1
        /\ Len(f[b]) = Len(In(bs[b])) + Len(f[nx]) /\ Len(f[nx]) \in Nat
    BY <1>4, <1>5, <1>6, <2>1, <2>3, <2>4
  <2>6. PICK all : all = k * least
    OBVIOUS
  <2>7. (k + 1) * least = all + least /\ all \in Nat
    BY <2>2, <2>6
  <2>8. Len(f[nx]) < all
    BY <2>1, <2>2, <2>5, <2>7
  <2>9. PICK j : j = k - 1
    OBVIOUS
  <2>10. j \in Nat /\ j + 1 = k /\ r[nx] = j /\ j < top
    <3>1. r[nx] = j
      <4>1. r[nx] \in Nat /\ k = r[nx] + 1
        BY <2>5
      <4> QED
        BY <2>9, <4>1
    <3>2. j \in Nat /\ j + 1 = k
      BY <2>5, <3>1
    <3>3. j < top
      BY <1>8, <2>1, <3>2
    <3> QED
      BY <3>1, <3>2, <3>3
  <2>11. Short(j)
    BY <2>5, <2>6, <2>8, <2>10
  <2> QED
    BY <2>9, <2>10, <2>11
<1>10. S = {}
  <2> HIDE DEF S
  <2>1. S \in SUBSET Nat
    BY DEF S
  <2> QED
    BY <1>9, <2>1, NoDescent
<1>11. ContentsFrom(bs, fr, t) = f[fr]
  BY <1>2, ToldFrom
<1>12. CASE top = 0
  <2>1. top * least = 0
    BY <1>12
  <2> QED
    BY <1>5, <1>7, <1>11, <2>1
<1>13. CASE top # 0
  <2>1. PICK nx : nx = bs[fr].next
    OBVIOUS
  <2>2. /\ nx \in DOMAIN bs /\ r[nx] \in Nat /\ top = r[nx] + 1
        /\ Len(f[fr]) = Len(In(bs[fr])) + Len(f[nx])
        /\ Len(f[nx]) \in Nat /\ Len(In(bs[fr])) \in Nat
    BY <1>4, <1>5, <1>6, <1>7, <1>13, <2>1
  <2>3. PICK all : all = top * least
    OBVIOUS
  <2>4. PICK rank : rank = r[nx]
    OBVIOUS
  <2>5. rank \in Nat /\ rank < top /\ (rank + 1) * least = all /\ all \in Nat
    <3>1. rank \in Nat /\ rank + 1 = top
      BY <2>2, <2>4
    <3> QED
      BY <1>8, <2>3, <3>1
  <2>6. ~(Len(f[nx]) < all)
    <3>1. ~Short(rank)
      BY <1>10, <2>5
    <3> QED
      BY <2>2, <2>4, <2>5, <3>1
  <2>7. Len(f[fr]) >= all
    BY <2>2, <2>5, <2>6
  <2> QED
    BY <1>7, <1>11, <2>3, <2>7
<1> QED
  BY <1>12, <1>13

----------------------------------------------------------------------------
(* What the queue holds, and what room it has. *)

Packed(block) == Follow(Size(block), block.tail) = block.front

(* The block after the tail is the furthest from it, but for one that is   *)
(* not linked yet.  Those between the front block and the tail block are   *)
(* full: the producer left them so, and the consumer has not reached them. *)
Far == IF ppc = "link" THEN Len(blocks) - 2 ELSE Len(blocks) - 1
Ranks(r) ==
  /\ Circle(blocks, tailBlock, Far, r)
  /\ \A b \in Blocks : 0 < r[b] /\ r[b] < r[frontBlock] => Packed(blocks[b])
Ranked == \E r : Ranks(r)

(* All blocks but one have room for maxSize elements. *)
Holds(least) ==
  /\ least \in Nat /\ largestBlockSize > least
  /\ \A b \in Blocks : Size(blocks[b]) > least
  /\ Len(blocks) = 1 => least >= maxSize
  /\ Len(blocks) # 1 => (Len(blocks) - 1) * least >= maxSize
Capacity == \E least : Holds(least)

Room ==
  /\ ppc \in {"loadFront", "full"} /\ roomy => Len(Contents) < maxSize
  /\ ppc \in {"full", "loadNext", "storeNext", "publishNext", "allocate", "link", "advance"}
       /\ tailBlock # frontBlock => Packed(Owns)
  /\ ppc = "full" /\ Len(blocks) = 1 => ~roomy
  /\ ppc = "allocate" => ~roomy

(* Where the element of the enqueue under way is. *)
Placed ==
  /\ ppc # "idle" => element \in Elements
  /\ ppc = "publish" => Owns.data[Owns.tail] = element
  /\ ppc = "publishNext" => blocks[Owns.next].data[blocks[Owns.next].tail] = element
  /\ ppc = "advance" => In(blocks[Owns.next]) = <<element>>
  /\ ppc = "link" => In(blocks[Len(blocks)]) = <<element>>

(* What the call of the consumer under way has found. *)
Got ==
  /\ empty \in BOOLEAN
  /\ cpc \notin {"idle", "release"} => result = Nothing
  /\ cpc = "release" => result = blocks[frontBlock].data[blocks[frontBlock].front]
  /\ cpc = "tailBlock" /\ frontBlock = tailBlock => empty

Whole == Ranked /\ Capacity /\ Room /\ Placed /\ Got

LEMMA TheContents ==
  /\ Contents = ContentsFrom(blocks, frontBlock, tailBlock)
  /\ Contents' = ContentsFrom(blocks', frontBlock', tailBlock')
BY DEF Contents, ContentsFrom, Blocks

(* The ends of the queue, as blocks of the circle. *)
LEMMA CircleEnds ==
  ASSUME Inv
  PROVE  /\ frontBlock \in DOMAIN blocks /\ tailBlock \in DOMAIN blocks
         /\ Owns.next \in DOMAIN blocks /\ blocks \in Seq(Block)
         /\ Blocks = DOMAIN blocks /\ Len(blocks) \in Nat
BY Ends DEF Blocks, Inv, Shape

----------------------------------------------------------------------------
(* Steps that change no more of the blocks than the threads' own copies of *)
(* front and tail.                                                         *)
Same(old, new) ==
  new.front = old.front /\ new.tail = old.tail /\ new.next = old.next /\ new.data = old.data

Still ==
  /\ UNCHANGED <<frontBlock, tailBlock, largestBlockSize, queue>>
  /\ Len(blocks') = Len(blocks) /\ Blocks' = Blocks
  /\ \A b \in Blocks : Same(blocks[b], blocks'[b])

LEMMA SameTells ==
  ASSUME NEW old, NEW new, Same(old, new)
  PROVE  /\ In(new) = In(old) /\ Size(new) = Size(old)
         /\ Packed(new) <=> Packed(old)
<1>1. In(new) = In(old)
  BY InSame DEF Same
<1>2. Size(new) = Size(old) /\ new.front = old.front /\ new.tail = old.tail
  BY DEF Same, Size
<1> QED
  BY <1>1, <1>2 DEF Packed

(* The ranks are the same. *)
LEMMA RanksStay ==
  ASSUME Inv, Inv', NEW r, Ranks(r), UNCHANGED <<frontBlock, tailBlock>>,
         Len(blocks') = Len(blocks), Blocks' = Blocks, Far' = Far,
         \A b \in Blocks : blocks'[b].next = blocks[b].next,
         \A b \in Blocks : 0 < r[b] /\ r[b] < r[frontBlock] =>
                             (Packed(blocks[b]) => Packed(blocks'[b]))
  PROVE  Ranks(r)'
<1>1. Circle(blocks, tailBlock, Far, r)
  BY DEF Ranks
<1>2. /\ blocks' \in Seq(Block) /\ DOMAIN blocks' = DOMAIN blocks
      /\ \A b \in DOMAIN blocks : WellFormed(blocks'[b]) /\ blocks'[b].next = blocks[b].next
  BY DEF Inv, Shape, Blocks
<1>3. Circle(blocks', tailBlock, Far, r)
  BY <1>1, <1>2, CircleStays
<1> QED
  BY <1>3 DEF Ranks

LEMMA CapacityStays ==
  ASSUME Capacity, UNCHANGED <<largestBlockSize, queue>>,
         Len(blocks') = Len(blocks), Blocks' = Blocks,
         \A b \in Blocks : Size(blocks'[b]) = Size(blocks[b])
  PROVE  Capacity'
BY DEF Capacity, Holds, maxSize

(* So are the contents. *)
LEMMA KeptTells ==
  ASSUME Inv, Inv', Ranked, Capacity,
         UNCHANGED <<frontBlock, tailBlock, largestBlockSize, queue>>,
         Len(blocks') = Len(blocks), Blocks' = Blocks, ppc = "link" <=> ppc' = "link",
         \A b \in Blocks : /\ In(blocks'[b]) = In(blocks[b]) /\ Size(blocks'[b]) = Size(blocks[b])
                           /\ Packed(blocks'[b]) <=> Packed(blocks[b])
                           /\ blocks'[b].next = blocks[b].next
  PROVE  Ranked' /\ Capacity' /\ Contents' = Contents
<1>1. PICK r : Ranks(r)
  BY DEF Ranked
<1>2. Far' = Far
  BY DEF Far
<1>3. Ranks(r)'
  BY <1>1, <1>2, RanksStay
<1>4. Capacity'
  BY CapacityStays
<1>5. Contents' = Contents
  <2>1. Circle(blocks, tailBlock, Far, r) /\ Circle(blocks', tailBlock, Far, r)
    BY <1>1, <1>2, <1>3 DEF Ranks
  <2>2. Agree(blocks, blocks', tailBlock, r, r[frontBlock])
    BY DEF Agree, Blocks
  <2>3. frontBlock \in DOMAIN blocks
    BY CircleEnds
  <2>4. ContentsFrom(blocks', frontBlock, tailBlock) = ContentsFrom(blocks, frontBlock, tailBlock)
    BY <2>1, <2>2, <2>3, SameContents
  <2> QED
    BY <2>4, TheContents
<1> QED
  BY <1>3, <1>4, <1>5 DEF Ranked

LEMMA StillTells ==
  ASSUME Inv, Inv', Ranked, Capacity, Still, ppc = "link" <=> ppc' = "link"
  PROVE  /\ Ranked' /\ Capacity' /\ Contents' = Contents
         /\ \A b \in Blocks : In(blocks'[b]) = In(blocks[b]) /\ (Packed(blocks'[b]) <=> Packed(blocks[b]))
<1>1. \A b \in Blocks : /\ In(blocks'[b]) = In(blocks[b]) /\ Size(blocks'[b]) = Size(blocks[b])
                        /\ Packed(blocks'[b]) <=> Packed(blocks[b])
                        /\ blocks'[b].next = blocks[b].next
  BY SameTells DEF Still, Same
<1>2. /\ UNCHANGED <<frontBlock, tailBlock, largestBlockSize, queue>>
      /\ Len(blocks') = Len(blocks) /\ Blocks' = Blocks
  BY DEF Still
<1> QED
  BY <1>1, <1>2, KeptTells

(* A block is altered, or none. *)
LEMMA Alters ==
  ASSUME Inv, Inv', NEW t \in Blocks, NEW new, Altered(t, new)
  PROVE  /\ Len(blocks') = Len(blocks) /\ Blocks' = Blocks
         /\ blocks'[t] = new /\ \A b \in Blocks : b # t => blocks'[b] = blocks[b]
<1>1. /\ blocks \in Seq(Block) /\ blocks' \in Seq(Block)
      /\ blocks' = [blocks EXCEPT ![t] = new]
  BY DEF Inv, Shape, Altered
<1>2. /\ DOMAIN blocks' = 1..Len(blocks') /\ DOMAIN blocks = 1..Len(blocks)
      /\ Len(blocks') \in Nat /\ Len(blocks) \in Nat
  BY <1>1, LenProperties
<1>3. DOMAIN blocks' = DOMAIN blocks
  BY <1>1
<1>4. Len(blocks') = Len(blocks)
  <2>1. t \in 1..Len(blocks) /\ blocks'[t] = new /\ t \in 1..Len(blocks')
    BY <1>1, <1>2, <1>3 DEF Blocks
  <2>2. new \in Block
    BY <1>1, <2>1, ElementOfSeq
  <2> QED
    BY <1>1, <2>1, <2>2, ExceptSeq
<1> QED
  BY <1>1, <1>3, <1>4 DEF Blocks

LEMMA StillAltered ==
  ASSUME Inv, Inv', NEW t \in Blocks, NEW new, Altered(t, new), Same(blocks[t], new),
         UNCHANGED <<frontBlock, tailBlock>>
  PROVE  Still
<1>1. /\ Len(blocks') = Len(blocks) /\ Blocks' = Blocks
      /\ blocks'[t] = new /\ \A b \in Blocks : b # t => blocks'[b] = blocks[b]
  BY Alters
<1>2. \A b \in Blocks : Same(blocks[b], blocks'[b])
  BY <1>1 DEF Same
<1> QED
  BY <1>1, <1>2 DEF Still, Altered

LEMMA StillUnchanged ==
  ASSUME UNCHANGED <<blocks, frontBlock, tailBlock, largestBlockSize, queue>>
  PROVE  Still
BY DEF Still, Same, Blocks

----------------------------------------------------------------------------
(* The steps of the consumer. *)

(* What the producer knows of its blocks stays, when their elements do. *)
LEMMA RoomStays ==
  ASSUME Inv, Room, UNCHANGED <<tailBlock, ppc, roomy, queue>>,
         Len(blocks') = Len(blocks), frontBlock' = frontBlock \/ frontBlock # tailBlock,
         Len(Contents) \in Nat, Len(Contents') \in Nat, Len(Contents') <= Len(Contents),
         frontBlock # tailBlock => (Packed(Owns) => Packed(Owns'))
  PROVE  Room'
<1>1. ppc \in {"loadFront", "full"} /\ roomy => Len(Contents') < maxSize'
  <2>1. maxSize' = maxSize /\ maxSize \in Nat
    BY QueuesAssumption DEF maxSize, Inv, Shape
  <2> QED
    BY <2>1 DEF Room
<1>2. ppc \in {"full", "loadNext", "storeNext", "publishNext", "allocate", "link", "advance"}
        /\ tailBlock' # frontBlock' => Packed(Owns')
  BY DEF Room
<1> QED
  BY <1>1, <1>2 DEF Room

(* The consumer leaves the producer's element alone. *)
LEMMA PlacedStays ==
  ASSUME Inv, Placed, UNCHANGED <<tailBlock, ppc, element>>,
         Len(blocks') = Len(blocks), Blocks' = Blocks,
         \A b \in Blocks : /\ blocks'[b].next = blocks[b].next
                           /\ blocks'[b].tail = blocks[b].tail
                           /\ blocks'[b].data = blocks[b].data
                           /\ b # frontBlock => In(blocks'[b]) = In(blocks[b])
  PROVE  Placed'
<1>1. /\ tailBlock \in Blocks /\ Owns.next \in Blocks
      /\ ppc = "advance" => Owns.next # frontBlock
      /\ ppc = "link" => Len(blocks) \in Blocks /\ Len(blocks) # frontBlock
  <2>1. ppc = "link" => Len(blocks) \in Blocks /\ Len(blocks) # frontBlock
    BY Ends DEF Linked
  <2> QED
    BY <2>1, CircleEnds DEF Inv, ProducerSees
<1>2. Owns'.next = Owns.next /\ Owns'.data = Owns.data /\ Owns'.tail = Owns.tail
  BY <1>1 DEF Owns
<1>3. ppc = "publishNext" => blocks'[Owns'.next].data[blocks'[Owns'.next].tail] = element
  BY <1>1, <1>2 DEF Placed
<1>4. ppc = "advance" => In(blocks'[Owns'.next]) = <<element>>
  BY <1>1, <1>2 DEF Placed
<1>5. ppc = "link" => In(blocks'[Len(blocks')]) = <<element>>
  BY <1>1 DEF Placed
<1> QED
  BY <1>2, <1>3, <1>4, <1>5 DEF Placed

(* There are values in the queue, and a number of them. *)
LEMMA LenContents ==
  ASSUME Inv, Ranked
  PROVE  Contents \in Seq(Values) /\ Len(Contents) \in Nat
<1>1. PICK r : Circle(blocks, tailBlock, Far, r)
  BY DEF Ranked, Ranks
<1>2. Contents \in Seq(Values)
  BY <1>1, CircleEnds, Unfolds, TheContents
<1> QED
  BY <1>2, LenProperties

(* All but Got stays when the consumer only takes notes. *)
LEMMA ConsumerStill ==
  ASSUME Inv, Inv', Whole, Still, ConsumerOnly
  PROVE  Ranked' /\ Capacity' /\ Room' /\ Placed' /\ Contents' = Contents
<1>1. UNCHANGED <<frontBlock, tailBlock, ppc, element, roomy, queue>>
  BY DEF ConsumerOnly, producer, Still
<1>2. /\ Ranked' /\ Capacity' /\ Contents' = Contents
      /\ \A b \in Blocks : In(blocks'[b]) = In(blocks[b]) /\ (Packed(blocks'[b]) <=> Packed(blocks[b]))
  BY <1>1, StillTells DEF Whole
<1>3. /\ Len(blocks') = Len(blocks) /\ Blocks' = Blocks
      /\ \A b \in Blocks : /\ blocks'[b].next = blocks[b].next
                           /\ blocks'[b].tail = blocks[b].tail
                           /\ blocks'[b].data = blocks[b].data
  BY DEF Still, Same
<1>4. Len(Contents') \in Nat /\ Len(Contents) \in Nat /\ Len(Contents') <= Len(Contents)
  <2>1. Len(Contents) \in Nat
    BY LenContents DEF Whole
  <2> QED
    BY <1>2, <2>1
<1>5. Packed(Owns) => Packed(Owns')
  BY <1>1, <1>2, CircleEnds DEF Owns
<1>6. Room'
  BY <1>1, <1>3, <1>4, <1>5, RoomStays DEF Whole
<1>7. Placed'
  BY <1>1, <1>2, <1>3, PlacedStays DEF Whole
<1> QED
  BY <1>2, <1>6, <1>7

(* The first element of a block that is not empty. *)
LEMMA BlockFirst ==
  ASSUME NEW block, WellFormed(block), ~Vacant(block)
  PROVE  In(block) # <<>> /\ Head(In(block)) = block.data[block.front]
<1> DEFINE size == Size(block)
           count == Dist(size, block.front, block.tail)
<1>1. /\ size \in Sizes /\ block.front \in 0..(size - 1)
      /\ In(block) # <<>>
  BY BlockSize, InVacant DEF WellFormed
<1>2. /\ In(block) = [i \in 1..count |-> block.data[Slot(size, block.front, i - 1)]]
      /\ In(block) \in Seq(Values) /\ Len(In(block)) = count
  BY InIs
<1> HIDE DEF size, count
<1>3. count \in Nat /\ 1 \in 1..count
  <2>1. Len(In(block)) \in Nat \ {0}
    BY <1>1, <1>2, EmptySeq
  <2>2. count \in Nat \ {0}
    BY <1>2, <2>1
  <2> QED
    BY <2>2
<1>4. Slot(size, block.front, 0) = block.front
  BY <1>1 DEF Slot, Sizes
<1>5. Head(In(block)) = In(block)[1]
  BY <1>1, <1>2
<1>6. In(block)[1] = block.data[Slot(size, block.front, 0)]
  BY <1>2, <1>3
<1> QED
  BY <1>1, <1>4, <1>5, <1>6

(* What the consumer finds in the front block, or in the block after it    *)
(* when the front block is empty, is first in the queue.                   *)
LEMMA FoundFirst ==
  ASSUME Inv, Ranked, NEW b \in Blocks, ~Vacant(blocks[b]),
         \/ b = frontBlock
         \/ frontBlock # tailBlock /\ Vacant(blocks[frontBlock]) /\ b = blocks[frontBlock].next
  PROVE  Contents # <<>> /\ Head(Contents) = blocks[b].data[blocks[b].front]
<1>1. PICK r : Circle(blocks, tailBlock, Far, r)
  BY DEF Ranked, Ranks
<1>2. b \in DOMAIN blocks /\ WellFormed(blocks[b]) /\ frontBlock \in DOMAIN blocks
      /\ WellFormed(blocks[frontBlock])
  BY CircleEnds, Ends DEF Inv, Shape
<1>3. In(blocks[b]) # <<>> /\ Head(In(blocks[b])) = blocks[b].data[blocks[b].front]
  BY <1>2, BlockFirst
<1>4. /\ ContentsFrom(blocks, b, tailBlock) # <<>>
      /\ Head(ContentsFrom(blocks, b, tailBlock)) = blocks[b].data[blocks[b].front]
  BY <1>1, <1>2, <1>3, FirstIsFirst
<1>5. ContentsFrom(blocks, b, tailBlock) = Contents
  <2>1. CASE b = frontBlock
    BY <2>1, TheContents
  <2>2. CASE b # frontBlock
    <3>1. In(blocks[frontBlock]) = <<>>
      BY <1>2, <2>2, InVacant
    <3> QED
      BY <1>1, <1>2, <2>2, <3>1, LeftBehind, TheContents
  <2> QED
    BY <2>1, <2>2
<1> QED
  BY <1>4, <1>5

(* The front block is the tail block, and empty: so is the queue.          *)
LEMMA NothingThere ==
  ASSUME Inv, Ranked, frontBlock = tailBlock, Vacant(blocks[frontBlock])
  PROVE  Contents = <<>>
<1>1. PICK r : Circle(blocks, tailBlock, Far, r)
  BY DEF Ranked, Ranks
<1>2. frontBlock \in DOMAIN blocks /\ WellFormed(blocks[frontBlock])
  BY CircleEnds, Ends
<1> QED
  BY <1>1, <1>2, InVacant, Unfolds, TheContents

----------------------------------------------------------------------------
(* What CommandQueue sees of a state, and what it takes for a step of its  *)
(* own.                                                                    *)
Offered == IF ppc = "idle" THEN Nothing ELSE element
Answer == IF cpc = "release" THEN Nothing ELSE result

LEMMA AbstractSteps ==
  /\ UNCHANGED <<Contents, Offered, refused, Answer, empty>> => [Queue!Next]_(Queue!vars)
  /\ /\ Answer' = Nothing /\ empty' = FALSE
     /\ UNCHANGED <<Contents, Offered, refused>>
     => [Queue!Next]_(Queue!vars)
  /\ /\ Contents = <<>> /\ empty' = TRUE
     /\ UNCHANGED <<Contents, Offered, refused, Answer>>
     => [Queue!Next]_(Queue!vars)
  /\ /\ Contents # <<>> /\ Answer' = Head(Contents) /\ empty' = FALSE
     /\ UNCHANGED <<Contents, Offered, refused>>
     => [Queue!Next]_(Queue!vars)
  /\ /\ Contents # <<>> /\ Answer' = Head(Contents) /\ Contents' = Tail(Contents) /\ empty' = FALSE
     /\ UNCHANGED <<Offered, refused>>
     => [Queue!Next]_(Queue!vars)
  /\ /\ empty /\ empty' = FALSE
     /\ UNCHANGED <<Contents, Offered, refused, Answer>>
     => [Queue!Next]_(Queue!vars)
  /\ /\ Offered = Nothing /\ Offered' \in Elements
     /\ UNCHANGED <<Contents, refused, Answer, empty>>
     => [Queue!Next]_(Queue!vars)
  /\ /\ Offered # Nothing /\ Contents' = Append(Contents, Offered) /\ Offered' = Nothing
     /\ UNCHANGED <<refused, Answer, empty>>
     => [Queue!Next]_(Queue!vars)
  /\ /\ Offered # Nothing /\ Offered' = Nothing /\ refused' = refused + 1
     /\ UNCHANGED <<Contents, Answer, empty>>
     => [Queue!Next]_(Queue!vars)
<1>1. UNCHANGED <<Contents, Offered, refused, Answer, empty>> => [Queue!Next]_(Queue!vars)
  BY DEF Queue!vars, Offered, Answer
<1>2. /\ Answer' = Nothing /\ empty' = FALSE
      /\ UNCHANGED <<Contents, Offered, refused>>
      => [Queue!Next]_(Queue!vars)
  BY DEF Queue!Next, Queue!Call, Offered, Answer
<1>3. /\ Contents = <<>> /\ empty' = TRUE
      /\ UNCHANGED <<Contents, Offered, refused, Answer>>
      => [Queue!Next]_(Queue!vars)
  BY DEF Queue!Next, Queue!Notice, Offered, Answer
<1>4. /\ Contents # <<>> /\ Answer' = Head(Contents) /\ empty' = FALSE
      /\ UNCHANGED <<Contents, Offered, refused>>
      => [Queue!Next]_(Queue!vars)
  BY DEF Queue!Next, Queue!Peek, Offered, Answer
<1>5. /\ Contents # <<>> /\ Answer' = Head(Contents) /\ Contents' = Tail(Contents) /\ empty' = FALSE
      /\ UNCHANGED <<Offered, refused>>
      => [Queue!Next]_(Queue!vars)
  BY DEF Queue!Next, Queue!Dequeue, Offered, Answer
<1>6. /\ empty /\ empty' = FALSE
      /\ UNCHANGED <<Contents, Offered, refused, Answer>>
      => [Queue!Next]_(Queue!vars)
  BY DEF Queue!Next, Queue!None, Offered, Answer
<1>7. /\ Offered = Nothing /\ Offered' \in Elements
      /\ UNCHANGED <<Contents, refused, Answer, empty>>
      => [Queue!Next]_(Queue!vars)
  BY DEF Queue!Next, Queue!Offer, Offered, Answer
<1>8. /\ Offered # Nothing /\ Contents' = Append(Contents, Offered) /\ Offered' = Nothing
      /\ UNCHANGED <<refused, Answer, empty>>
      => [Queue!Next]_(Queue!vars)
  BY DEF Queue!Next, Queue!Put, Offered, Answer
<1>9. /\ Offered # Nothing /\ Offered' = Nothing /\ refused' = refused + 1
      /\ UNCHANGED <<Contents, Answer, empty>>
      => [Queue!Next]_(Queue!vars)
  BY DEF Queue!Next, Queue!Refuse, Offered, Answer
<1> QED
  BY <1>1, <1>2, <1>3, <1>4, <1>5, <1>6, <1>7, <1>8, <1>9

Mapped == [Queue!Next]_(Queue!vars)

LEMMA ConsumerOffers == ConsumerOnly => UNCHANGED <<Offered, refused>>
BY DEF ConsumerOnly, producer, Offered

(* Nothing found yet. *)
LEMMA NotYetMaps ==
  ASSUME Inv, Inv', Whole, Still, ConsumerOnly, NEW there, NotYet(there), UNCHANGED empty,
         cpc \notin {"idle", "release"}, there \notin {"idle", "release", "tailBlock"}
  PROVE  Whole' /\ Mapped
<1>1. Ranked' /\ Capacity' /\ Room' /\ Placed' /\ Contents' = Contents
  BY ConsumerStill
<1>2. result' = result /\ cpc' = there /\ result = Nothing /\ empty \in BOOLEAN
  BY DEF NotYet, Whole, Got
<1>3. Got'
  BY <1>2 DEF Got
<1>4. UNCHANGED <<Contents, Offered, refused, Answer, empty>>
  BY <1>1, <1>2, ConsumerOffers DEF Answer
<1> QED
  BY <1>1, <1>3, <1>4, AbstractSteps DEF Whole, Mapped

(* Something found. *)
LEMMA FoundMaps ==
  ASSUME Inv, Inv', Whole, Still, ConsumerOnly, NEW b \in Blocks, Found(b),
         cpc \notin {"idle", "release"}, ~Vacant(blocks[b]),
         \/ b = frontBlock
         \/ frontBlock # tailBlock /\ Vacant(blocks[frontBlock]) /\ b = blocks[frontBlock].next
  PROVE  Whole' /\ Mapped
<1>1. Ranked' /\ Capacity' /\ Room' /\ Placed' /\ Contents' = Contents
  BY ConsumerStill
<1>2. Contents # <<>> /\ Head(Contents) = blocks[b].data[blocks[b].front]
  BY FoundFirst DEF Whole
<1>3. result = Nothing /\ empty \in BOOLEAN /\ UNCHANGED <<Offered, refused>>
  BY ConsumerOffers DEF Whole, Got
<1>4. CASE op = "peek"
  <2>1. cpc' = "idle" /\ result' = Head(Contents) /\ empty' = FALSE
    BY <1>2, <1>4 DEF Found
  <2>2. Got'
    BY <2>1 DEF Got
  <2>3. Answer' = Head(Contents)
    BY <2>1 DEF Answer
  <2>4. Mapped
    BY <1>1, <1>2, <1>3, <2>1, <2>3, AbstractSteps DEF Mapped
  <2> QED
    BY <1>1, <2>2, <2>4 DEF Whole
<1>5. CASE op # "peek"
  <2>1. cpc' \in {"take", "advance"} /\ result' = result /\ empty' = empty
    BY <1>5 DEF Found
  <2>2. Got'
    BY <1>3, <2>1 DEF Got
  <2>3. Answer' = Answer
    BY <2>1 DEF Answer
  <2>4. Mapped
    BY <1>1, <1>3, <2>1, <2>3, AbstractSteps DEF Mapped
  <2> QED
    BY <1>1, <2>2, <2>4 DEF Whole
<1> QED
  BY <1>4, <1>5

LEMMA CallMaps == Inv /\ Inv' /\ Whole /\ Call => Whole' /\ Mapped
<1> SUFFICES ASSUME Inv, Inv', Whole, Call PROVE Whole' /\ Mapped
  OBVIOUS
<1>1. /\ UNCHANGED <<blocks, frontBlock>> /\ ConsumerOnly
      /\ cpc' = "look" /\ result' = Nothing /\ empty' = FALSE
  BY DEF Call
<1>2. Still
  BY <1>1, StillUnchanged DEF ConsumerOnly
<1>3. Ranked' /\ Capacity' /\ Room' /\ Placed' /\ Contents' = Contents
  BY <1>1, <1>2, ConsumerStill
<1>4. Got'
  BY <1>1 DEF Got
<1>5. Answer' = Nothing
  BY <1>1 DEF Answer
<1>6. Mapped
  BY <1>1, <1>3, <1>5, ConsumerOffers, AbstractSteps DEF Mapped
<1> QED
  BY <1>3, <1>4, <1>6 DEF Whole

LEMMA LookMaps == Inv /\ Inv' /\ Whole /\ Look => Whole' /\ Mapped
<1> SUFFICES ASSUME Inv, Inv', Whole, Look PROVE Whole' /\ Mapped
  OBVIOUS
<1>1. cpc = "look" /\ UNCHANGED <<blocks, frontBlock>> /\ ConsumerOnly
  BY DEF Look
<1>2. Still
  BY <1>1, StillUnchanged DEF ConsumerOnly
<1>3. CASE blocks[frontBlock].front # blocks[frontBlock].localTail
  <2>1. Found(frontBlock)
    BY <1>3 DEF Look
  <2>2. frontBlock \in Blocks /\ ~Vacant(blocks[frontBlock])
    BY <1>3, CircleEnds, Ends, Released
  <2> QED
    BY <1>1, <1>2, <2>1, <2>2, FoundMaps
<1>4. CASE blocks[frontBlock].front = blocks[frontBlock].localTail
  <2>1. NotYet("loadTail") /\ UNCHANGED empty
    BY <1>4 DEF Look
  <2> QED
    BY <1>1, <1>2, <2>1, NotYetMaps
<1> QED
  BY <1>3, <1>4

LEMMA ReadTailMaps ==
  ASSUME Inv, Inv', Whole, cpc \in {"loadTail", "again"}, NEW there \in {"tailBlock", "next"},
         ReadTail(there)
  PROVE  Whole' /\ Mapped
<1> DEFINE new == [blocks[frontBlock] EXCEPT !.localTail = blocks[frontBlock].tail]
<1>1. /\ blocks' = [blocks EXCEPT ![frontBlock] = new]
      /\ UNCHANGED frontBlock /\ ConsumerOnly
      /\ UNCHANGED <<tailBlock, largestBlockSize, queue>>
  BY DEF ReadTail, ConsumerOnly
<1>2. frontBlock \in Blocks /\ WellFormed(blocks[frontBlock])
  BY CircleEnds, Ends
<1>3. Same(blocks[frontBlock], new)
  BY <1>2 DEF Same, WellFormed, Block
<1> HIDE DEF new
<1>4. Still
  BY <1>1, <1>2, <1>3, StillAltered DEF Altered
<1>5. CASE blocks[frontBlock].front # blocks[frontBlock].tail
  <2>1. Found(frontBlock) /\ ~Vacant(blocks[frontBlock])
    BY <1>5 DEF ReadTail, Vacant
  <2> QED
    BY <1>1, <1>2, <1>4, <2>1, FoundMaps
<1>6. CASE blocks[frontBlock].front = blocks[frontBlock].tail
  <2>1. Ranked' /\ Capacity' /\ Room' /\ Placed' /\ Contents' = Contents
    BY <1>1, <1>4, ConsumerStill
  <2>2. /\ result' = result /\ cpc' = there /\ empty' = (empty \/ Contents = <<>>)
        /\ result = Nothing /\ empty \in BOOLEAN
    BY <1>6 DEF ReadTail, NotYet, Whole, Got
  <2>3. frontBlock = tailBlock => Contents = <<>>
    BY <1>6, NothingThere DEF Whole, Vacant
  <2>4. Got'
    BY <1>1, <2>2, <2>3 DEF Got
  <2>5. UNCHANGED <<Offered, refused, Answer>>
    BY <1>1, <2>2, ConsumerOffers DEF Answer
  <2>6. Mapped
    <3>1. CASE Contents = <<>>
      BY <2>1, <2>2, <2>5, <3>1, AbstractSteps DEF Mapped
    <3>2. CASE Contents # <<>>
      <4>1. empty' = empty
        BY <2>2, <3>2
      <4> QED
        BY <2>1, <2>5, <4>1, AbstractSteps DEF Mapped
    <3> QED
      BY <3>1, <3>2
  <2> QED
    BY <2>1, <2>4, <2>6 DEF Whole
<1> QED
  BY <1>5, <1>6

LEMMA LoadTailBlockMaps == Inv /\ Inv' /\ Whole /\ LoadTailBlock => Whole' /\ Mapped
<1> SUFFICES ASSUME Inv, Inv', Whole, LoadTailBlock PROVE Whole' /\ Mapped
  OBVIOUS
<1>1. cpc = "tailBlock" /\ UNCHANGED <<blocks, frontBlock>> /\ ConsumerOnly
  BY DEF LoadTailBlock
<1>2. Still
  BY <1>1, StillUnchanged DEF ConsumerOnly
<1>3. CASE frontBlock = tailBlock
  <2>1. cpc' = "idle" /\ result' = result /\ empty' = FALSE
    BY <1>3 DEF LoadTailBlock, NotYet
  <2>2. Ranked' /\ Capacity' /\ Room' /\ Placed' /\ Contents' = Contents
    BY <1>1, <1>2, ConsumerStill
  <2>3. empty /\ empty' = FALSE
    BY <1>1, <1>3, <2>1 DEF Whole, Got
  <2>4. Got'
    BY <2>1 DEF Got
  <2>5. UNCHANGED <<Contents, Offered, refused, Answer>>
    BY <1>1, <2>1, <2>2, ConsumerOffers DEF Answer
  <2>6. Mapped
    BY <2>3, <2>5, AbstractSteps DEF Mapped
  <2> QED
    BY <2>2, <2>4, <2>6 DEF Whole
<1>4. CASE frontBlock # tailBlock
  <2>1. NotYet("again") /\ UNCHANGED empty
    BY <1>4 DEF LoadTailBlock
  <2> QED
    BY <1>1, <1>2, <2>1, NotYetMaps
<1> QED
  BY <1>3, <1>4

LEMMA LoadNextBlockMaps == Inv /\ Inv' /\ Whole /\ LoadNextBlock => Whole' /\ Mapped
<1> SUFFICES ASSUME Inv, Inv', Whole, LoadNextBlock PROVE Whole' /\ Mapped
  OBVIOUS
<1>1. /\ cpc = "next" /\ UNCHANGED <<blocks, frontBlock>> /\ ConsumerOnly
      /\ NotYet("loadNextTail") /\ UNCHANGED empty
  BY DEF LoadNextBlock
<1>2. Still
  BY <1>1, StillUnchanged DEF ConsumerOnly
<1> QED
  BY <1>1, <1>2, NotYetMaps

LEMMA LoadNextTailMaps == Inv /\ Inv' /\ Whole /\ LoadNextTail => Whole' /\ Mapped
<1> SUFFICES ASSUME Inv, Inv', Whole, LoadNextTail PROVE Whole' /\ Mapped
  OBVIOUS
<1> DEFINE new == [blocks[nextBlock] EXCEPT !.localTail = blocks[nextBlock].tail]
<1>1. /\ cpc = "loadNextTail" /\ UNCHANGED frontBlock /\ ConsumerOnly /\ Found(nextBlock)
      /\ UNCHANGED <<tailBlock, largestBlockSize, queue>>
      /\ blocks' = blocks \/ blocks' = [blocks EXCEPT ![nextBlock] = new]
  BY DEF LoadNextTail, ConsumerOnly
<1>2. /\ nextBlock \in Blocks /\ nextBlock = blocks[frontBlock].next /\ frontBlock # tailBlock
      /\ Vacant(blocks[frontBlock]) /\ ~Vacant(blocks[nextBlock]) /\ WellFormed(blocks[nextBlock])
  BY <1>1, Ends DEF Inv, ConsumerSees, Shape
<1>3. Same(blocks[nextBlock], new)
  BY <1>2 DEF Same, WellFormed, Block
<1> HIDE DEF new
<1>4. Still
  <2>1. CASE blocks' = blocks
    BY <1>1, <2>1, StillUnchanged
  <2>2. CASE blocks' = [blocks EXCEPT ![nextBlock] = new]
    BY <1>1, <1>2, <1>3, <2>2, StillAltered DEF Altered
  <2> QED
    BY <1>1, <2>1, <2>2
<1> QED
  BY <1>1, <1>2, <1>4, FoundMaps

LEMMA TakeMaps == Inv /\ Inv' /\ Whole /\ Take => Whole' /\ Mapped
<1> SUFFICES ASSUME Inv, Inv', Whole, Take PROVE Whole' /\ Mapped
  OBVIOUS
<1>1. /\ cpc = "take" /\ cpc' = "release" /\ UNCHANGED <<blocks, frontBlock, empty>> /\ ConsumerOnly
      /\ result' = blocks[frontBlock].data[blocks[frontBlock].front]
  BY DEF Take
<1>2. Still
  BY <1>1, StillUnchanged DEF ConsumerOnly
<1>3. Ranked' /\ Capacity' /\ Room' /\ Placed' /\ Contents' = Contents
  BY <1>1, <1>2, ConsumerStill
<1>4. empty \in BOOLEAN /\ result = Nothing
  BY <1>1 DEF Whole, Got
<1>5. Got'
  BY <1>1, <1>4 DEF Got
<1>6. UNCHANGED <<Contents, Offered, refused, Answer, empty>>
  BY <1>1, <1>3, <1>4, ConsumerOffers DEF Answer
<1> QED
  BY <1>3, <1>5, <1>6, AbstractSteps DEF Whole, Mapped

LEMMA AdvanceFrontMaps == Inv /\ Inv' /\ Whole /\ AdvanceFront => Whole' /\ Mapped
<1> SUFFICES ASSUME Inv, Inv', Whole, AdvanceFront PROVE Whole' /\ Mapped
  OBVIOUS
<1>1. /\ cpc = "advance" /\ cpc' = "take" /\ frontBlock' = nextBlock
      /\ UNCHANGED <<blocks, result, empty>> /\ ConsumerOnly
      /\ UNCHANGED <<tailBlock, largestBlockSize, ppc, element, roomy, refused, queue>>
  BY DEF AdvanceFront, ConsumerOnly, producer
<1>2. /\ nextBlock = blocks[frontBlock].next /\ frontBlock # tailBlock
      /\ Vacant(blocks[frontBlock])
      /\ frontBlock \in DOMAIN blocks /\ nextBlock \in DOMAIN blocks
      /\ WellFormed(blocks[frontBlock])
  BY <1>1, CircleEnds, Ends DEF Inv, ConsumerSees, Shape
<1>3. In(blocks[frontBlock]) = <<>>
  BY <1>2, InVacant
<1>4. PICK r : Ranks(r)
  BY DEF Whole, Ranked
<1>5. Circle(blocks, tailBlock, Far, r) /\ Far' = Far /\ Blocks' = Blocks
  BY <1>1, <1>4 DEF Ranks, Far, Blocks
<1>6. Contents' = Contents
  BY <1>1, <1>2, <1>3, <1>5, LeftBehind, TheContents
<1>7. Ranked'
  <2>1. /\ r[frontBlock] = r[nextBlock] + 1 /\ Blocks = DOMAIN blocks
        /\ \A b \in DOMAIN blocks : r[b] \in Nat
    BY <1>2, <1>5, CircleFalls, CircleEnds DEF Circular
  <2>2. \A b \in Blocks : r[b] < r[nextBlock] => r[b] < r[frontBlock]
    BY <1>2, <2>1
  <2>3. Ranks(r)'
    BY <1>1, <1>4, <1>5, <2>2 DEF Ranks
  <2> QED
    BY <2>3 DEF Ranked
<1>8. Capacity'
  BY <1>1, <1>5, CapacityStays DEF Whole
<1>9. Room'
  <2>1. Len(Contents) \in Nat
    BY LenContents DEF Whole
  <2>2. Len(Contents') \in Nat /\ Len(Contents') <= Len(Contents) /\ Owns' = Owns
    BY <1>1, <1>6, <2>1 DEF Owns
  <2> QED
    BY <1>1, <1>2, <2>1, <2>2, RoomStays DEF Whole
<1>10. Placed'
  BY <1>1, <1>5, PlacedStays DEF Whole
<1>11. empty \in BOOLEAN /\ result = Nothing
  BY <1>1 DEF Whole, Got
<1>12. Got'
  BY <1>1, <1>11 DEF Got
<1>13. UNCHANGED <<Contents, Offered, refused, Answer, empty>>
  BY <1>1, <1>6 DEF Answer, Offered
<1> QED
  BY <1>7, <1>8, <1>9, <1>10, <1>12, <1>13, AbstractSteps DEF Whole, Mapped

LEMMA ReleaseMaps == Inv /\ Inv' /\ Whole /\ Release => Whole' /\ Mapped
<1> SUFFICES ASSUME Inv, Inv', Whole, Release PROVE Whole' /\ Mapped
  OBVIOUS
<1> DEFINE old == blocks[frontBlock]
           new == [old EXCEPT !.front = Follow(Size(old), old.front)]
<1>1. /\ cpc = "release" /\ cpc' = "idle" /\ empty' = FALSE
      /\ UNCHANGED <<frontBlock, result>> /\ ConsumerOnly
      /\ UNCHANGED <<tailBlock, largestBlockSize, ppc, element, roomy, refused, queue>>
  BY DEF Release, ConsumerOnly, producer
<1>2. frontBlock \in Blocks /\ WellFormed(old)
  BY CircleEnds, Ends
<1>3. Altered(frontBlock, new)
  BY <1>1, <1>2, TailFollows DEF Release, Altered
<1>4. ~Vacant(old) /\ WellFormed(new)
  BY <1>1, <1>2, Released DEF Inv, ConsumerSees
<1>5. /\ In(old) # <<>> /\ Head(In(old)) = old.data[old.front] /\ In(new) = Tail(In(old))
  BY <1>2, <1>4, InReleased
<1>6. new.tail = old.tail /\ new.next = old.next /\ new.data = old.data /\ Size(new) = Size(old)
  BY <1>2 DEF WellFormed, Block, Size
<1> HIDE DEF new, old
<1>7. /\ Len(blocks') = Len(blocks) /\ Blocks' = Blocks
      /\ blocks'[frontBlock] = new /\ \A b \in Blocks : b # frontBlock => blocks'[b] = blocks[b]
  BY <1>2, <1>3, Alters
<1>8. \A b \in Blocks : /\ blocks'[b].next = blocks[b].next
                        /\ blocks'[b].tail = blocks[b].tail
                        /\ blocks'[b].data = blocks[b].data
                        /\ Size(blocks'[b]) = Size(blocks[b])
                        /\ b # frontBlock => In(blocks'[b]) = In(blocks[b])
  BY <1>6, <1>7 DEF old
<1>9. PICK r : Ranks(r)
  BY DEF Whole, Ranked
<1>10. Far' = Far
  BY <1>1, <1>7 DEF Far
<1>11. Ranks(r)'
  <2>1. \A b \in Blocks : r[b] \in Nat
    BY <1>9, CircleFalls DEF Ranks, Circular, Blocks
  <2>2. \A b \in Blocks : r[b] < r[frontBlock] => b # frontBlock
    BY <1>2, <2>1
  <2>3. \A b \in Blocks : 0 < r[b] /\ r[b] < r[frontBlock] =>
                             (Packed(blocks[b]) => Packed(blocks'[b]))
    BY <1>7, <2>2
  <2> QED
    BY <1>1, <1>7, <1>8, <1>9, <1>10, <2>3, RanksStay
<1>12. Contents' = Tail(Contents) /\ Contents # <<>> /\ Head(Contents) = old.data[old.front]
  <2>1. /\ Circle(blocks, tailBlock, Far, r) /\ Circle(blocks', tailBlock, Far, r)
    BY <1>1, <1>9, <1>10, <1>11 DEF Ranks
  <2>2. /\ frontBlock \in DOMAIN blocks /\ DOMAIN blocks' = DOMAIN blocks
        /\ In(blocks[frontBlock]) # <<>>
        /\ In(blocks'[frontBlock]) = Tail(In(blocks[frontBlock]))
        /\ \A b \in DOMAIN blocks : b # frontBlock => In(blocks'[b]) = In(blocks[b])
        /\ \A b \in DOMAIN blocks : blocks'[b].next = blocks[b].next
    BY <1>2, <1>5, <1>7, <1>8 DEF Blocks, old
  <2>3. ContentsFrom(blocks', frontBlock, tailBlock) = Tail(ContentsFrom(blocks, frontBlock, tailBlock))
    BY <2>1, <2>2, TakenOut
  <2>4. /\ ContentsFrom(blocks, frontBlock, tailBlock) # <<>>
        /\ Head(ContentsFrom(blocks, frontBlock, tailBlock)) = Head(In(blocks[frontBlock]))
    BY <2>1, <2>2, FirstIsFirst
  <2> QED
    BY <1>1, <1>5, <2>3, <2>4, TheContents DEF old
<1>13. Capacity'
  BY <1>1, <1>7, <1>8, CapacityStays DEF Whole
<1>14. Room'
  <2>1. Contents \in Seq(Values) /\ Len(Contents) \in Nat
    BY LenContents DEF Whole
  <2>2. Len(Contents') = Len(Contents) - 1 /\ Contents' \in Seq(Values)
    BY <1>12, <2>1, HeadTailProperties
  <2>3. Len(Contents') \in Nat
    BY <2>2, LenProperties
  <2>4. Len(Contents') <= Len(Contents)
    BY <2>1, <2>2
  <2>5. frontBlock # tailBlock => (Packed(Owns) => Packed(Owns'))
    BY <1>1, <1>7, CircleEnds DEF Owns
  <2> QED
    BY <1>1, <1>7, <2>1, <2>3, <2>4, <2>5, RoomStays DEF Whole
<1>15. Placed'
  BY <1>1, <1>7, <1>8, PlacedStays DEF Whole
<1>16. Got'
  BY <1>1 DEF Got
<1>17. Answer' = Head(Contents)
  <2>1. result = old.data[old.front]
    BY <1>1 DEF Whole, Got, old
  <2> QED
    BY <1>1, <1>12, <2>1 DEF Answer
<1>18. Mapped
  BY <1>1, <1>12, <1>17, ConsumerOffers, AbstractSteps DEF Mapped
<1> QED
  BY <1>11, <1>13, <1>14, <1>15, <1>16, <1>18 DEF Whole, Ranked

LEMMA ConsumerMaps == Inv /\ Inv' /\ Whole /\ Consumer => Whole' /\ Mapped
<1> SUFFICES ASSUME Inv, Inv', Whole, Consumer PROVE Whole' /\ Mapped
  OBVIOUS
<1>1. CASE LoadTail
  BY <1>1, ReadTailMaps DEF LoadTail
<1>2. CASE Again
  BY <1>2, ReadTailMaps DEF Again
<1> QED
  BY <1>1, <1>2, CallMaps, LookMaps, LoadTailBlockMaps, LoadNextBlockMaps, LoadNextTailMaps,
     AdvanceFrontMaps, TakeMaps, ReleaseMaps DEF Consumer

----------------------------------------------------------------------------
(* The steps of the producer. *)

(* The consumer keeps what it has found. *)
LEMMA GotStays ==
  ASSUME Inv, Got, UNCHANGED <<frontBlock, cpc, result, empty>>,
         tailBlock' = tailBlock \/ tailBlock' # frontBlock,
         cpc = "release" =>
           /\ blocks'[frontBlock].front = blocks[frontBlock].front
           /\ blocks'[frontBlock].data[blocks[frontBlock].front]
                = blocks[frontBlock].data[blocks[frontBlock].front]
  PROVE  Got'
BY DEF Got

(* All but Room and Placed stays when the producer only takes notes. *)
LEMMA ProducerStill ==
  ASSUME Inv, Inv', Whole, Still, UNCHANGED consumer, ppc = "link" <=> ppc' = "link"
  PROVE  /\ Ranked' /\ Capacity' /\ Got' /\ Contents' = Contents
         /\ UNCHANGED <<Answer, empty>>
         /\ Owns'.next = Owns.next /\ (Packed(Owns') <=> Packed(Owns))
<1>1. UNCHANGED <<frontBlock, tailBlock, cpc, result, empty>>
  BY DEF Still, consumer
<1>2. /\ Ranked' /\ Capacity' /\ Contents' = Contents
      /\ \A b \in Blocks : In(blocks'[b]) = In(blocks[b]) /\ (Packed(blocks'[b]) <=> Packed(blocks[b]))
  BY StillTells DEF Whole
<1>3. frontBlock \in Blocks /\ tailBlock \in Blocks
  BY CircleEnds
<1>4. Got'
  BY <1>1, <1>3, GotStays DEF Whole, Still, Same
<1>5. Owns'.next = Owns.next /\ (Packed(Owns') <=> Packed(Owns))
  BY <1>1, <1>2, <1>3 DEF Owns, Still, Same
<1> QED
  BY <1>1, <1>2, <1>4, <1>5 DEF Answer

(* Between two steps of an enqueue, CommandQueue sees nothing. *)
LEMMA Between ==
  ASSUME UNCHANGED <<Contents, refused, Answer, empty, element>>, ppc # "idle", ppc' # "idle"
  PROVE  Mapped
BY AbstractSteps DEF Mapped, Offered

LEMMA EnqueueMaps == Inv /\ Inv' /\ Whole /\ Enqueue => Whole' /\ Mapped
<1> SUFFICES ASSUME Inv, Inv', Whole, Enqueue PROVE Whole' /\ Mapped
  OBVIOUS
<1>1. /\ UNCHANGED <<blocks, frontBlock, tailBlock, largestBlockSize, refused, consumer, queue>>
      /\ ppc = "idle" /\ ppc' \in {"store", "loadFront"}
      /\ element' = element + 1 /\ element < MaxElements /\ roomy' = (Len(Contents) < maxSize)
  BY DEF Enqueue
<1>2. Still
  BY <1>1, StillUnchanged
<1>3. /\ Ranked' /\ Capacity' /\ Got' /\ Contents' = Contents
      /\ UNCHANGED <<Answer, empty>>
  BY <1>1, <1>2, ProducerStill
<1>4. element' \in Elements
  BY <1>1, ElementsAssumption DEF Inv, Shape, Elements
<1>5. Room'
  <2>1. maxSize' = maxSize
    BY <1>1 DEF maxSize
  <2> QED
    BY <1>1, <1>3, <2>1 DEF Room
<1>6. Placed'
  <2>1. Elements' = Elements
    BY DEF Elements
  <2> QED
    BY <1>1, <1>4, <2>1 DEF Placed
<1>7. Offered = Nothing /\ Offered' \in Elements
  BY <1>1, <1>4 DEF Offered
<1>8. Mapped
  BY <1>1, <1>3, <1>7, AbstractSteps DEF Mapped
<1> QED
  BY <1>3, <1>5, <1>6, <1>8 DEF Whole

(* A block with no slot to spare. *)
LEMMA PackedLen ==
  ASSUME NEW block, WellFormed(block), Packed(block)
  PROVE  Len(In(block)) = Size(block) - 1
<1>1. /\ Size(block) \in Sizes /\ block.front \in 0..(Size(block) - 1)
      /\ block.tail \in 0..(Size(block) - 1)
  BY BlockSize DEF WellFormed
<1>2. PICK size, i, j, n :
        size = Size(block) /\ i = block.front /\ j = block.tail /\ n = Dist(size, i, j)
  OBVIOUS
<1>3. size \in Sizes /\ i \in 0..(size - 1) /\ j \in 0..(size - 1) /\ Follow(size, j) = i
  BY <1>1, <1>2 DEF Packed
<1>4. n \in 0..(size - 1) /\ ~(n < size - 1)
  BY <1>2, <1>3, Distances DEF Measured
<1>5. n = size - 1
  BY <1>3, <1>4 DEF Sizes
<1>6. Len(In(block)) = n
  BY <1>2, InIs
<1> QED
  BY <1>2, <1>5, <1>6

LEMMA LoadFrontMaps == Inv /\ Inv' /\ Whole /\ LoadFront => Whole' /\ Mapped
<1> SUFFICES ASSUME Inv, Inv', Whole, LoadFront PROVE Whole' /\ Mapped
  OBVIOUS
<1> DEFINE new == [Owns EXCEPT !.localFront = Owns.front]
<1>1. /\ UNCHANGED <<frontBlock, tailBlock, largestBlockSize, element, roomy, refused, queue, consumer>>
      /\ ppc = "loadFront" /\ ppc' = IF NextTail # Owns.front THEN "store" ELSE "full"
  BY DEF LoadFront, ProducerGoes
<1>2. tailBlock \in Blocks /\ WellFormed(Owns) /\ Altered(tailBlock, new)
  BY <1>1, CircleEnds, Ends DEF LoadFront, Altered, Owns
<1>3. Same(blocks[tailBlock], new)
  BY <1>2 DEF Same, WellFormed, Block, Owns
<1> HIDE DEF new
<1>4. Still
  BY <1>1, <1>2, <1>3, StillAltered
<1>5. /\ Ranked' /\ Capacity' /\ Got' /\ Contents' = Contents
      /\ UNCHANGED <<Answer, empty>> /\ (Packed(Owns') <=> Packed(Owns))
  BY <1>1, <1>4, ProducerStill
<1>6. ppc' = "full" => Packed(Owns)
  BY <1>1, TailFollows DEF Packed
<1>7. maxSize' = maxSize /\ Len(blocks') = Len(blocks) /\ maxSize \in Nat
  BY <1>1, <1>4, QueuesAssumption DEF maxSize, Still, Inv, Shape
<1>8. ASSUME ppc' = "full", Len(blocks) = 1
      PROVE  ~roomy
  <2>1. PICK r : Circle(blocks, tailBlock, Far, r)
    BY DEF Whole, Ranked, Ranks
  <2>2. PICK least : Holds(least)
    BY DEF Whole, Capacity
  <2>3. frontBlock = tailBlock
    BY <1>8, Ends
  <2>4. Contents = In(Owns)
    BY <2>1, <2>3, CircleEnds, Unfolds, TheContents DEF Owns
  <2>5. Size(Owns) > least /\ least \in Nat /\ least >= maxSize /\ Size(Owns) \in Nat
    BY <1>2, <1>8, <2>2, BlockSize DEF Holds, Owns, Sizes, WellFormed
  <2>6. Len(Contents) = Size(Owns) - 1
    BY <1>2, <1>6, <1>8, <2>4, PackedLen
  <2>7. roomy => Len(Contents) < maxSize
    BY <1>1 DEF Whole, Room
  <2> QED
    BY <1>7, <2>5, <2>6, <2>7
<1>9. Room'
  BY <1>1, <1>5, <1>6, <1>7, <1>8 DEF Whole, Room
<1>10. Placed'
  BY <1>1 DEF Whole, Placed, Elements
<1>11. Mapped
  BY <1>1, <1>5, Between
<1> QED
  BY <1>5, <1>9, <1>10, <1>11 DEF Whole

(* No block is free when the block after the tail block is the front       *)
(* block.  It is the furthest from the tail, the blocks between them and   *)
(* the tail block are full, and so the queue holds maxSize elements.       *)
LEMMA FullMaps == Inv /\ Inv' /\ Whole /\ Full => Whole' /\ Mapped
<1> SUFFICES ASSUME Inv, Inv', Whole, Full PROVE Whole' /\ Mapped
  OBVIOUS
<1>1. /\ UNCHANGED <<blocks, frontBlock, tailBlock, largestBlockSize, element, roomy, refused, queue, consumer>>
      /\ ppc = "full" /\ ppc' = IF Owns.next # frontBlock THEN "loadNext" ELSE "allocate"
  BY DEF Full, ProducerGoes
<1>2. Still
  BY <1>1, StillUnchanged
<1>3. /\ Ranked' /\ Capacity' /\ Got' /\ Contents' = Contents
      /\ UNCHANGED <<Answer, empty>> /\ (Packed(Owns') <=> Packed(Owns))
  BY <1>1, <1>2, ProducerStill
<1>4. ASSUME ppc' = "allocate"
      PROVE  ~roomy
  <2>1. CASE Len(blocks) = 1
    BY <1>1, <2>1 DEF Whole, Room
  <2>2. CASE Len(blocks) # 1
    <3>1. PICK r : Ranks(r)
      BY DEF Whole, Ranked
    <3>2. PICK least : Holds(least)
      BY DEF Whole, Capacity
    <3>3. PICK far : far = Len(blocks) - 1
      OBVIOUS
    <3>4. Circle(blocks, tailBlock, far, r)
      BY <1>1, <3>1, <3>3 DEF Ranks, Far
    <3>5. Circular(blocks, tailBlock, far, r)
      BY <3>4, CircleFalls
    <3>6. far \in Nat /\ far > 0
      BY <2>2, <3>3, <3>5 DEF Circular
    <3>7. frontBlock = Owns.next
      BY <1>1, <1>4
    <3>8. r[frontBlock] = far /\ r[tailBlock] = 0 /\ frontBlock # tailBlock
      BY <3>5, <3>6, <3>7 DEF Circular, Owns
    <3>9. /\ least \in Nat /\ far * least >= maxSize
          /\ \A b \in Blocks : Size(blocks[b]) > least
      BY <2>2, <3>2, <3>3 DEF Holds
    <3>10. ASSUME NEW b \in DOMAIN blocks, r[b] < r[frontBlock]
           PROVE  Len(In(blocks[b])) >= least
      <4>1. Packed(blocks[b])
        <5>1. CASE r[b] = 0
          <6>1. b = tailBlock
            BY <3>5, <3>8, <5>1 DEF Circular
          <6> QED
            BY <1>1, <3>8, <6>1 DEF Whole, Room, Owns
        <5>2. CASE r[b] # 0
          <6>1. 0 < r[b]
            BY <3>5, <5>2 DEF Circular
          <6> QED
            BY <3>1, <3>10, <6>1 DEF Ranks, Blocks
        <5> QED
          BY <5>1, <5>2
      <4>2. WellFormed(blocks[b]) /\ Size(blocks[b]) \in Nat
        BY BlockSize DEF Inv, Shape, Blocks, WellFormed, Sizes
      <4>3. Len(In(blocks[b])) = Size(blocks[b]) - 1
        BY <4>1, <4>2, PackedLen
      <4>4. Size(blocks[b]) > least
        BY <3>9 DEF Blocks
      <4> QED
        BY <3>9, <4>2, <4>3, <4>4
    <3>11. Len(Contents) >= r[frontBlock] * least
      BY <3>4, <3>9, <3>10, CircleEnds, LongEnough, TheContents
    <3>12. Len(Contents) >= far * least
      BY <3>8, <3>11
    <3>13. roomy => Len(Contents) < maxSize
      BY <1>1 DEF Whole, Room
    <3>14. PICK all : all = far * least
      OBVIOUS
    <3>15. all \in Nat /\ maxSize \in Nat /\ Len(Contents) \in Nat
      BY <3>6, <3>9, <3>14, LenContents, QueuesAssumption DEF Whole, maxSize, Inv, Shape
    <3> QED
      BY <3>9, <3>12, <3>13, <3>14, <3>15
  <2> QED
    BY <2>1, <2>2
<1>5. Room'
  BY <1>1, <1>3, <1>4 DEF Whole, Room
<1>6. Placed'
  BY <1>1 DEF Whole, Placed, Elements
<1>7. Mapped
  BY <1>1, <1>3, Between
<1> QED
  BY <1>3, <1>5, <1>6, <1>7 DEF Whole

LEMMA LoadNextMaps == Inv /\ Inv' /\ Whole /\ LoadNext => Whole' /\ Mapped
<1> SUFFICES ASSUME Inv, Inv', Whole, LoadNext PROVE Whole' /\ Mapped
  OBVIOUS
<1> DEFINE new == [blocks[Owns.next] EXCEPT !.localFront = blocks[Owns.next].front]
<1>1. /\ UNCHANGED <<frontBlock, tailBlock, largestBlockSize, element, roomy, refused, queue, consumer>>
      /\ ppc = "loadNext" /\ ppc' = "storeNext"
  BY DEF LoadNext, ProducerGoes
<1>2. Owns.next \in Blocks /\ Altered(Owns.next, new)
  BY <1>1, CircleEnds DEF LoadNext, Altered
<1>3. Same(blocks[Owns.next], new)
  BY <1>2 DEF Same, WellFormed, Block, Inv, Shape
<1> HIDE DEF new
<1>4. Still
  BY <1>1, <1>2, <1>3, StillAltered
<1>5. /\ Ranked' /\ Capacity' /\ Got' /\ Contents' = Contents
      /\ UNCHANGED <<Answer, empty>> /\ (Packed(Owns') <=> Packed(Owns))
  BY <1>1, <1>4, ProducerStill
<1>6. Room'
  BY <1>1, <1>5 DEF Whole, Room
<1>7. Placed'
  BY <1>1 DEF Whole, Placed, Elements
<1>8. Mapped
  BY <1>1, <1>5, Between
<1> QED
  BY <1>5, <1>6, <1>7, <1>8 DEF Whole

(* An element is written to a slot that is not in the queue yet.           *)
LEMMA WritingTells ==
  ASSUME Inv, Inv', Whole, NEW t \in Blocks,
         Altered(t, [blocks[t] EXCEPT !.data[blocks[t].tail] = element]),
         UNCHANGED <<frontBlock, tailBlock, consumer>>, {ppc, ppc'} \cap {"link"} = {}
  PROVE  /\ Ranked' /\ Capacity' /\ Got' /\ Contents' = Contents
         /\ UNCHANGED <<Answer, empty>>
         /\ blocks'[t].data[blocks[t].tail] = element
         /\ blocks'[t].tail = blocks[t].tail /\ blocks'[t].next = blocks[t].next
         /\ \A b \in Blocks : b # t => blocks'[b] = blocks[b]
<1> DEFINE old == blocks[t]
           new == [old EXCEPT !.data[old.tail] = element]
<1>1. /\ WellFormed(old) /\ element \in Values /\ old.tail \in 0..(Size(old) - 1)
      /\ old \in Block /\ old.data \in [0..(Size(old) - 1) -> Values]
  BY BlockSize DEF Inv, Shape, Values, WellFormed
<1>2. /\ Len(blocks') = Len(blocks) /\ Blocks' = Blocks
      /\ blocks'[t] = new /\ \A b \in Blocks : b # t => blocks'[b] = blocks[b]
  BY Alters
<1>3. /\ new.front = old.front /\ new.tail = old.tail /\ new.next = old.next
      /\ new.data = [old.data EXCEPT ![old.tail] = element]
  BY <1>1 DEF Block
<1>4. In(new) = In(old)
  BY <1>1, InWritten
<1>5. Size(new) = Size(old)
  BY <1>3 DEF Size
<1>6. new.data[old.tail] = element /\ (old.front # old.tail => new.data[old.front] = old.data[old.front])
  BY <1>1, <1>3 DEF WellFormed
<1> HIDE DEF new, old
<1>7. \A b \in Blocks : /\ In(blocks'[b]) = In(blocks[b]) /\ Size(blocks'[b]) = Size(blocks[b])
                        /\ Packed(blocks'[b]) <=> Packed(blocks[b])
                        /\ blocks'[b].next = blocks[b].next
  BY <1>2, <1>3, <1>4, <1>5 DEF Packed, old
<1>8. UNCHANGED <<frontBlock, tailBlock, largestBlockSize, queue, cpc, result, empty>>
  BY DEF Altered, consumer
<1>9. Ranked' /\ Capacity' /\ Contents' = Contents
  BY <1>2, <1>7, <1>8, KeptTells DEF Whole
<1>10. Got'
  <2>1. frontBlock \in Blocks
    BY CircleEnds
  <2>2. cpc = "release" => ~Vacant(blocks[frontBlock])
    BY Ends, Released DEF Inv, ConsumerSees
  <2>3. cpc = "release" =>
          /\ blocks'[frontBlock].front = blocks[frontBlock].front
          /\ blocks'[frontBlock].data[blocks[frontBlock].front]
               = blocks[frontBlock].data[blocks[frontBlock].front]
    BY <1>2, <1>3, <1>6, <2>1, <2>2 DEF Vacant, old
  <2> QED
    BY <1>8, <2>3, GotStays DEF Whole
<1> QED
  BY <1>2, <1>3, <1>6, <1>8, <1>9, <1>10 DEF Answer, old

LEMMA StoreMaps == Inv /\ Inv' /\ Whole /\ Store => Whole' /\ Mapped
<1> SUFFICES ASSUME Inv, Inv', Whole, Store PROVE Whole' /\ Mapped
  OBVIOUS
<1>1. /\ UNCHANGED <<frontBlock, tailBlock, element, refused, consumer>>
      /\ ppc = "store" /\ ppc' = "publish" /\ tailBlock \in Blocks
      /\ Altered(tailBlock, [blocks[tailBlock] EXCEPT !.data[blocks[tailBlock].tail] = element])
  BY CircleEnds DEF Store, ProducerGoes, Altered, Owns
<1>2. /\ Ranked' /\ Capacity' /\ Got' /\ Contents' = Contents
      /\ UNCHANGED <<Answer, empty>>
      /\ blocks'[tailBlock].data[blocks[tailBlock].tail] = element
      /\ blocks'[tailBlock].tail = blocks[tailBlock].tail
  BY <1>1, WritingTells
<1>3. Room'
  BY <1>1 DEF Room
<1>4. Placed'
  BY <1>1, <1>2 DEF Whole, Placed, Elements, Owns
<1>5. Mapped
  BY <1>1, <1>2, Between
<1> QED
  BY <1>2, <1>3, <1>4, <1>5 DEF Whole

LEMMA StoreNextMaps == Inv /\ Inv' /\ Whole /\ StoreNext => Whole' /\ Mapped
<1> SUFFICES ASSUME Inv, Inv', Whole, StoreNext PROVE Whole' /\ Mapped
  OBVIOUS
<1> DEFINE t == Owns.next
<1>1. /\ UNCHANGED <<frontBlock, tailBlock, element, refused, consumer>>
      /\ ppc = "storeNext" /\ ppc' = "publishNext" /\ t \in Blocks /\ tailBlock \in Blocks
      /\ Altered(t, [blocks[t] EXCEPT !.data[blocks[t].tail] = element])
  BY CircleEnds DEF StoreNext, ProducerGoes, Altered
<1>2. t # tailBlock
  BY <1>1, Ends DEF Inv, ProducerSees
<1> HIDE DEF t
<1>3. /\ Ranked' /\ Capacity' /\ Got' /\ Contents' = Contents
      /\ UNCHANGED <<Answer, empty>>
      /\ blocks'[t].data[blocks[t].tail] = element
      /\ blocks'[t].tail = blocks[t].tail
      /\ \A b \in Blocks : b # t => blocks'[b] = blocks[b]
  BY <1>1, WritingTells
<1>4. Owns' = Owns
  BY <1>1, <1>2, <1>3 DEF Owns
<1>5. Room'
  BY <1>1, <1>4 DEF Whole, Room
<1>6. Placed'
  BY <1>1, <1>3, <1>4 DEF Whole, Placed, Elements, t
<1>7. Mapped
  BY <1>1, <1>3, Between
<1> QED
  BY <1>3, <1>5, <1>6, <1>7 DEF Whole

(* The enqueue is over: its element is in the queue. *)
LEMMA PutMaps ==
  ASSUME Inv, Placed, ppc # "idle", ppc' = "idle", Contents' = Append(Contents, element),
         UNCHANGED <<refused, Answer, empty>>
  PROVE  Mapped
<1>1. element # Nothing
  BY ElementsAssumption DEF Placed, Elements
<1>2. Offered = element /\ Offered' = Nothing
  BY DEF Offered
<1>3. /\ Offered # Nothing /\ Contents' = Append(Contents, Offered) /\ Offered' = Nothing
      /\ UNCHANGED <<refused, Answer, empty>>
  BY <1>1, <1>2
<1> QED
  BY <1>3, AbstractSteps DEF Mapped

LEMMA PublishMaps == Inv /\ Inv' /\ Whole /\ Publish => Whole' /\ Mapped
<1> SUFFICES ASSUME Inv, Inv', Whole, Publish PROVE Whole' /\ Mapped
  OBVIOUS
<1> DEFINE old == blocks[tailBlock]
           new == [old EXCEPT !.tail = Follow(Size(old), old.tail)]
<1>1. /\ UNCHANGED <<frontBlock, tailBlock, largestBlockSize, element, refused, queue, consumer>>
      /\ ppc = "publish" /\ ppc' = "idle" /\ tailBlock \in Blocks
      /\ Altered(tailBlock, new)
  BY CircleEnds, TailFollows DEF Publish, ProducerGoes, Altered, Owns
<1>2. WellFormed(old) /\ Follow(Size(old), old.tail) # old.localFront
  BY <1>1, Ends DEF Inv, ProducerSees, Owns
<1>3. WellFormed(new) /\ ~Vacant(new)
  BY <1>2, Published
<1>4. /\ new.front = old.front /\ new.next = old.next /\ new.data = old.data
      /\ new.tail = Follow(Size(old), old.tail) /\ Size(new) = Size(old)
  BY <1>2 DEF WellFormed, Block, Size
<1>5. In(new) = Append(In(old), element)
  <2>1. Follow(Size(old), old.tail) # old.front
    BY <1>3, <1>4 DEF Vacant
  <2>2. In(new) = Append(In(old), old.data[old.tail])
    BY <1>2, <1>3, <2>1, InPublished
  <2> QED
    BY <1>1, <2>2 DEF Whole, Placed, Owns
<1> HIDE DEF new, old
<1>6. /\ Len(blocks') = Len(blocks) /\ Blocks' = Blocks
      /\ blocks'[tailBlock] = new /\ \A b \in Blocks : b # tailBlock => blocks'[b] = blocks[b]
  BY <1>1, Alters
<1>7. \A b \in Blocks : /\ blocks'[b].next = blocks[b].next /\ Size(blocks'[b]) = Size(blocks[b])
                        /\ blocks'[b].front = blocks[b].front
                        /\ blocks'[b].data = blocks[b].data
  BY <1>4, <1>6 DEF old
<1>8. PICK r : Ranks(r)
  BY DEF Whole, Ranked
<1>9. Far' = Far
  BY <1>1, <1>6 DEF Far
<1>10. Ranks(r)'
  <2>1. r[tailBlock] = 0
    BY <1>8, CircleFalls DEF Ranks, Circular
  <2>2. \A b \in Blocks : 0 < r[b] /\ r[b] < r[frontBlock] =>
                             (Packed(blocks[b]) => Packed(blocks'[b]))
    BY <1>6, <2>1
  <2> QED
    BY <1>1, <1>6, <1>7, <1>8, <1>9, <2>2, RanksStay
<1>11. Contents' = Append(Contents, element)
  <2>1. Circle(blocks, tailBlock, Far, r) /\ Circle(blocks', tailBlock, Far, r)
    BY <1>1, <1>8, <1>9, <1>10 DEF Ranks
  <2>2. /\ DOMAIN blocks' = DOMAIN blocks /\ element \in Values
        /\ In(blocks'[tailBlock]) = Append(In(blocks[tailBlock]), element)
        /\ Elsewhere(blocks, blocks', tailBlock)
    BY <1>5, <1>6 DEF Elsewhere, Blocks, old, Values, Inv, Shape
  <2>3. ContentsFrom(blocks', frontBlock, tailBlock) =
          Append(ContentsFrom(blocks, frontBlock, tailBlock), element)
    <3>1. frontBlock \in DOMAIN blocks
      BY CircleEnds
    <3> QED
      BY <2>1, <2>2, <3>1, PutHere
  <2> QED
    BY <1>1, <2>3, TheContents
<1>12. Capacity'
  BY <1>1, <1>6, <1>7, CapacityStays DEF Whole
<1>13. UNCHANGED <<cpc, result, empty, Answer>>
  BY <1>1 DEF consumer, Answer
<1>14. Got'
  BY <1>1, <1>7, <1>13, CircleEnds, GotStays DEF Whole
<1>15. Room' /\ Placed'
  BY <1>1 DEF Room, Placed
<1>16. Mapped
  BY <1>1, <1>11, <1>13, PutMaps DEF Whole
<1> QED
  BY <1>10, <1>12, <1>14, <1>15, <1>16 DEF Whole, Ranked

LEMMA PublishNextMaps == Inv /\ Inv' /\ Whole /\ PublishNext => Whole' /\ Mapped
<1> SUFFICES ASSUME Inv, Inv', Whole, PublishNext PROVE Whole' /\ Mapped
  OBVIOUS
<1> DEFINE t == Owns.next
           old == blocks[t]
           new == [old EXCEPT !.tail = Follow(Size(old), old.tail)]
<1>1. /\ UNCHANGED <<frontBlock, tailBlock, largestBlockSize, element, refused, queue, consumer>>
      /\ ppc = "publishNext" /\ ppc' = "advance" /\ t \in Blocks /\ tailBlock \in Blocks
      /\ Altered(t, new)
  BY CircleEnds, TailFollows DEF PublishNext, ProducerGoes, Altered
<1>2. /\ t # frontBlock /\ t # tailBlock /\ Vacant(old) /\ old.localFront = old.front
      /\ WellFormed(old)
  BY <1>1, Ends DEF Inv, ProducerSees, Shape
<1>3. WellFormed(new) /\ ~Vacant(new) /\ Follow(Size(old), old.tail) # old.front
  <2>1. Follow(Size(old), old.tail) # old.localFront
    BY <1>1, <1>2, TailFollows, Distances DEF Vacant, Measured
  <2> QED
    BY <1>2, <2>1, Published
<1>4. /\ new.front = old.front /\ new.next = old.next /\ new.data = old.data
      /\ Size(new) = Size(old)
  BY <1>2 DEF WellFormed, Block, Size
<1>5. In(new) = <<element>>
  <2>1. In(new) = Append(In(old), old.data[old.tail])
    BY <1>2, <1>3, InPublished
  <2>2. In(old) = <<>>
    BY <1>2, InVacant
  <2>3. old.data[old.tail] = element
    BY <1>1 DEF Whole, Placed
  <2> QED
    BY <2>1, <2>2, <2>3
<1>6. t = Owns.next
  OBVIOUS
<1> HIDE DEF new, old, t
<1>7. /\ Len(blocks') = Len(blocks) /\ Blocks' = Blocks
      /\ blocks'[t] = new /\ \A b \in Blocks : b # t => blocks'[b] = blocks[b]
  BY <1>1, Alters
<1>8. \A b \in Blocks : /\ blocks'[b].next = blocks[b].next /\ Size(blocks'[b]) = Size(blocks[b])
                        /\ blocks'[b].front = blocks[b].front
                        /\ blocks'[b].data = blocks[b].data
  BY <1>4, <1>7 DEF old
<1>9. PICK r : Ranks(r)
  BY DEF Whole, Ranked
<1>10. Far' = Far /\ Far = Len(blocks) - 1
  BY <1>1, <1>7 DEF Far
<1>11. r[frontBlock] < r[t]
  <2>1. Circular(blocks, tailBlock, Far, r)
    BY <1>9, CircleFalls DEF Ranks
  <2>2. r[t] = Len(blocks) - 1 /\ Len(blocks) \in Nat
    BY <1>6, <1>10, <2>1 DEF Circular, Owns
  <2>3. r[frontBlock] \in Nat /\ r[frontBlock] <= Len(blocks) - 1 /\ r[frontBlock] # r[t]
    BY <1>1, <1>2, <2>1, CircleEnds DEF Circular
  <2> QED
    BY <2>2, <2>3
<1>12. \A b \in Blocks : r[b] <= r[frontBlock] => b # t
  <2>1. \A b \in Blocks : r[b] \in Nat
    BY <1>9, CircleFalls DEF Ranks, Circular, Blocks
  <2>2. frontBlock \in Blocks
    BY CircleEnds
  <2> QED
    BY <1>1, <1>11, <2>1, <2>2
<1>13. Ranks(r)'
  <2>1. \A b \in Blocks : r[b] \in Nat
    BY <1>9, CircleFalls DEF Ranks, Circular, Blocks
  <2>2. \A b \in Blocks : 0 < r[b] /\ r[b] < r[frontBlock] =>
                             (Packed(blocks[b]) => Packed(blocks'[b]))
    <3>1. \A b \in Blocks : r[b] < r[frontBlock] => b # t
      BY <1>12, <2>1, CircleEnds
    <3> QED
      BY <1>7, <3>1
  <2> QED
    BY <1>1, <1>7, <1>8, <1>9, <1>10, <2>2, RanksStay
<1>14. Contents' = Contents
  <2>1. Circle(blocks, tailBlock, Far, r) /\ Circle(blocks', tailBlock, Far, r)
    BY <1>1, <1>9, <1>10, <1>13 DEF Ranks
  <2>2. Agree(blocks, blocks', tailBlock, r, r[frontBlock])
    BY <1>7, <1>12 DEF Agree, Blocks
  <2>3. ContentsFrom(blocks', frontBlock, tailBlock) = ContentsFrom(blocks, frontBlock, tailBlock)
    BY <2>1, <2>2, CircleEnds, SameContents
  <2> QED
    BY <1>1, <2>3, TheContents
<1>15. Capacity'
  BY <1>1, <1>7, <1>8, CapacityStays DEF Whole
<1>16. UNCHANGED <<cpc, result, empty, Answer>>
  BY <1>1 DEF consumer, Answer
<1>17. Got'
  BY <1>1, <1>8, <1>16, CircleEnds, GotStays DEF Whole
<1>18. Owns' = Owns
  BY <1>1, <1>2, <1>7 DEF Owns
<1>19. Room'
  BY <1>1, <1>18 DEF Whole, Room
<1>20. Placed'
  BY <1>1, <1>5, <1>6, <1>7, <1>18 DEF Whole, Placed, Elements
<1>21. Mapped
  BY <1>1, <1>14, <1>16, Between
<1> QED
  BY <1>13, <1>15, <1>17, <1>19, <1>20, <1>21 DEF Whole, Ranked

(* A block that is made for an element holds just that one. *)
BlockFor(size, next, v) ==
  [make_block(size, next) EXCEPT !.data[0] = v, !.tail = 1, !.localTail = 1]

LEMMA MadeFor ==
  ASSUME NEW size \in Sizes, NEW next \in Nat, NEW v \in Values
  PROVE  /\ WellFormed(BlockFor(size, next, v)) /\ ~Vacant(BlockFor(size, next, v))
         /\ BlockFor(size, next, v).next = next
         /\ Size(BlockFor(size, next, v)) = size
         /\ In(BlockFor(size, next, v)) = <<v>>
<1> DEFINE plain == make_block(size, next)
           new == [plain EXCEPT !.data[0] = v, !.tail = 1, !.localTail = 1]
           b1 == [plain EXCEPT !.data[plain.tail] = v]
           b2 == [b1 EXCEPT !.tail = Follow(Size(b1), b1.tail)]
           b3 == [b2 EXCEPT !.localTail = b2.tail]
<1>1. /\ WellFormed(plain) /\ Vacant(plain) /\ plain.next = next /\ Size(plain) = size
      /\ plain.tail = 0 /\ plain.localFront = 0 /\ plain.front = 0
  BY Made DEF make_block
<1>2. WellFormed(b1) /\ In(b1) = <<>> /\ b1.data[0] = v
  <2>1. plain.tail \in 0..(Size(plain) - 1) /\ plain.data \in [0..(Size(plain) - 1) -> Values]
    BY <1>1, BlockSize DEF WellFormed, Sizes
  <2>2. b1.data[plain.tail] = v
    BY <1>1, <2>1 DEF make_block, Sizes
  <2> HIDE DEF plain
  <2>3. In(plain) = <<>>
    BY <1>1, InVacant
  <2> QED
    BY <1>1, <2>1, <2>2, <2>3, Written, InWritten
<1>3. /\ b1.tail = 0 /\ b1.localFront = 0 /\ b1.front = 0 /\ b1.next = next
      /\ Size(b1) = size
  BY <1>1 DEF Size, WellFormed, Block
<1>4. Follow(Size(b1), b1.tail) = 1
  BY <1>3, Following DEF Sizes
<1>5. WellFormed(b2) /\ ~Vacant(b2) /\ In(b2) = <<v>>
  <2> HIDE DEF b1
  <2>1. Follow(Size(b1), b1.tail) # b1.localFront /\ Follow(Size(b1), b1.tail) # b1.front
    BY <1>3, <1>4
  <2>2. WellFormed(b2) /\ ~Vacant(b2)
    BY <1>2, <2>1, Published
  <2>3. In(b2) = Append(In(b1), b1.data[b1.tail])
    BY <1>2, <2>1, <2>2, InPublished
  <2> QED
    BY <1>2, <1>3, <2>2, <2>3
<1>6. WellFormed(b3)
  BY <1>5, Refreshed
<1>7. new = b3
  BY <1>1, <1>4 DEF make_block
<1>8. /\ b3.front = b2.front /\ b3.tail = b2.tail /\ b3.next = next
      /\ b3.data = b2.data /\ Size(b3) = size
  BY <1>2, <1>3, <1>5 DEF WellFormed, Block, Size
<1> HIDE DEF b3, b2, b1, new
<1>9. In(b3) = In(b2)
  BY <1>8, InSame
<1>10. WellFormed(new) /\ ~Vacant(new) /\ new.next = next /\ Size(new) = size /\ In(new) = <<v>>
  BY <1>5, <1>6, <1>7, <1>8, <1>9 DEF Vacant
<1> QED
  BY <1>10 DEF new, BlockFor

LEMMA LinkMaps == Inv /\ Inv' /\ Whole /\ Link => Whole' /\ Mapped
<1> SUFFICES ASSUME Inv, Inv', Whole, Link PROVE Whole' /\ Mapped
  OBVIOUS
<1> DEFINE old == blocks[tailBlock]
           new == [old EXCEPT !.next = Len(blocks)]
<1>1. /\ UNCHANGED <<frontBlock, tailBlock, largestBlockSize, element, refused, queue, consumer>>
      /\ ppc = "link" /\ ppc' = "advance" /\ tailBlock \in Blocks /\ WellFormed(old)
      /\ Altered(tailBlock, new)
  BY CircleEnds, Ends DEF Link, ProducerGoes, Altered, Owns
<1>2. /\ new.front = old.front /\ new.next = Len(blocks) /\ new.data = old.data
      /\ new.tail = old.tail /\ Size(new) = Size(old)
  BY <1>1 DEF WellFormed, Block, Size
<1> HIDE DEF new, old
<1>3. In(new) = In(old)
  BY <1>2, InSame
<1>4. /\ Len(blocks') = Len(blocks) /\ Blocks' = Blocks
      /\ blocks'[tailBlock] = new /\ \A b \in Blocks : b # tailBlock => blocks'[b] = blocks[b]
  BY <1>1, Alters
<1>5. \A b \in Blocks : /\ Size(blocks'[b]) = Size(blocks[b]) /\ In(blocks'[b]) = In(blocks[b])
                        /\ blocks'[b].front = blocks[b].front
                        /\ blocks'[b].data = blocks[b].data
                        /\ Packed(blocks'[b]) <=> Packed(blocks[b])
                        /\ b # tailBlock => blocks'[b].next = blocks[b].next
  BY <1>2, <1>3, <1>4 DEF old, Packed
<1>6. /\ Len(blocks) # tailBlock /\ Len(blocks) \in Blocks
      /\ blocks[Len(blocks)].next = blocks[tailBlock].next
  <2>1. Len(blocks) # tailBlock /\ Len(blocks) \in Blocks
    BY <1>1, Ends DEF Linked
  <2> QED
    BY <1>1, <2>1 DEF Inv, ProducerSees, Owns
<1>7. PICK r : Ranks(r)
  BY DEF Whole, Ranked
<1>8. Circle(blocks, tailBlock, Len(blocks) - 2, r)
  BY <1>1, <1>7 DEF Ranks, Far
<1>9. Circle(blocks', tailBlock, Len(blocks) - 1, r)
  <2>1. /\ blocks' \in Seq(Block) /\ DOMAIN blocks' = DOMAIN blocks /\ Len(blocks') = Len(blocks)
        /\ \A b \in DOMAIN blocks : WellFormed(blocks'[b]) /\ (b # tailBlock => blocks'[b].next = blocks[b].next)
        /\ blocks'[tailBlock].next = Len(blocks)
    BY <1>2, <1>4, <1>5 DEF Inv, Shape, Blocks
  <2> QED
    BY <1>6, <1>8, <2>1, CircleLinks
<1>10. Ranks(r)'
  <2>1. Far' = Len(blocks) - 1
    BY <1>1, <1>4 DEF Far
  <2> QED
    BY <1>1, <1>4, <1>5, <1>7, <1>9, <2>1 DEF Ranks
<1>11. Contents' = Contents
  <2>1. PICK far, gar : Circle(blocks, tailBlock, far, r) /\ Circle(blocks', tailBlock, gar, r)
    BY <1>8, <1>9
  <2>2. Agree(blocks, blocks', tailBlock, r, r[frontBlock])
    BY <1>4, <1>5 DEF Agree, Blocks
  <2>3. frontBlock \in DOMAIN blocks
    BY CircleEnds
  <2>4. ContentsFrom(blocks', frontBlock, tailBlock) = ContentsFrom(blocks, frontBlock, tailBlock)
    BY <2>1, <2>2, <2>3, SameContents
  <2> QED
    BY <1>1, <2>4, TheContents
<1>12. Capacity'
  BY <1>1, <1>4, <1>5, CapacityStays DEF Whole
<1>13. UNCHANGED <<cpc, result, empty, Answer>>
  BY <1>1 DEF consumer, Answer
<1>14. Got'
  BY <1>1, <1>5, <1>13, CircleEnds, GotStays DEF Whole
<1>15. Room'
  <2>1. Packed(Owns') <=> Packed(Owns)
    BY <1>1, <1>5 DEF Owns
  <2> QED
    BY <1>1, <2>1 DEF Whole, Room
<1>16. Placed'
  <2>1. Owns'.next = Len(blocks) /\ blocks'[Len(blocks)] = blocks[Len(blocks)]
    BY <1>1, <1>2, <1>4, <1>6 DEF Owns
  <2> QED
    BY <1>1, <2>1 DEF Whole, Placed, Elements
<1>17. Mapped
  BY <1>1, <1>11, <1>13, Between
<1> QED
  BY <1>10, <1>12, <1>14, <1>15, <1>16, <1>17 DEF Whole, Ranked

LEMMA AdvanceMaps == Inv /\ Inv' /\ Whole /\ Advance => Whole' /\ Mapped
<1> SUFFICES ASSUME Inv, Inv', Whole, Advance PROVE Whole' /\ Mapped
  OBVIOUS
<1>1. PICK u : u = blocks[tailBlock].next
  OBVIOUS
<1>2. /\ UNCHANGED <<blocks, frontBlock, largestBlockSize, element, refused, queue, consumer>>
      /\ ppc = "advance" /\ ppc' = "idle" /\ tailBlock' = u
  BY <1>1 DEF Advance, ProducerGoes, Owns
<1>3. /\ u # frontBlock /\ u \in DOMAIN blocks /\ tailBlock \in DOMAIN blocks
      /\ frontBlock \in DOMAIN blocks /\ Blocks = DOMAIN blocks
  BY <1>1, <1>2, CircleEnds DEF Inv, ProducerSees, Owns
<1>4. In(blocks[u]) = <<element>> /\ element \in Values
  BY <1>1, <1>2 DEF Whole, Placed, Owns, Inv, Shape, Values
<1>5. PICK r : Ranks(r)
  BY DEF Whole, Ranked
<1>6. Circle(blocks, tailBlock, Len(blocks) - 1, r)
  BY <1>2, <1>5 DEF Ranks, Far
<1>7. PICK q : q = [b \in DOMAIN blocks |-> IF b = u THEN 0 ELSE r[b] + 1]
  OBVIOUS
<1>8. Circle(blocks, u, Len(blocks) - 1, q)
  BY <1>1, <1>6, <1>7, CircleTurns
<1>9. Ranks(q)'
  <2>1. Far' = Len(blocks) - 1 /\ Blocks' = Blocks
    BY <1>2 DEF Far, Blocks
  <2>2. Circular(blocks, tailBlock, Len(blocks) - 1, r)
    BY <1>6, CircleFalls
  <2>3. ASSUME NEW b \in Blocks, 0 < q[b], q[b] < q[frontBlock]
        PROVE  Packed(blocks[b])
    <3>1. b # u /\ q[b] = r[b] + 1 /\ q[frontBlock] = r[frontBlock] + 1
      BY <1>3, <1>7, <2>3
    <3>2. r[b] \in Nat /\ r[frontBlock] \in Nat /\ r[tailBlock] = 0
      BY <1>3, <2>2 DEF Circular
    <3>3. r[b] < r[frontBlock]
      BY <2>3, <3>1, <3>2
    <3>4. CASE r[b] = 0
      <4>1. b = tailBlock
        BY <1>3, <2>2, <3>4 DEF Circular
      <4>2. tailBlock # frontBlock
        BY <3>2, <3>3
      <4> QED
        BY <1>2, <4>1, <4>2 DEF Whole, Room, Owns
    <3>5. CASE r[b] # 0
      <4>1. 0 < r[b]
        BY <3>2, <3>5
      <4> QED
        BY <1>5, <3>3, <4>1 DEF Ranks
    <3> QED
      BY <3>4, <3>5
  <2> QED
    BY <1>2, <1>8, <2>1, <2>3 DEF Ranks
<1>10. Contents' = Append(Contents, element)
  <2>1. ContentsFrom(blocks, frontBlock, u) = Append(ContentsFrom(blocks, frontBlock, tailBlock), element)
    BY <1>1, <1>3, <1>4, <1>6, PutBeside
  <2> QED
    BY <1>2, <2>1, TheContents
<1>11. Capacity'
  BY <1>2, CapacityStays DEF Whole, Blocks
<1>12. UNCHANGED <<cpc, result, empty, Answer>>
  BY <1>2 DEF consumer, Answer
<1>13. Got'
  BY <1>2, <1>3, <1>12, GotStays DEF Whole
<1>14. Room' /\ Placed'
  BY <1>2 DEF Room, Placed
<1>15. Mapped
  BY <1>2, <1>10, <1>12, PutMaps DEF Whole
<1> QED
  BY <1>9, <1>11, <1>13, <1>14, <1>15 DEF Whole, Ranked

LEMMA AllocateMaps == Inv /\ Inv' /\ Whole /\ Allocate => Whole' /\ Mapped
<1> SUFFICES ASSUME Inv, Inv', Whole, Allocate PROVE Whole' /\ Mapped
  OBVIOUS
<1>1. /\ UNCHANGED <<frontBlock, tailBlock, element, roomy, queue, consumer>>
      /\ ppc = "allocate"
  BY DEF Allocate, ProducerGoes
<1>2. CASE ppc' = "idle"
  <2>1. UNCHANGED <<blocks, largestBlockSize>> /\ refused' = refused + 1
    BY <1>2 DEF Allocate, ProducerGoes
  <2>2. Still
    BY <1>1, <2>1, StillUnchanged
  <2>3. /\ Ranked' /\ Capacity' /\ Got' /\ Contents' = Contents
        /\ UNCHANGED <<Answer, empty>>
    BY <1>1, <1>2, <2>2, ProducerStill
  <2>4. Room' /\ Placed'
    BY <1>2 DEF Room, Placed
  <2>5. Offered # Nothing /\ Offered' = Nothing
    BY <1>1, <1>2, ElementsAssumption DEF Whole, Placed, Elements, Offered
  <2>6. Mapped
    BY <2>1, <2>3, <2>5, AbstractSteps DEF Mapped
  <2> QED
    BY <2>3, <2>4, <2>6 DEF Whole
<1>3. CASE ppc' = "link"
  <2> DEFINE new == BlockFor(largestBlockSize', Owns.next, element)
  <2>1. /\ blocks' = Append(blocks, new) /\ refused' = refused
        /\ largestBlockSize' = IF largestBlockSize >= MAX_BLOCK_SIZE
                                 THEN largestBlockSize ELSE largestBlockSize * 2
    BY <1>3 DEF Allocate, ProducerGoes, BlockFor
  <2>2. /\ largestBlockSize' \in Sizes /\ largestBlockSize \in Sizes
        /\ Owns.next \in DOMAIN blocks /\ Owns.next \in Nat
        /\ element \in Values
    <3>1. Owns.next \in Nat
      BY Ends
    <3> QED
      BY <3>1, CircleEnds DEF Inv, Shape, Values
  <2>3. /\ WellFormed(new) /\ new.next = Owns.next /\ Size(new) = largestBlockSize'
        /\ In(new) = <<element>>
    BY <2>2, MadeFor
  <2> HIDE DEF new
  <2>4. PICK n : n = Len(blocks)
    OBVIOUS
  <2>5. /\ n \in Nat /\ DOMAIN blocks = 1..n /\ n > 0
        /\ Len(blocks') = n + 1 /\ blocks' \in Seq(Block) /\ DOMAIN blocks' = 1..(n + 1)
        /\ blocks'[n + 1] = new /\ \A b \in DOMAIN blocks : blocks'[b] = blocks[b]
    BY <2>1, <2>2, <2>3, <2>4 DEF Inv, Shape, WellFormed
  <2>6. PICK r : Ranks(r)
    BY DEF Whole, Ranked
  <2>7. Circle(blocks, tailBlock, Len(blocks) - 1, r)
    BY <1>1, <2>6 DEF Ranks, Far
  <2>8. Circular(blocks, tailBlock, Len(blocks) - 1, r)
    BY <2>7, CircleFalls
  <2>9. PICK q : q = [b \in DOMAIN blocks' |-> IF b = Len(blocks') THEN Len(blocks) ELSE r[b]]
    OBVIOUS
  <2>10. Circle(blocks', tailBlock, Len(blocks') - 2, q)
    <3>1. Len(blocks') = Len(blocks) + 1 /\ blocks'[Len(blocks')] = new
      BY <2>4, <2>5
    <3>2. blocks'[Len(blocks')].next = blocks[tailBlock].next /\ WellFormed(blocks'[Len(blocks')])
      BY <2>3, <3>1 DEF Owns
    <3> QED
      BY <2>5, <2>7, <2>9, <3>1, <3>2, CircleGrows
  <2>11. /\ \A b \in DOMAIN blocks : q[b] = r[b] /\ b \in DOMAIN blocks'
         /\ q[n + 1] = n
    BY <2>4, <2>5, <2>9
  <2>12. frontBlock \in DOMAIN blocks /\ tailBlock \in DOMAIN blocks
    BY CircleEnds
  <2>13. Ranks(q)'
    <3>1. Far' = Len(blocks') - 2
      BY <1>3 DEF Far
    <3>2. ASSUME NEW b \in DOMAIN blocks', 0 < q[b], q[b] < q[frontBlock]
          PROVE  Packed(blocks'[b])
      <4>1. q[frontBlock] = r[frontBlock] /\ r[frontBlock] \in Nat /\ r[frontBlock] <= n - 1
        BY <2>4, <2>8, <2>11, <2>12 DEF Circular
      <4>2. b # n + 1
        BY <2>5, <2>11, <3>2, <4>1
      <4>3. b \in DOMAIN blocks
        BY <2>5, <4>2
      <4> QED
        BY <2>5, <2>6, <2>11, <3>2, <4>1, <4>3 DEF Ranks, Blocks
    <3> QED
      BY <1>1, <2>10, <3>1, <3>2 DEF Ranks, Blocks
  <2>14. Contents' = Contents
    <3>1. PICK far, gar : Circle(blocks, tailBlock, far, r) /\ Circle(blocks', tailBlock, gar, q)
      BY <2>7, <2>10
    <3>2. Agree(blocks, blocks', tailBlock, r, r[frontBlock])
      BY <2>5, <2>11 DEF Agree
    <3>3. ContentsFrom(blocks', frontBlock, tailBlock) = ContentsFrom(blocks, frontBlock, tailBlock)
      BY <2>12, <3>1, <3>2, SameContents
    <3> QED
      BY <1>1, <3>3, TheContents
  <2>15. Capacity'
    <3>1. PICK least : Holds(least)
      BY DEF Whole, Capacity
    <3>2. least \in Nat /\ largestBlockSize > least /\ \A b \in DOMAIN blocks : Size(blocks[b]) > least
      BY <3>1 DEF Holds, Blocks
    <3>3. largestBlockSize' > least
      BY <2>1, <2>2, <3>2 DEF Sizes
    <3>4. ASSUME NEW b \in DOMAIN blocks' PROVE Size(blocks'[b]) > least
      <4>1. CASE b = n + 1
        BY <2>3, <2>5, <3>3, <4>1
      <4>2. CASE b # n + 1
        <5>1. b \in DOMAIN blocks
          BY <2>5, <4>2
        <5> QED
          BY <2>5, <3>2, <5>1
      <4> QED
        BY <4>1, <4>2
    <3>5. maxSize' = maxSize /\ maxSize \in Nat
      BY <1>1, QueuesAssumption DEF maxSize, Inv, Shape
    <3>6. n * least >= maxSize
      <4>1. CASE n = 1
        <5>1. least >= maxSize /\ n * least = least
          BY <2>4, <3>1, <3>2, <4>1 DEF Holds
        <5> QED
          BY <3>2, <3>5, <5>1
      <4>2. CASE n # 1
        <5>1. (n - 1) * least >= maxSize
          BY <2>4, <3>1, <4>2 DEF Holds
        <5>2. PICK all : all = (n - 1) * least
          OBVIOUS
        <5>3. n * least = all + least /\ all \in Nat
          BY <2>5, <3>2, <5>2
        <5> QED
          BY <3>2, <3>5, <5>1, <5>2, <5>3
      <4> QED
        BY <4>1, <4>2
    <3>7. Len(blocks') - 1 = n /\ Len(blocks') # 1
      BY <2>5
    <3>8. Holds(least)'
      BY <3>2, <3>3, <3>4, <3>5, <3>6, <3>7 DEF Holds, Blocks
    <3> QED
      BY <3>8 DEF Capacity
  <2>16. UNCHANGED <<cpc, result, empty, Answer>>
    BY <1>1 DEF consumer, Answer
  <2>17. Got'
    BY <1>1, <2>5, <2>12, <2>16, GotStays DEF Whole
  <2>18. Owns' = Owns
    BY <1>1, <2>5, <2>12 DEF Owns
  <2>19. Room'
    BY <1>1, <1>3, <2>18 DEF Whole, Room
  <2>20. Placed'
    <3>1. In(blocks'[Len(blocks')]) = <<element>>
      BY <2>3, <2>5
    <3> QED
      BY <1>1, <1>3, <3>1 DEF Whole, Placed, Elements
  <2>21. Mapped
    BY <1>1, <1>3, <2>1, <2>14, <2>16, Between
  <2> QED
    BY <2>13, <2>15, <2>17, <2>19, <2>20, <2>21 DEF Whole, Ranked
<1> QED
  BY <1>2, <1>3 DEF Allocate, ProducerGoes

LEMMA ProducerMaps == Inv /\ Inv' /\ Whole /\ Producer => Whole' /\ Mapped
BY EnqueueMaps, LoadFrontMaps, StoreMaps, PublishMaps, FullMaps, LoadNextMaps, StoreNextMaps,
   PublishNextMaps, AllocateMaps, LinkMaps, AdvanceMaps DEF Producer

----------------------------------------------------------------------------
(* The queue begins whole: the block after the tail is the furthest, and   *)
(* there is nothing in it.                                                 *)
LEMMA InitWhole == Init => Whole /\ Queue!Init
<1> SUFFICES ASSUME Init PROVE Whole /\ Queue!Init
  OBVIOUS
<1>1. PICK size \in Sizes, count \in Nat \ {0} :
        /\ blocks = [b \in 1..count |-> make_block(size, (b % count) + 1)]
        /\ Roomy(size, count, maxSize)
  BY FirstRing
<1>2. Inv
  BY InitKeeps
<1>3. /\ ppc = "idle" /\ cpc = "idle" /\ frontBlock = 1 /\ tailBlock = 1 /\ refused = 0
      /\ result = Nothing /\ empty = FALSE
      /\ largestBlockSize = Size(blocks[1])
  BY DEF Init, Size
<1> DEFINE after(b) == (b % count) + 1
<1>4. \A b \in 1..count : after(b) \in 1..count /\ after(b) = IF b = count THEN 1 ELSE b + 1
  OBVIOUS
<1>5. DOMAIN blocks = 1..count /\ \A b \in 1..count : blocks[b] = make_block(size, after(b))
  BY <1>1
<1> HIDE DEF after
<1>6. \A b \in 1..count : /\ WellFormed(blocks[b]) /\ Vacant(blocks[b])
                          /\ blocks[b].next = after(b) /\ Size(blocks[b]) = size
  BY <1>4, <1>5, Made
<1>7. Len(blocks) = count /\ blocks \in Seq(Block) /\ Blocks = 1..count
  BY <1>2, <1>5 DEF Inv, Shape, Blocks
<1>8. PICK r : r = [b \in 1..count |-> IF b = 1 THEN 0 ELSE count + 1 - b]
  OBVIOUS
<1>9. Circle(blocks, 1, count - 1, r)
  <2>1. \A b \in 1..count : r[b] = IF b = 1 THEN 0 ELSE count + 1 - b
    BY <1>8
  <2>2. r \in [1..count -> 0..(count - 1)]
    BY <1>8
  <2>3. \A a, b \in 1..count : r[a] = r[b] => a = b
    BY <2>1
  <2>4. 1 \in 1..count /\ r[1] = 0 /\ r[after(1)] = count - 1
    BY <1>4, <2>1
  <2>5. \A b \in 1..count \ {1} : r[b] = r[after(b)] + 1
    BY <1>4, <2>1
  <2>6. blocks[1].next = after(1) /\ \A b \in 1..count : blocks[b].next \in 1..count
    BY <1>4, <1>6, <2>4
  <2>7. \A b \in 1..count \ {1} : r[b] = r[blocks[b].next] + 1
    BY <1>6, <2>5
  <2> QED
    BY <1>5, <1>6, <1>7, <2>2, <2>3, <2>4, <2>6, <2>7 DEF Circle
<1>10. Ranked
  <2>1. Far = count - 1
    BY <1>3, <1>7 DEF Far
  <2>2. \A b \in Blocks : ~(0 < r[b] /\ r[b] < r[frontBlock])
    BY <1>3, <1>7, <1>8
  <2> QED
    BY <1>3, <1>9, <2>1, <2>2 DEF Ranked, Ranks
<1>11. Capacity
  <2>1. largestBlockSize = size /\ \A b \in Blocks : Size(blocks[b]) = size
    BY <1>3, <1>6, <1>7
  <2>2. maxSize \in Nat
    BY <1>2, QueuesAssumption DEF maxSize, Inv, Shape
  <2>3. CASE count = 1
    BY <1>1, <1>7, <2>1, <2>2, <2>3 DEF Capacity, Holds, Roomy
  <2>4. CASE count # 1
    <3>1. PICK least : least = size - 1
      OBVIOUS
    <3>2. least \in Nat /\ size > least
      BY <3>1 DEF Sizes
    <3>3. (count - 1) * least >= maxSize
      BY <1>1, <2>4, <3>1 DEF Roomy
    <3> QED
      BY <1>7, <2>1, <2>4, <3>2, <3>3 DEF Capacity, Holds
  <2> QED
    BY <2>3, <2>4
<1>12. Contents = <<>>
  BY <1>2, <1>3, <1>6, <1>10, NothingThere
<1>13. Whole
  BY <1>3, <1>10, <1>11 DEF Whole, Room, Placed, Got
<1> QED
  BY <1>3, <1>12, <1>13 DEF Queue!Init

(* Every step keeps it whole, and is a step of CommandQueue or none. *)
LEMMA NextMaps == Inv /\ Inv' /\ Whole /\ [Next]_vars => Whole' /\ Mapped
<1> SUFFICES ASSUME Inv, Inv', Whole, [Next]_vars PROVE Whole' /\ Mapped
  OBVIOUS
<1>1. CASE Producer
  BY <1>1, ProducerMaps
<1>2. CASE Consumer
  BY <1>2, ConsumerMaps
<1>3. CASE UNCHANGED vars
  <2>1. /\ UNCHANGED <<blocks, frontBlock, tailBlock, largestBlockSize, queue>>
        /\ UNCHANGED <<ppc, element, roomy, refused, cpc, result, empty>>
    BY <1>3 DEF vars, producer, consumer
  <2>2. Still
    BY <2>1, StillUnchanged
  <2>3. Ranked' /\ Capacity' /\ Contents' = Contents
    BY <2>1, <2>2, StillTells DEF Whole
  <2>4. UNCHANGED <<Owns, maxSize, Blocks, Offered, Answer>>
    BY <2>1 DEF Owns, maxSize, Blocks, Offered, Answer
  <2>5. Room' /\ Placed' /\ Got'
    BY <2>1, <2>3, <2>4 DEF Whole, Room, Placed, Got
  <2>6. Mapped
    BY <2>1, <2>3, <2>4, AbstractSteps DEF Mapped
  <2> QED
    BY <2>3, <2>5, <2>6 DEF Whole
<1> QED
  BY <1>1, <1>2, <1>3 DEF Next

LEMMA Wholeness == Spec => [](Inv /\ Whole)
<1>1. Init => Inv /\ Whole
  BY InitKeeps, InitWhole
<1>2. (Inv /\ Whole) /\ [Next]_vars => (Inv /\ Whole)'
  BY NextKeeps, NextMaps
<1> QED
  BY <1>1, <1>2, PTL DEF Spec

(* Of Spec: whatever the queue's size, the size of its blocks and the way  *)
(* the two threads interleave, inner_enqueue asks for memory only when it  *)
(* found maxSize elements or more in the queue.                            *)
THEOREM RoomIsKept == Spec => []RoomAsPromised
<1>1. Whole => RoomAsPromised
  BY DEF Whole, Room, RoomAsPromised
<1> QED
  BY <1>1, Wholeness, PTL

(* Of Spec: the ring of blocks is a first-in first-out queue each call of  *)
(* which takes effect at once.  An enqueue puts its element at the end     *)
(* when it publishes the tail or moves the tail block on; a dequeue and a  *)
(* peek get the first element, or null when the queue was empty at some    *)
(* moment of the call; an element is lost only when memory was refused.    *)
THEOREM QueueImplemented == Spec => ImplementsQueue
<1>1. Init => Queue!Init
  BY InitWhole
<1>2. (Inv /\ Whole) /\ (Inv /\ Whole)' /\ [Next]_vars => [Queue!Next]_(Queue!vars)
  BY NextMaps DEF Mapped
<1> QED
  BY <1>1, <1>2, Wholeness, PTL DEF Spec, ImplementsQueue, Queue!Spec

----------------------------------------------------------------------------
(* Types: what Inv and Whole leave out. *)

Filled(block) == \A i \in DOMAIN block.data : block.data[i] \in Elements \cup {Nothing}
Slots == \A b \in Blocks : Filled(blocks[b])

Modes ==
  /\ ppc \in ProducerStates /\ roomy \in BOOLEAN /\ refused \in 0..MaxRefused
  /\ cpc \in ConsumerStates /\ op \in {"peek", "dequeue"}

Locals == nextBlock \in Blocks /\ result \in Elements \cup {Nothing}

(* One block is altered, and holds elements or nothing as before. *)
LEMMA SlotsAltered ==
  ASSUME Inv, Inv', Slots, NEW t \in Blocks, NEW new, Altered(t, new), Filled(new)
  PROVE  Slots' /\ Blocks' = Blocks
BY Alters DEF Slots

LEMMA SlotsSame ==
  ASSUME Inv, Inv', Slots, NEW t \in Blocks, NEW new, Altered(t, new),
         new.data = blocks[t].data
  PROVE  Slots' /\ Blocks' = Blocks
<1>1. Filled(new)
  BY DEF Slots, Filled
<1> QED
  BY <1>1, SlotsAltered

(* The element of the enqueue under way is written to a slot. *)
LEMMA SlotsWritten ==
  ASSUME Inv, Inv', Slots, NEW t \in Blocks, NEW slot, element \in Elements,
         Altered(t, [blocks[t] EXCEPT !.data[slot] = element])
  PROVE  Slots' /\ Blocks' = Blocks
<1> DEFINE new == [blocks[t] EXCEPT !.data[slot] = element]
<1>1. blocks[t] \in Block /\ Filled(blocks[t])
  BY DEF Inv, Shape, WellFormed, Slots
<1>2. new.data = [blocks[t].data EXCEPT ![slot] = element]
  BY <1>1 DEF Block
<1>3. PICK size \in Sizes : blocks[t].data \in [0..(size - 1) -> Values]
  BY <1>1 DEF Block
<1>4. DOMAIN new.data = DOMAIN blocks[t].data
  BY <1>2, <1>3
<1>5. \A i \in DOMAIN new.data : new.data[i] = IF i = slot THEN element ELSE blocks[t].data[i]
  BY <1>2, <1>3, <1>4
<1>6. Filled(new)
  BY <1>1, <1>4, <1>5 DEF Filled
<1> QED
  BY <1>6, SlotsAltered

(* A new block holds the element and nothing else. *)
LEMMA SlotsAllocated ==
  ASSUME Inv, Inv', Slots, Placed, Allocate
  PROVE  Slots' /\ Blocks \subseteq Blocks'
<1>1. CASE UNCHANGED blocks
  BY <1>1 DEF Slots, Blocks
<1>2. CASE ~UNCHANGED blocks
  <2> DEFINE size == largestBlockSize'
             new == BlockFor(size, Owns.next, element)
  <2>1. blocks' = Append(blocks, new) /\ element \in Elements
    BY <1>2 DEF Allocate, ProducerGoes, BlockFor, Placed
  <2>2. /\ size \in Sizes /\ Owns.next \in Nat /\ element \in Values
        /\ blocks \in Seq(Block)
    BY <2>1, CircleEnds DEF Inv, Shape, Values, Elements
  <2>3. \A i \in DOMAIN new.data : new.data[i] \in Elements \cup {Nothing}
    BY <2>1, <2>2 DEF BlockFor, make_block, Sizes
  <2>4. new \in Block
    BY <2>2, MadeFor DEF WellFormed
  <2> HIDE DEF new
  <2>5. Filled(new)
    BY <2>3 DEF Filled
  <2>6. Blocks = 1..Len(blocks) /\ Len(blocks) \in Nat
    BY <2>2 DEF Blocks
  <2>7. /\ Blocks' = 1..(Len(blocks) + 1) /\ blocks'[Len(blocks) + 1] = new
        /\ \A b \in 1..Len(blocks) : blocks'[b] = blocks[b]
    BY <2>1, <2>2, <2>4, <2>6, AppendProperties DEF Blocks
  <2>8. \A b \in 1..(Len(blocks) + 1) : b \in 1..Len(blocks) \/ b = Len(blocks) + 1
    BY <2>6
  <2> QED
    BY <2>5, <2>6, <2>7, <2>8 DEF Slots
<1> QED
  BY <1>1, <1>2

(* No step but those of the producer that write its element changes what   *)
(* is in a slot, and no block goes away.                                   *)
LEMMA SlotsKept ==
  ASSUME Inv, Inv', Whole, Slots, Locals, [Next]_vars
  PROVE  Slots' /\ Blocks \subseteq Blocks'
<1>1. /\ frontBlock \in Blocks /\ tailBlock \in Blocks /\ Owns.next \in Blocks
      /\ nextBlock \in Blocks
  BY CircleEnds DEF Locals
<1>2. \A b \in Blocks : blocks[b] \in Block
  BY DEF Inv, Shape, WellFormed
<1>3. ASSUME UNCHANGED blocks PROVE Slots' /\ Blocks' = Blocks
  BY <1>3 DEF Slots, Blocks
<1>4. CASE Enqueue \/ Full \/ Advance
  BY <1>3, <1>4 DEF Enqueue, Full, Advance
<1>5. CASE Call \/ Look \/ LoadTailBlock \/ LoadNextBlock \/ AdvanceFront \/ Take
  BY <1>3, <1>5 DEF Call, Look, LoadTailBlock, LoadNextBlock, AdvanceFront, Take
<1>6. CASE LoadFront
  <2>1. Altered(tailBlock, [Owns EXCEPT !.localFront = Owns.front])
    BY <1>6 DEF LoadFront, ProducerGoes, Altered, Owns
  <2> QED
    BY <1>1, <1>2, <2>1, SlotsSame DEF Owns, Block
<1>7. CASE Store
  <2>1. Altered(tailBlock, [blocks[tailBlock] EXCEPT !.data[Owns.tail] = element])
    BY <1>7 DEF Store, ProducerGoes, Altered
  <2>2. element \in Elements
    BY <1>7 DEF Store, ProducerGoes, Whole, Placed
  <2> QED
    BY <1>1, <2>1, <2>2, SlotsWritten
<1>8. CASE Publish
  <2>1. Altered(tailBlock, [Owns EXCEPT !.tail = NextTail])
    BY <1>8 DEF Publish, ProducerGoes, Altered, Owns
  <2> QED
    BY <1>1, <1>2, <2>1, SlotsSame DEF Owns, Block
<1>9. CASE LoadNext
  <2>1. Altered(Owns.next, [blocks[Owns.next] EXCEPT !.localFront = blocks[Owns.next].front])
    BY <1>9 DEF LoadNext, ProducerGoes, Altered
  <2> QED
    BY <1>1, <1>2, <2>1, SlotsSame DEF Block
<1>10. CASE StoreNext
  <2>1. Altered(Owns.next, [blocks[Owns.next] EXCEPT !.data[blocks[Owns.next].tail] = element])
    BY <1>10 DEF StoreNext, ProducerGoes, Altered
  <2>2. element \in Elements
    BY <1>10 DEF StoreNext, ProducerGoes, Whole, Placed
  <2> QED
    BY <1>1, <2>1, <2>2, SlotsWritten
<1>11. CASE PublishNext
  <2>1. PICK new : new = [blocks[Owns.next] EXCEPT !.tail = After(Owns.next, @)]
    OBVIOUS
  <2>2. Altered(Owns.next, new)
    BY <1>11, <2>1 DEF PublishNext, ProducerGoes, Altered
  <2>3. new.data = blocks[Owns.next].data
    BY <1>1, <1>2, <2>1 DEF Block
  <2> QED
    BY <1>1, <2>2, <2>3, SlotsSame
<1>12. CASE Link
  <2>1. Altered(tailBlock, [Owns EXCEPT !.next = Len(blocks)])
    BY <1>12 DEF Link, ProducerGoes, Altered, Owns
  <2> QED
    BY <1>1, <1>2, <2>1, SlotsSame DEF Owns, Block
<1>13. CASE LoadTail \/ Again
  <2>1. Altered(frontBlock, [blocks[frontBlock] EXCEPT !.localTail = blocks[frontBlock].tail])
    BY <1>13 DEF LoadTail, Again, ReadTail, ConsumerOnly, Altered
  <2> QED
    BY <1>1, <1>2, <2>1, SlotsSame DEF Block
<1>14. CASE LoadNextTail
  <2>1. CASE op = "peek"
    BY <1>3, <1>14, <2>1 DEF LoadNextTail
  <2>2. CASE op # "peek"
    <3>1. Altered(nextBlock, [blocks[nextBlock] EXCEPT !.localTail = blocks[nextBlock].tail])
      BY <1>14, <2>2 DEF LoadNextTail, ConsumerOnly, Altered
    <3> QED
      BY <1>1, <1>2, <3>1, SlotsSame DEF Block
  <2> QED
    BY <2>1, <2>2
<1>15. CASE Release
  <2>1. PICK new : new = [blocks[frontBlock] EXCEPT !.front = After(frontBlock, @)]
    OBVIOUS
  <2>2. Altered(frontBlock, new)
    BY <1>15, <2>1 DEF Release, ConsumerOnly, Altered
  <2>3. new.data = blocks[frontBlock].data
    BY <1>1, <1>2, <2>1 DEF Block
  <2> QED
    BY <1>1, <2>2, <2>3, SlotsSame
<1>16. CASE Allocate
  BY <1>16, SlotsAllocated DEF Whole
<1>17. CASE UNCHANGED vars
  BY <1>3, <1>17 DEF vars
<1> QED
  BY <1>4, <1>5, <1>6, <1>7, <1>8, <1>9, <1>10, <1>11, <1>12, <1>13, <1>14, <1>15, <1>16, <1>17
     DEF Next, Producer, Consumer

(* The first slot of a block is one of its slots. *)
LEMMA FrontSlot ==
  ASSUME Inv, Slots, NEW b \in Blocks
  PROVE  blocks[b].data[blocks[b].front] \in Elements \cup {Nothing}
<1>1. WellFormed(blocks[b]) /\ Filled(blocks[b])
  BY DEF Inv, Shape, Slots
<1>2. blocks[b].front \in DOMAIN blocks[b].data
  BY <1>1, BlockSize DEF WellFormed
<1> QED
  BY <1>1, <1>2 DEF Filled

(* The ring of blocks has no end. *)
LEMMA NextBlocks ==
  ASSUME Whole
  PROVE  \A b \in Blocks : blocks[b].next \in Blocks
BY DEF Whole, Ranked, Ranks, Circle, Blocks

LEMMA LocalsKept ==
  ASSUME Inv, Inv', Whole, Slots, Locals, [Next]_vars
  PROVE  Locals'
<1>1. Blocks \subseteq Blocks'
  BY SlotsKept
<1>2. frontBlock \in Blocks /\ nextBlock \in Blocks /\ result \in Elements \cup {Nothing}
  BY CircleEnds DEF Locals
<1>3. nextBlock' \in Blocks
  <2>1. nextBlock' = nextBlock \/ nextBlock' = blocks[frontBlock].next
    BY DEF Next, Producer, Enqueue, LoadFront, Store, Publish, Full, LoadNext, StoreNext,
       PublishNext, Allocate, Link, Advance, ProducerGoes, Consumer, Call, Look, LoadTail,
       LoadTailBlock, Again, LoadNextBlock, LoadNextTail, AdvanceFront, Take, Release,
       ReadTail, consumer, vars
  <2> QED
    BY <1>2, <2>1, NextBlocks
<1>4. result' \in Elements \cup {Nothing}
  <2> DEFINE first(b) == blocks[b].data[blocks[b].front]
  <2>1. first(frontBlock) \in Elements \cup {Nothing} /\ first(nextBlock) \in Elements \cup {Nothing}
    BY <1>2, FrontSlot
  <2>2. result' \in {result, Nothing, first(frontBlock), first(nextBlock)}
    BY DEF Next, Producer, Enqueue, LoadFront, Store, Publish, Full, LoadNext, StoreNext,
       PublishNext, Allocate, Link, Advance, ProducerGoes, Consumer, Call, Look, LoadTail,
       LoadTailBlock, Again, LoadNextBlock, LoadNextTail, AdvanceFront, Take, Release,
       ReadTail, Found, NotYet, consumer, vars
  <2> HIDE DEF first
  <2> QED
    BY <1>2, <2>1, <2>2
<1>5. Elements' = Elements
  BY DEF Elements
<1> QED
  BY <1>1, <1>3, <1>4 DEF Locals, Elements

LEMMA ModesKept == Modes /\ [Next]_vars => Modes'
<1> SUFFICES ASSUME Modes, [Next]_vars PROVE Modes'
  OBVIOUS
<1>1. roomy' \in BOOLEAN
  <2>1. CASE Enqueue
    <3>1. roomy' = (Len(Contents) < maxSize)
      BY <2>1 DEF Enqueue
    <3>2. (Len(Contents) < maxSize) \in BOOLEAN
      OBVIOUS
    <3> QED
      BY <3>1, <3>2, Zenon
  <2>2. CASE ~Enqueue
    <3>1. UNCHANGED roomy
      BY <2>2 DEF Next, Producer, LoadFront, Store, Publish, Full, LoadNext, StoreNext,
         PublishNext, Allocate, Link, Advance, ProducerGoes, Consumer, Call, Look, LoadTail,
         LoadTailBlock, Again, LoadNextBlock, LoadNextTail, AdvanceFront, Take, Release,
         ReadTail, ConsumerOnly, producer, vars
    <3> QED
      BY <3>1, Zenon DEF Modes
  <2> QED
    BY <2>1, <2>2
<1> USE DEF Next, Producer, Enqueue, LoadFront, Store, Publish, Full, LoadNext, StoreNext,
       PublishNext, Allocate, Link, Advance, ProducerGoes, Consumer, Call, Look, LoadTail,
       LoadTailBlock, Again, LoadNextBlock, LoadNextTail, AdvanceFront, Take, Release,
       ReadTail, Found, NotYet, ConsumerOnly, producer, consumer, vars
<1>2. ppc' \in ProducerStates
  BY DEF Modes, ProducerStates
<1>3. refused' \in 0..MaxRefused
  BY ElementsAssumption DEF Modes
<1>4. cpc' \in ConsumerStates
  BY DEF Modes, ConsumerStates
<1>5. op' \in {"peek", "dequeue"}
  BY DEF Modes
<1> QED
  BY <1>1, <1>2, <1>3, <1>4, <1>5, Zenon DEF Modes

(* Of Spec: front, tail and their copies are slots of their block, each    *)
(* slot holds an element or nothing, the blocks are linked to blocks, and  *)
(* each thread is at a position of its own.                                *)
THEOREM QueueTypeCorrect == Spec => []TypeOK
<1> DEFINE Typed == Slots /\ Locals /\ Modes
<1>1. Init => Typed
  <2> SUFFICES ASSUME Init PROVE Typed
    OBVIOUS
  <2>1. PICK size \in Sizes, count \in Nat \ {0} :
          blocks = [b \in 1..count |-> make_block(size, (b % count) + 1)]
    BY FirstRing
  <2>2. \A b \in Blocks : Filled(blocks[b])
    BY <2>1 DEF Blocks, Filled, make_block
  <2>3. 1 \in Blocks
    BY <2>1 DEF Blocks
  <2>4. Modes
    BY ElementsAssumption DEF Init, Modes, ProducerStates, ConsumerStates
  <2> QED
    BY <2>2, <2>3, <2>4 DEF Init, Slots, Locals
<1>2. (Inv /\ Whole) /\ (Inv /\ Whole)' /\ Typed /\ [Next]_vars => Typed'
  BY SlotsKept, LocalsKept, ModesKept
<1>3. Inv /\ Whole /\ Typed => TypeOK
  <2> SUFFICES ASSUME Inv, Whole, Typed PROVE TypeOK
    OBVIOUS
  <2>1. \A b \in Blocks :
          LET slots == DOMAIN blocks[b].data
          IN /\ {blocks[b].front, blocks[b].localTail, blocks[b].tail,
                 blocks[b].localFront} \subseteq slots
             /\ blocks[b].next \in Blocks
             /\ \A i \in slots : blocks[b].data[i] \in Elements \cup {Nothing}
    <3> SUFFICES ASSUME NEW b \in Blocks
                 PROVE  /\ {blocks[b].front, blocks[b].localTail, blocks[b].tail,
                            blocks[b].localFront} \subseteq DOMAIN blocks[b].data
                        /\ blocks[b].next \in Blocks
                        /\ Filled(blocks[b])
      BY DEF Filled
    <3>1. WellFormed(blocks[b])
      BY DEF Inv, Shape
    <3>2. DOMAIN blocks[b].data = 0..(Size(blocks[b]) - 1)
      BY <3>1, BlockSize DEF WellFormed
    <3> QED
      BY <3>1, <3>2, NextBlocks DEF WellFormed, Slots
  <2>2. frontBlock \in Blocks /\ tailBlock \in Blocks
    BY CircleEnds
  <2>3. queue \in Queues /\ largestBlockSize \in Nat /\ element \in 0..MaxElements
    BY DEF Inv, Shape, Sizes
  <2>4. empty \in BOOLEAN
    BY DEF Whole, Got
  <2> QED
    BY <2>1, <2>2, <2>3, <2>4 DEF TypeOK, Locals, Modes
<1> QED
  BY <1>1, <1>2, <1>3, Wholeness, PTL DEF Spec
===============================================================================
