------------------------- MODULE MCReaderWriterQueue -------------------------
(* Queues for ReaderWriterQueue: one block that has to grow twice, one     *)
(* block larger than MAX_BLOCK_SIZE, and a ring of five small blocks.      *)
EXTENDS ReaderWriterQueue
TheQueues == {[maxSize |-> 1, MAX_BLOCK_SIZE |-> 4],
              [maxSize |-> 2, MAX_BLOCK_SIZE |-> 2],
              [maxSize |-> 4, MAX_BLOCK_SIZE |-> 2]}
=============================================================================
