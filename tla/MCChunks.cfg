\* Batches of three items in chunks of two, with duplicates, stale receipts and receipts of
\* another consumer.
CONSTANTS
    c1 = c1
    c2 = c2
    Consumers = {c1, c2}
    Messages = {1, 2}
    Entries <- MCEntries
    NULL = NULL
    ChunkSize = 2
    MaxBatch = 3
    Deadlines = {1, 2}
    MaxReceipts = 3
    MaxArchives = 1
SPECIFICATION Spec
INVARIANTS TypeOK ChunksAreOneStatement CountsAreTrue
