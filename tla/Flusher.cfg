SPECIFICATION FairSpec
CONSTANTS
    Groups = {g1}
    MaxSeq = 3
    Flushers = {f1}
INVARIANTS TicketsHonest NoTicketStuck FlushDelivers BackoffHolds
PROPERTY TicketsComplete
