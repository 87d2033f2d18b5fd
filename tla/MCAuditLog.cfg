\* Three overlapping transactions, two of which notify, and two fair publishers.
SPECIFICATION LiveSpec
CONSTANTS
    None = None
    Txs = {t1, t2, t3}
    Notifying = {t1, t2}
    Publishers = {p1, p2}
INVARIANTS ChainUnbroken DeliveredWasCommitted PublishedWasDelivered
PROPERTY EventuallyPublished
CHECK_DEADLOCK FALSE
