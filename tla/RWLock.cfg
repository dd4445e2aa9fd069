SPECIFICATION FairSpec
CONSTANTS
    Threads = {t1, t2, t3}
    None = None
INVARIANTS TypeOK Exclusion
PROPERTIES ImplementsLock WriterGetsIn
