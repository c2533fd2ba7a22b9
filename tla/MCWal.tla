------------------------------- MODULE MCWal -------------------------------
\* Small instances of the log, with records of one or two units so that new
\* records can fall across the remains of old ones.
EXTENDS Wal

CONSTANTS t1, auto

MCTxns == {t1}

\* Records of a transaction, of a call outside transactions, and of checkpoints.
\* (Begin and Clr are appended like updates, Abort like Commit.)
MCRequests ==
    {[type |-> "Update", txn |-> t1, len |-> 2], [type |-> "Update", txn |-> auto, len |-> 1],
     [type |-> "Commit", txn |-> t1, len |-> 1], [type |-> "Checkpoint", txn |-> auto, len |-> 2]}
=============================================================================
