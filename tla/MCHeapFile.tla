---------------------------- MODULE MCHeapFile ----------------------------
EXTENDS HeapFile
\* A page holds 25 bytes of records and slots: two small records, or a large
\* one; a huge one fits no page.
MCRecords == {[data |-> "a", size |-> 4], [data |-> "b", size |-> 13],
              [data |-> "c", size |-> 22]}
MCRows == {<<>>} \cup {<<r>> : r \in MCRecords} \cup {<<q, r>> : q, r \in MCRecords}
=============================================================================
