--------------------------- MODULE MCSlottedPage ---------------------------
EXTENDS SlottedPage, TLC

\* Sorted, unsorted, with a key twice, and one cell more than fits.
Cell(k, v) == [key |-> k, val |-> v]
MCContents ==
    {<<>>, <<Cell(1, 10), Cell(3, 10)>>, <<Cell(3, 10), Cell(2, 10)>>, <<Cell(2, 0), Cell(3, 1)>>,
     <<Cell(2, 10), Cell(2, 10)>>, <<Cell(1, 0), Cell(2, 1), Cell(3, 0), Cell(1, 1)>>}
=============================================================================
