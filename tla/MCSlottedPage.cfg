SPECIFICATION Spec
CONSTANTS
    PAGE_SIZE = 100
    Keys = {1, 2, 3, 4}
    HeapIds = {10}
    PageIds = {0, 1}
    Contents <- MCContents
INVARIANTS PageSound ReadAsWritten RoomForOrder
PROPERTIES ImplementsSortedPage CallEnds
