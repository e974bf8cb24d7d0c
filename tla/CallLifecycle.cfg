SPECIFICATION Spec
CONSTANTS
    call1 = call1  call2 = call2  list = list
    Requests <- MCRequests
    Listings <- MCListings
INVARIANTS LogBalanced HeldToTheEnd
PROPERTIES ServerStops
