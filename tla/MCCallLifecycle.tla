--------------------------- MODULE MCCallLifecycle ---------------------------
(***************************************************************************)
(* CallLifecycle on two tool calls and one listing, all of which the       *)
(* client may send, cancel or leave unsent before it closes its end.       *)
(***************************************************************************)
EXTENDS CallLifecycle

CONSTANTS call1, call2, list

MCRequests == {call1, call2, list}
MCListings == {list}

=============================================================================
