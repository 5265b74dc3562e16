--------------------------- MODULE MCChatRequests ---------------------------
(***************************************************************************)
(* A small instance of ChatRequests for TLC: one chat may be stored at the *)
(* start, and there is an id for every request that creates one.           *)
(***************************************************************************)
EXTENDS ChatRequests

ChatIds == 0..Cardinality(Requests)
FirstChat == {0}
=============================================================================
