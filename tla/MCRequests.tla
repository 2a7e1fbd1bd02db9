----------------------------- MODULE MCRequests -----------------------------
(* Values of Requests' constants for TLC.                                  *)
EXTENDS RequestsInv

\* One client of each server.
MCHomeTwo == [c \in Clients |-> IF c = "c1" THEN "a" ELSE "b"]
\* All clients are clients of a.
MCHomeOne == [c \in Clients |-> "a"]
=============================================================================
