----------------------------- MODULE MCCLogger -----------------------------
(***************************************************************************)
(* Three threads, and handlers that want errors, warnings too, or nothing. *)
(* Two of the threads set handlers, and each of them makes a second call:  *)
(* one handler replaces another, and calls overlap.                        *)
(***************************************************************************)
EXTENDS CLogger

CONSTANTS a, b

MCRequests ==
    {[callback |-> NoCallback, min_level |-> 30],
     [callback |-> a, min_level |-> 40],
     [callback |-> b, min_level |-> 30]}

MCMaxCalls == [t \in Threads |-> IF t \in Setters THEN 2 ELSE 1]

=============================================================================
