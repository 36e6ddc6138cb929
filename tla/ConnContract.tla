--------------------------- MODULE ConnContract ---------------------------
(* What one call of conn_processDataReady may do to a connection, as the   *)
(* main loop relies on it (serverconnection.h).  The read state of a       *)
(* connection is abstracted to what the loop tells apart: RRS_IDLE (between *)
(* two requests) or IN_REQUEST (any other RequestReadState).  Connection   *)
(* implements Spec; ConnTable builds the connection table on Admissible.   *)

VARIABLES rrs,   \* "RRS_IDLE" or "IN_REQUEST", when the latest call returned
          call   \* the latest call: whether read() on the socket gave data, the
                 \* closeIfIdle argument, and the value returned

RRS == {"RRS_IDLE", "IN_REQUEST"}

\* enum ConnProcessingResult
Result == {"CONN_IDLE", "CONN_BUSY", "CONN_TO_CLOSE"}

\* before, after: the read states the call finds and leaves
Admissible(before, after, didRead, closeIfIdle, result) ==
  /\ result = "CONN_IDLE" => /\ before = "RRS_IDLE" /\ after = "RRS_IDLE"
                             /\ ~didRead /\ ~closeIfIdle
  /\ result = "CONN_BUSY" => /\ before = "RRS_IDLE" => didRead
                             /\ closeIfIdle => after # "RRS_IDLE"
  /\ before = "RRS_IDLE" /\ ~didRead => after = "RRS_IDLE"

Init == /\ rrs = "IN_REQUEST"
        /\ call = [didRead |-> FALSE, closeIfIdle |-> FALSE, result |-> "CONN_BUSY"]

Call == /\ call.result # "CONN_TO_CLOSE"
        /\ rrs' \in RRS
        /\ call' \in [didRead : BOOLEAN, closeIfIdle : BOOLEAN, result : Result]
        /\ Admissible(rrs, rrs', call'.didRead, call'.closeIfIdle, call'.result)

Spec == Init /\ [][Call]_<<rrs, call>>
===========================================================================
