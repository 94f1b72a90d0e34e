------------------------------ MODULE FilterSpec ------------------------------
(***************************************************************************)
(* What one FilterOperator run promises, in one step: given a committed   *)
(* segment, the materialized log over it, the query ids and the where     *)
(* clause, the run either fails or ends with exactly the records that are *)
(* live after the log and satisfy the filter (FilterData!Expected).       *)
(* "result" is the set of offsets the next operator keeps when it applies *)
(* the log mask to the log's live entries and the compact mask to the     *)
(* segment's records.                                                     *)
(***************************************************************************)
EXTENDS FilterData

VARIABLES segment, logs, queryIds, whereClause, phase, result

vars == <<segment, logs, queryIds, whereClause, phase, result>>

Init ==
    /\ segment \in Segments
    /\ logs \in LogsOver(segment)
    /\ queryIds \in QueryIdSets
    /\ whereClause \in Clauses
    /\ phase = "running"
    /\ result = {}

Finish ==
    /\ phase = "running"
    /\ phase' = "done"
    /\ result' = Expected(segment, logs, queryIds, whereClause)
    /\ UNCHANGED <<segment, logs, queryIds, whereClause>>

Fail ==
    /\ phase = "running"
    /\ phase' = "failed"
    /\ UNCHANGED <<segment, logs, queryIds, whereClause, result>>

Next == Finish \/ Fail

\* A run is a sequence of awaited calls that each return: it ends.
Spec == Init /\ [][Next]_vars /\ WF_vars(Next)

=============================================================================
