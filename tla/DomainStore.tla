------------------------------ MODULE DomainStore ------------------------------
(***************************************************************************)
(* What the lifecycle does with each domain when nobody deletes or         *)
(* restores by hand: it is created, perhaps archived, and only then        *)
(* removed, its reports with it at once.  The details of the reports are   *)
(* not removed (docs/DOMAIN_LIFECYCLE.md:61-66 says they are).             *)
(***************************************************************************)
CONSTANT Ids
VARIABLES
    status,   \* where each domain is in its life
    data,     \* the domains for which reports are stored
    details   \* the domains for which records of reports are stored

vars == <<status, data, details>>

Init == /\ status = [i \in Ids |-> "unused"]
        /\ data = {} /\ details = {}

Create(i) == /\ status[i] = "unused"
             /\ status' = [status EXCEPT ![i] = "active"]
             /\ UNCHANGED <<data, details>>

Archive(i) == /\ status[i] = "active"
              /\ status' = [status EXCEPT ![i] = "archived"]
              /\ UNCHANGED <<data, details>>

\* A report that was admitted while the domain was active may arrive late,
\* but never after the domain has gone; it may come with details.
Receive(i) == /\ status[i] \in {"active", "archived"}
              /\ data' = data \cup {i}
              /\ details' \in {details, details \cup {i}}
              /\ UNCHANGED status

Remove(i) == /\ status[i] = "archived"
             /\ status' = [status EXCEPT ![i] = "deleted"]
             /\ data' = data \ {i}
             /\ UNCHANGED details

Next == \E i \in Ids : Create(i) \/ Archive(i) \/ Receive(i) \/ Remove(i)

Spec == Init /\ [][Next]_vars
===============================================================================
