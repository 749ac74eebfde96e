-------------------------- MODULE MCImapCollector --------------------------
(* Two mails: the first holds a report the server must take and one that   *)
(* it may turn down, the second that one alone, and it may make the server *)
(* raise.                                                                  *)
EXTENDS ImapCollector

CONSTANTS m1, m2, r1, r2

Attached == [m \in {m1, m2} |-> IF m = m1 THEN {r1, r2} ELSE {r2}]

============================================================================
