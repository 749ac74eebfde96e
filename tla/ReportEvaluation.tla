------------------------- MODULE ReportEvaluation -------------------------
(***************************************************************************)
(* The two judgements the backend makes on data it was handed: the         *)
(* alignment of an aggregate record, whose authentication results arrive   *)
(* one after the other, and the direction of a DNS change, between one     *)
(* check and the next.  Each behaviour follows one of the two.             *)
(***************************************************************************)
EXTENDS DmarcAlignment, MonitoringTimeline, Integers

CONSTANTS
    Records,     \* records as the parser builds them, before their auth results
    Results,     \* authentication results a record may list
    MaxResults,  \* bound on their number
    Snapshots    \* what a DNS check may find

ASSUME EvaluationAssumption ==
    /\ Records \subseteq Evaluated /\ Results \subseteq AuthResult
    /\ \A s \in Snapshots : IsSnapshot(s)
    /\ \A s, t \in Snapshots : DOMAIN s.dkim = DOMAIN t.dkim

VARIABLES
    record,      \* <<>>, or the record under evaluation
    timeline     \* <<>>, or the snapshots of the domain's last checks

vars == <<record, timeline>>

Init == \/ record \in {<<r>> : r \in Records} /\ timeline = <<>>
        \/ record = <<>> /\ timeline \in {<<s>> : s \in Snapshots}

\* _parse_auth_results: one more result, in the order of the report
AddResult(result) ==
    /\ record # <<>> /\ Len(record[1].auth) < MaxResults
    /\ record' = <<[record[1] EXCEPT !.auth = Append(@, result)]>>
    /\ UNCHANGED timeline

\* run_monitoring_job: a check without lookup error replaces the current state
Observe(snapshot) ==
    /\ Len(timeline) = 1
    /\ timeline' = Append(timeline, snapshot)
    /\ UNCHANGED record

Next == (\E result \in Results : AddResult(result)) \/ (\E s \in Snapshots : Observe(s))
Spec == Init /\ [][Next]_vars

----------------------------------------------------------------------------
(* Properties.                                                             *)

\* A record passes exactly if some identifier that authenticated is aligned with
\* the From domain by RFC 7489; what the loops see first, or the records an
\* unknown domain spoils, make no difference to a pass.
PassIsAligned ==
    \A i \in DOMAIN record : DmarcVerdict(record[i]) = "pass" <=> ShouldPass(record[i])

\* A failure rests on evidence: no identifier that passed has a domain that could
\* not be judged, and both methods gave a result.
Unjudged(d, from, mode) ==
    \/ NoDomain \in {d, from}
    \/ d # from /\ mode = "r" /\ NoDomain \in {Organization(d), Organization(from)}
FailureIsCertain ==
    \A i \in DOMAIN record :
        LET rec == record[i] IN
        DmarcVerdict(rec) = "fail" =>
            /\ \A d \in Authenticated(rec, "dkim") : ~Unjudged(d, rec.from, rec.adkim)
            /\ \A d \in Authenticated(rec, "spf") : ~Unjudged(d, rec.from, rec.aspf)
            /\ Authenticated(rec, "dkim") = {} => rec.dkim = "fail"
            /\ Authenticated(rec, "spf") = {} => rec.spf = "fail"

\* A setting that protects less than it did, judged by what it tells a receiver and
\* not by the ranks of the code, makes the change a degradation, whatever else
\* improved in the same check.  Two cases are left out of Weaker because the code
\* shows them otherwise: subdomains that had inherited reject and now have
\* sp=quarantine (shown as improved), and senders added to a record that has more
\* than MaxSenders (may be shown as neutral, or improved).
WeakeningShows ==
    Len(timeline) = 2 /\ Weaker(timeline[1], timeline[2])
        => Direction(timeline[1], timeline[2]) = "degraded"

\* Undoing an improvement is a degradation, as long as the selectors that are
\* watched stay the same.
UndoingDegrades ==
    /\ Len(timeline) = 2
    /\ Configured(timeline[1]) = Configured(timeline[2])
    /\ Direction(timeline[1], timeline[2]) = "improved"
    => Direction(timeline[2], timeline[1]) = "degraded"

============================================================================
