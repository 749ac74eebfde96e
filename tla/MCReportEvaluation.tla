------------------------ MODULE MCReportEvaluation ------------------------
(* Bounded inputs of ReportEvaluation for TLC.                             *)
EXTENDS ReportEvaluation

MCDomains == {"com", "example.com", "mail.example.com", "other.com"}
MCSldOf == [d \in MCDomains \ {"com"} |->
               IF d = "mail.example.com" THEN "example.com" ELSE d]

MCRecords ==
    [from : {"com", "example.com", "mail.example.com", NoDomain},
     envelope : {"example.com", "other.com", NoDomain},
     dkim : {"pass", "fail", "absent"}, spf : {"pass", "fail", "absent"},
     adkim : {"r", "s"}, aspf : {"r", "s"}, auth : {<<>>}]

Result(method, result, scope) ==
    [method : {method}, result : {result}, scope : {scope}, domain : MCDomains \union {NoDomain}]
MCResults ==
    Result("dkim", "pass", "none") \union Result("spf", "pass", "mfrom")
    \union Result("spf", "pass", "helo")
    \union [method : {"dkim", "spf"}, result : {"fail"}, scope : {"none"},
            domain : {"example.com"}]

Tags == [p : {"none", "quarantine", "reject"}, sp : {"unset", "none", "quarantine", "reject"},
         adkim : {"unset", "s"}, aspf : {"r", "s"}, pct : {50, 100}]
Plain == [p |-> "none", sp |-> "unset", adkim |-> "unset", aspf |-> "r", pct |-> 100]
Dmarc == {NoDmarc, DmarcRecord(Plain, 2)} \union {DmarcRecord(tags, 1) : tags \in Tags}
Mechanisms == {<<>>, <<"mx">>, <<"include:x">>, <<"mx", "include:x">>, <<"include:x", "mx">>,
               <<"ip4:y", "mx", "include:x">>, <<"mx", "include:x", "ip4:y">>}
Spf == {NoSpf} \union {SpfRecord(q, mechanisms, 1) :
          q \in {"fail", "softfail", "neutral", "allow_all"}, mechanisms \in Mechanisms}
Dkim == {NoDkim, NotConfigured, DkimRecord(TRUE, 1), DkimRecord(TRUE, 2), DkimRecord(FALSE, 1)}

Snapshot(dmarc, spf, dkim) == [dmarc |-> dmarc, spf |-> spf, dkim |-> [s1 |-> dkim]]
MCSnapshots ==
    {Snapshot(d, NoSpf, DkimRecord(TRUE, 1)) : d \in Dmarc}
    \union {Snapshot(d, s, k) : d \in {NoDmarc, DmarcRecord(Plain, 1)}, s \in Spf, k \in Dkim}
============================================================================
