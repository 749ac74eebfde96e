----------------------- MODULE ReportEvaluationProofs -----------------------
(***************************************************************************)
(* Theorems of module ReportEvaluation, for records with any number of     *)
(* authentication results in any order, for any public suffix list, and    *)
(* for any two DNS states: a pass rests on an aligned identifier, a        *)
(* failure on evidence; a weaker setting degrades, and so does undoing an  *)
(* improvement.                                                            *)
(***************************************************************************)
EXTENDS ReportEvaluation, SequenceTheorems, TLAPS

\* What is evaluated is a record, or a timeline.
InputsOK ==
    /\ record \in Seq(Evaluated)
    /\ timeline \in Seq(Snapshots)

\* Results are added to records, and states to timelines.
LEMMA InputsAlways == Spec => []InputsOK
<1>1. ASSUME Init PROVE InputsOK
  <2>1. CASE timeline = <<>> /\ \E r \in Records : record = <<r>>
    <3>1. PICK r \in Evaluated : record = <<r>>
      BY <2>1, EvaluationAssumption
    <3>. QED  BY <2>1, <3>1 DEF InputsOK
  <2>2. CASE record = <<>> /\ \E s \in Snapshots : timeline = <<s>>
    BY <2>2 DEF InputsOK
  <2>. QED  BY <1>1, <2>1, <2>2 DEF Init
<1>2. ASSUME InputsOK, [Next]_vars PROVE InputsOK'
  <2>1. ASSUME NEW result \in Results, AddResult(result) PROVE InputsOK'
    <3>1. record # <<>> /\ record \in Seq(Evaluated)
      BY <1>2, <2>1 DEF AddResult, InputsOK
    <3>2. PICK rec \in Evaluated : rec = record[1]
      BY <3>1
    <3>3. Append(rec.auth, result) \in Seq(AuthResult)
      BY EvaluationAssumption DEF Evaluated
    <3>4. [rec EXCEPT !.auth = Append(@, result)] \in Evaluated
      BY <3>3 DEF Evaluated
    <3>5. record' = <<[rec EXCEPT !.auth = Append(@, result)]>> /\ UNCHANGED timeline
      BY <2>1, <3>2 DEF AddResult
    <3>. QED  BY <1>2, <3>4, <3>5 DEF InputsOK
  <2>2. ASSUME NEW s \in Snapshots, Observe(s) PROVE InputsOK'
    BY <1>2, <2>2 DEF Observe, InputsOK
  <2>3. CASE UNCHANGED vars
    BY <1>2, <2>3 DEF vars, InputsOK
  <2>. QED  BY <1>2, <2>1, <2>2, <2>3 DEF Next
<1>3. InputsOK /\ [Next]_vars => InputsOK'
  BY <1>2
<1>. QED  BY <1>1, <1>3, PTL DEF Spec

-----------------------------------------------------------------------------
(* Alignment.                                                              *)

\* An identifier is strict or relaxed exactly if RFC 7489 calls it aligned, and "none" only
\* if it could be judged.
LEMMA Classified ==
    ASSUME NEW d \in Domains \union {NoDomain}, NEW from \in Domains \union {NoDomain},
           NEW mode \in {"r", "s"}
    PROVE  /\ ClassifyAlignment(d, from, mode) \in {"strict", "relaxed", "unknown", "none"}
           /\ ClassifyAlignment(d, from, mode) \in {"strict", "relaxed"}
                 <=> AlignedWith(d, from, mode)
           /\ ClassifyAlignment(d, from, mode) = "none" => ~Unjudged(d, from, mode)
<1>1. CASE NoDomain \in {d, from}
  BY <1>1 DEF ClassifyAlignment, AlignedWith
<1>2. CASE NoDomain \notin {d, from} /\ d = from
  <2>1. ClassifyAlignment(d, from, mode) = "strict"
    BY <1>2 DEF ClassifyAlignment
  <2>. QED  BY <1>2, <2>1 DEF AlignedWith
<1>3. CASE NoDomain \notin {d, from} /\ d # from /\ mode = "s"
  <2>1. ClassifyAlignment(d, from, mode) = "none"
    BY <1>3 DEF ClassifyAlignment
  <2>. QED  BY <1>3, <2>1 DEF AlignedWith, Unjudged
<1>4. CASE NoDomain \notin {d, from} /\ d # from /\ mode = "r"
  <2>1. ClassifyAlignment(d, from, mode) =
           IF NoDomain \in {Organization(d), Organization(from)} THEN "unknown"
           ELSE IF Organization(d) = Organization(from) THEN "relaxed" ELSE "none"
    BY <1>4 DEF ClassifyAlignment
  <2>. QED  BY <1>4, <2>1 DEF AlignedWith, Unjudged
<1>. QED  BY <1>1, <1>2, <1>3, <1>4

\* The loop finds an aligned identifier wherever it is, and says "none" only if each of
\* them could be judged.
LEMMA BestOfAll ==
    ASSUME NEW candidates, \A i \in DOMAIN candidates : candidates[i] \in Domains \union {NoDomain},
           NEW from \in Domains \union {NoDomain}, NEW mode \in {"r", "s"}
    PROVE  /\ Best(candidates, from, mode) \in {"strict", "relaxed", "unknown", "none"}
           /\ Best(candidates, from, mode) \in {"strict", "relaxed"}
                 <=> \E i \in DOMAIN candidates : AlignedWith(candidates[i], from, mode)
           /\ Best(candidates, from, mode) = "none" =>
                 \A i \in DOMAIN candidates : ~Unjudged(candidates[i], from, mode)
<1>. DEFINE seen == {ClassifyAlignment(candidates[i], from, mode) : i \in DOMAIN candidates}
<1>1. \A i \in DOMAIN candidates :
         /\ ClassifyAlignment(candidates[i], from, mode) \in {"strict", "relaxed", "unknown", "none"}
         /\ ClassifyAlignment(candidates[i], from, mode) \in {"strict", "relaxed"}
               <=> AlignedWith(candidates[i], from, mode)
         /\ ClassifyAlignment(candidates[i], from, mode) = "none"
               => ~Unjudged(candidates[i], from, mode)
  BY Classified
<1>2. Best(candidates, from, mode) = IF "strict" \in seen THEN "strict"
                                     ELSE IF "relaxed" \in seen THEN "relaxed"
                                     ELSE IF "unknown" \in seen THEN "unknown" ELSE "none"
  BY DEF Best
<1>3. seen \intersect {"strict", "relaxed"} # {}
         <=> \E i \in DOMAIN candidates : AlignedWith(candidates[i], from, mode)
  BY <1>1
<1>4. seen \intersect {"strict", "relaxed", "unknown"} = {} =>
         \A i \in DOMAIN candidates : ~Unjudged(candidates[i], from, mode)
  BY <1>1
<1>. HIDE DEF seen
<1>. QED  BY <1>2, <1>3, <1>4

\* The identifiers the code compares are those that authenticated by the reference.
LEMMA PassingResults ==
    ASSUME NEW rec \in Evaluated, NEW method \in {"dkim", "spf"}
    PROVE  /\ \A i \in DOMAIN Passing(rec, method) :
                 Passing(rec, method)[i] \in Domains \union {NoDomain}
           /\ {Passing(rec, method)[i] : i \in DOMAIN Passing(rec, method)} =
                 {rec.auth[i].domain : i \in {j \in DOMAIN rec.auth :
                    /\ rec.auth[j].method = method /\ rec.auth[j].result = "pass"
                    /\ method = "spf" => rec.auth[j].scope # "helo"}}
<1>. DEFINE positions == {j \in DOMAIN rec.auth :
                             /\ rec.auth[j].method = method /\ rec.auth[j].result = "pass"
                             /\ method = "spf" => rec.auth[j].scope # "helo"}
<1>1. Passing(rec, method) = [i \in positions |-> rec.auth[i].domain]
  BY DEF Passing
<1>2. \A i \in positions : rec.auth[i].domain \in Domains \union {NoDomain}
  <2>1. \A i \in DOMAIN rec.auth : rec.auth[i] \in AuthResult
    BY DEF Evaluated
  <2>. QED  BY <2>1 DEF AuthResult
<1>. HIDE DEF positions
<1>3. /\ \A i \in DOMAIN Passing(rec, method) :
            Passing(rec, method)[i] \in Domains \union {NoDomain}
      /\ {Passing(rec, method)[i] : i \in DOMAIN Passing(rec, method)} =
            {rec.auth[i].domain : i \in positions}
  BY <1>1, <1>2
<1>. QED  BY <1>3 DEF positions


\* DKIM: aligned exactly if an identifier that authenticated is; "none" rests on evidence.
LEMMA DkimJudged ==
    ASSUME NEW rec \in Evaluated
    PROVE  /\ DkimAlignment(rec) \in {"strict", "relaxed", "unknown", "none"}
           /\ DkimAlignment(rec) \in {"strict", "relaxed"}
                 <=> \E d \in Authenticated(rec, "dkim") : AlignedWith(d, rec.from, rec.adkim)
           /\ DkimAlignment(rec) = "none" =>
                 /\ \A d \in Authenticated(rec, "dkim") : ~Unjudged(d, rec.from, rec.adkim)
                 /\ Authenticated(rec, "dkim") = {} => rec.dkim = "fail"
<1>. DEFINE candidates == Passing(rec, "dkim")
<1>1. /\ \A i \in DOMAIN candidates : candidates[i] \in Domains \union {NoDomain}
      /\ Authenticated(rec, "dkim") = {candidates[i] : i \in DOMAIN candidates}
  <2>1. "dkim" # "spf"
    OBVIOUS
  <2>. QED  BY <2>1, PassingResults DEF Authenticated
<1>2. rec.from \in Domains \union {NoDomain} /\ rec.adkim \in {"r", "s"}
  BY DEF Evaluated
<1>3. DkimAlignment(rec) = IF DOMAIN candidates = {} THEN Unaligned(rec.dkim)
                           ELSE Best(candidates, rec.from, rec.adkim)
  BY DEF DkimAlignment, Without
<1>. HIDE DEF candidates
<1>4. CASE DOMAIN candidates = {}
  <2>1. Authenticated(rec, "dkim") = {}
    BY <1>1, <1>4
  <2>. QED  BY <1>3, <1>4, <2>1 DEF Unaligned
<1>5. CASE DOMAIN candidates # {}
  <2>1. /\ Best(candidates, rec.from, rec.adkim) \in {"strict", "relaxed", "unknown", "none"}
        /\ Best(candidates, rec.from, rec.adkim) \in {"strict", "relaxed"}
              <=> \E i \in DOMAIN candidates : AlignedWith(candidates[i], rec.from, rec.adkim)
        /\ Best(candidates, rec.from, rec.adkim) = "none" =>
              \A i \in DOMAIN candidates : ~Unjudged(candidates[i], rec.from, rec.adkim)
    BY <1>1, <1>2, BestOfAll
  <2>. QED  BY <1>1, <1>3, <1>5, <2>1
<1>. QED  BY <1>4, <1>5

\* SPF likewise, where the envelope's domain may stand in
LEMMA SpfJudged ==
    ASSUME NEW rec \in Evaluated
    PROVE  /\ SpfAlignment(rec) \in {"strict", "relaxed", "unknown", "none"}
           /\ SpfAlignment(rec) \in {"strict", "relaxed"}
                 <=> \E d \in Authenticated(rec, "spf") : AlignedWith(d, rec.from, rec.aspf)
           /\ SpfAlignment(rec) = "none" =>
                 /\ \A d \in Authenticated(rec, "spf") : ~Unjudged(d, rec.from, rec.aspf)
                 /\ Authenticated(rec, "spf") = {} => rec.spf = "fail"
<1>. DEFINE passing == Passing(rec, "spf")
            candidates == SpfCandidates(rec)
<1>1. /\ \A i \in DOMAIN passing : passing[i] \in Domains \union {NoDomain}
      /\ Authenticated(rec, "spf") =
            IF {passing[i] : i \in DOMAIN passing} = {} /\ rec.spf = "pass" THEN {rec.envelope}
            ELSE {passing[i] : i \in DOMAIN passing}
  BY PassingResults DEF Authenticated
<1>2. /\ rec.from \in Domains \union {NoDomain} /\ rec.envelope \in Domains \union {NoDomain}
      /\ rec.aspf \in {"r", "s"} /\ rec.spf \in {"pass", "fail", "absent"}
  BY DEF Evaluated
<1>3. candidates = IF DOMAIN passing = {} /\ rec.spf = "pass" /\ rec.envelope # NoDomain
                   THEN <<rec.envelope>> ELSE passing
  BY DEF SpfCandidates, Without
<1>4. SpfAlignment(rec) = IF DOMAIN candidates = {} THEN Unaligned(rec.spf)
                          ELSE Best(candidates, rec.from, rec.aspf)
  BY DEF SpfAlignment, Without
<1>. HIDE DEF passing, candidates
<1>5. \A i \in DOMAIN candidates : candidates[i] \in Domains \union {NoDomain}
  BY <1>1, <1>2, <1>3
<1>6. /\ Best(candidates, rec.from, rec.aspf) \in {"strict", "relaxed", "unknown", "none"}
      /\ Best(candidates, rec.from, rec.aspf) \in {"strict", "relaxed"}
            <=> \E i \in DOMAIN candidates : AlignedWith(candidates[i], rec.from, rec.aspf)
      /\ Best(candidates, rec.from, rec.aspf) = "none" =>
            \A i \in DOMAIN candidates : ~Unjudged(candidates[i], rec.from, rec.aspf)
  BY <1>2, <1>5, BestOfAll
<1>7. CASE DOMAIN passing # {}
  <2>1. candidates = passing /\ Authenticated(rec, "spf") = {passing[i] : i \in DOMAIN passing}
    BY <1>1, <1>3, <1>7
  <2>. QED  BY <1>4, <1>6, <1>7, <2>1
<1>8. CASE DOMAIN passing = {} /\ rec.spf = "pass" /\ rec.envelope # NoDomain
  <2>1. candidates = <<rec.envelope>> /\ Authenticated(rec, "spf") = {rec.envelope}
    BY <1>1, <1>3, <1>8
  <2>2. DOMAIN candidates = {1} /\ candidates[1] = rec.envelope
    BY <2>1
  <2>. QED  BY <1>4, <1>6, <1>8, <2>1, <2>2
<1>9. CASE DOMAIN passing = {} /\ rec.spf = "pass" /\ rec.envelope = NoDomain
  <2>1. candidates = passing /\ Authenticated(rec, "spf") = {NoDomain}
    BY <1>1, <1>3, <1>9
  <2>2. SpfAlignment(rec) = "unknown"
    BY <1>4, <1>9, <2>1 DEF Unaligned
  <2>. QED  BY <2>1, <2>2 DEF AlignedWith
<1>10. CASE DOMAIN passing = {} /\ rec.spf # "pass"
  <2>1. candidates = passing /\ Authenticated(rec, "spf") = {}
    BY <1>1, <1>3, <1>10
  <2>2. SpfAlignment(rec) = IF rec.spf = "fail" THEN "none" ELSE "unknown"
    BY <1>4, <1>10, <2>1 DEF Unaligned
  <2>. QED  BY <2>1, <2>2
<1>. QED  BY <1>7, <1>8, <1>9, <1>10

\* A record passes exactly if an identifier that authenticated is aligned with its From
\* domain by RFC 7489, whatever other results it lists and in whatever order.
THEOREM PassesAreAligned == Spec => []PassIsAligned
<1>1. ASSUME NEW rec \in Evaluated
      PROVE  DmarcVerdict(rec) = "pass" <=> ShouldPass(rec)
  <2>1. DmarcVerdict(rec) = "pass" <=> \/ DkimAlignment(rec) \in {"strict", "relaxed"}
                                       \/ SpfAlignment(rec) \in {"strict", "relaxed"}
    <3>. DEFINE dkim == DkimAlignment(rec)
                spf == SpfAlignment(rec)
    <3>1. dkim \in {"strict", "relaxed", "unknown", "none"}
          /\ spf \in {"strict", "relaxed", "unknown", "none"}
      BY DkimJudged, SpfJudged
    <3>2. DmarcVerdict(rec) = Verdict(dkim, spf)
      BY DEF DmarcVerdict
    <3>. HIDE DEF dkim, spf
    <3>3. Verdict(dkim, spf) = "pass" <=> \/ dkim \in {"strict", "relaxed"}
                                          \/ spf \in {"strict", "relaxed"}
      BY <3>1 DEF Verdict
    <3>. QED  BY <3>2, <3>3 DEF dkim, spf
  <2>2. ShouldPass(rec) <=> \/ DkimAlignment(rec) \in {"strict", "relaxed"}
                            \/ SpfAlignment(rec) \in {"strict", "relaxed"}
    BY DkimJudged, SpfJudged DEF ShouldPass
  <2>. QED  BY <2>1, <2>2
<1>2. InputsOK => PassIsAligned
  BY <1>1 DEF InputsOK, PassIsAligned
<1>. QED  BY <1>2, InputsAlways, PTL

\* A record fails only on evidence: every identifier that authenticated could be judged, and
\* a method without one has failed by the record's own verdict.
THEOREM FailuresAreCertain == Spec => []FailureIsCertain
<1>1. ASSUME NEW rec \in Evaluated, DmarcVerdict(rec) = "fail"
      PROVE  DkimAlignment(rec) = "none" /\ SpfAlignment(rec) = "none"
  <2>. DEFINE dkim == DkimAlignment(rec)
              spf == SpfAlignment(rec)
  <2>1. Verdict(dkim, spf) = "fail"
    BY <1>1 DEF DmarcVerdict
  <2>. HIDE DEF dkim, spf
  <2>2. dkim = "none" /\ spf = "none"
    BY <2>1 DEF Verdict
  <2>. QED  BY <2>2 DEF dkim, spf
<1>2. ASSUME NEW rec \in Evaluated, DmarcVerdict(rec) = "fail"
      PROVE  /\ \A d \in Authenticated(rec, "dkim") : ~Unjudged(d, rec.from, rec.adkim)
             /\ \A d \in Authenticated(rec, "spf") : ~Unjudged(d, rec.from, rec.aspf)
             /\ Authenticated(rec, "dkim") = {} => rec.dkim = "fail"
             /\ Authenticated(rec, "spf") = {} => rec.spf = "fail"
  BY <1>1, <1>2, DkimJudged, SpfJudged
<1>3. InputsOK => FailureIsCertain
  BY <1>2 DEF InputsOK, FailureIsCertain
<1>. QED  BY <1>3, InputsAlways, PTL


-----------------------------------------------------------------------------
(* Direction of a change.                                                  *)

\* A tag or qualifier ranks as a number.
LEMMA Ranks ==
    /\ \A value : PolicyRank(value) \in Int /\ AlignmentRank(value) \in Int
                  /\ QualifierRank(value) \in Int
    /\ \A tag \in DmarcTags : \A tags : tags["pct"] \in Int => TagRank(tag, tags[tag]) \in Int
<1>1. \A value : PolicyRank(value) \in Int /\ AlignmentRank(value) \in Int
                 /\ QualifierRank(value) \in Int
  BY DEF PolicyRank, AlignmentRank, QualifierRank
<1>2. ASSUME NEW tag \in DmarcTags, NEW tags, tags["pct"] \in Int
      PROVE  TagRank(tag, tags[tag]) \in Int
  BY <1>1, <1>2 DEF TagRank, DmarcTags
<1>. QED  BY <1>1, <1>2

\* A tag that changed without ranking higher counts as a degradation.
TagFalls(before, after) ==
    \E tag \in DmarcTags : /\ before.tags[tag] # after.tags[tag]
                           /\ ~(TagRank(tag, after.tags[tag]) > TagRank(tag, before.tags[tag]))

\* Degradations among the changes of a part make the whole degraded; without any, some
\* improvement makes it improved.
LEMMA OverallDirection ==
    ASSUME NEW changes
    PROVE  /\ (\E c \in changes : c.direction = "degraded") => Overall(changes) = "degraded"
           /\ Overall(changes) = "improved" =>
                 /\ \E c \in changes : c.direction = "improved"
                 /\ ~\E c \in changes : c.direction = "degraded"
BY DEF Overall

\* Text alone never hides or makes a degradation or an improvement.
LEMMA TextIsNeutral ==
    ASSUME NEW what, NEW changes, NEW before, NEW after, NEW direction \in {"improved", "degraded"}
    PROVE  (\E c \in OrTextOnly(what, changes, before, after) : c.direction = direction)
              <=> \E c \in changes : c.direction = direction
<1>1. CASE changes = {} /\ before.raw # after.raw
  BY <1>1 DEF OrTextOnly, Change
<1>2. CASE ~(changes = {} /\ before.raw # after.raw)
  <2>1. OrTextOnly(what, changes, before, after) = changes
    BY <1>2 DEF OrTextOnly
  <2>. QED  BY <2>1
<1>. QED  BY <1>1, <1>2

\* A record that went is a degradation, one that came an improvement.
LEMMA AppearanceDirection ==
    ASSUME NEW what, NEW after
    PROVE  Appearance(what, after).direction
              = IF after.status = "missing" THEN "degraded" ELSE "improved"
<1>1. PICK gone, back : gone = what \o " missing" /\ back = what \o " restored"
  OBVIOUS
<1>2. Appearance(what, after)
        = IF after.status = "missing" THEN Change(gone, "degraded") ELSE Change(back, "improved")
  BY <1>1 DEF Appearance
<1>. QED  BY <1>2 DEF Change

\* What makes a change of the DMARC record a degradation
LEMMA DmarcDegrades ==
    ASSUME NEW before, NEW after,
           \/ Lost(before, after)
           \/ before.status = after.status /\ TagFalls(before, after)
    PROVE  \E c \in DiffDmarc(before, after) : c.direction = "degraded"
<1>1. CASE Lost(before, after)
  BY <1>1 DEF DiffDmarc, Appears, Appearance, Change, Lost
<1>2. CASE before.status = after.status /\ TagFalls(before, after)
  <2>1. \E c \in TagChanges(before, after) : c.direction = "degraded"
    <3>1. PICK tag \in DmarcTags :
             /\ before.tags[tag] # after.tags[tag]
             /\ ~(TagRank(tag, after.tags[tag]) > TagRank(tag, before.tags[tag]))
      BY <1>2 DEF TagFalls
    <3>2. Change(tag, "degraded") \in TagChanges(before, after)
      BY <3>1 DEF TagChanges
    <3>. QED  BY <3>2 DEF Change
  <2>2. DiffDmarc(before, after) = OrTextOnly("dmarc", TagChanges(before, after), before, after)
    BY <1>2 DEF DiffDmarc, Appears
  <2>3. PICK changes : changes = TagChanges(before, after)
    OBVIOUS
  <2>. QED  BY <2>1, <2>2, <2>3, TextIsNeutral
<1>. QED  BY <1>1, <1>2

\* A looser tag falls by the ranks of the code, or the policy it had inherited does.
LEMMA LooserTagFalls ==
    ASSUME NEW before, NEW after, before.tags["pct"] \in Int, after.tags["pct"] \in Int,
           NEW tag \in DmarcTags, LooserTag(tag, before.tags, after.tags),
           ~TakesInherited(tag, before.tags, after.tags)
    PROVE  TagFalls(before, after)
<1>. DEFINE b == before.tags
            a == after.tags
            Falls(t) == b[t] # a[t] /\ ~(TagRank(t, a[t]) > TagRank(t, b[t]))
<1>1. \A than, value : WeakerPolicy(value, than) =>
         value # than /\ ~(PolicyRank(value) > PolicyRank(than))
  BY DEF WeakerPolicy, PolicyRank
<1>2. CASE tag = "p"
  <2>1. WeakerPolicy(a["p"], b["p"])
    BY <1>2 DEF LooserTag
  <2>2. Falls("p")
    BY <1>1, <2>1 DEF TagRank
  <2>. QED  BY <2>2 DEF TagFalls, DmarcTags
<1>3. CASE tag = "sp" /\ b["sp"] = "unset" /\ a["sp"] = "unset"
  <2>1. WeakerPolicy(a["p"], b["p"])
    BY <1>3 DEF LooserTag, SubdomainPolicy
  <2>2. Falls("p")
    BY <1>1, <2>1 DEF TagRank
  <2>. QED  BY <2>2 DEF TagFalls, DmarcTags
<1>4. CASE tag = "sp" /\ b["sp"] = "unset" /\ a["sp"] # "unset"
  <2>1. WeakerPolicy(a["sp"], b["p"]) /\ a["sp"] # "quarantine"
    BY <1>4 DEF LooserTag, SubdomainPolicy, TakesInherited
  <2>2. a["sp"] # "reject" /\ PolicyRank(a["sp"]) = 0 /\ PolicyRank(b["sp"]) = 0
    BY <1>4, <2>1 DEF WeakerPolicy, PolicyRank
  <2>3. Falls("sp")
    BY <1>4, <2>2 DEF TagRank
  <2>. QED  BY <2>3 DEF TagFalls, DmarcTags
<1>5. CASE tag = "sp" /\ b["sp"] # "unset" /\ a["sp"] # "unset"
  <2>1. WeakerPolicy(a["sp"], b["sp"])
    BY <1>5 DEF LooserTag, SubdomainPolicy
  <2>2. Falls("sp")
    BY <1>1, <2>1 DEF TagRank
  <2>. QED  BY <2>2 DEF TagFalls, DmarcTags
<1>6. CASE tag = "sp" /\ b["sp"] # "unset" /\ a["sp"] = "unset"
  <2>1. PolicyRank(a["sp"]) = 0 /\ PolicyRank(b["sp"]) \in {0, 1, 2}
    BY <1>6 DEF PolicyRank
  <2>2. Falls("sp")
    BY <1>6, <2>1 DEF TagRank
  <2>. QED  BY <2>2 DEF TagFalls, DmarcTags
<1>7. CASE tag \in {"adkim", "aspf"}
  <2>1. b[tag] = "s" /\ a[tag] # "s"
    BY <1>7 DEF LooserTag
  <2>2. AlignmentRank(b[tag]) = 1 /\ AlignmentRank(a[tag]) = 0
    BY <2>1 DEF AlignmentRank
  <2>3. TagRank(tag, a[tag]) = AlignmentRank(a[tag]) /\ TagRank(tag, b[tag]) = AlignmentRank(b[tag])
    BY <1>7 DEF TagRank
  <2>4. Falls(tag)
    BY <2>1, <2>2, <2>3
  <2>. QED  BY <2>4 DEF TagFalls
<1>8. CASE tag = "pct"
  <2>1. a["pct"] < b["pct"]
    BY <1>8 DEF LooserTag
  <2>2. TagRank("pct", a["pct"]) = a["pct"] /\ TagRank("pct", b["pct"]) = b["pct"]
    BY DEF TagRank
  <2>3. Falls("pct")
    BY <2>1, <2>2
  <2>. QED  BY <2>3 DEF TagFalls, DmarcTags
<1>. QED  BY <1>2, <1>3, <1>4, <1>5, <1>6, <1>7, <1>8 DEF DmarcTags

\* The same for SPF: the record goes, the qualifier weakens or senders are only added.
LEMMA SpfDegrades ==
    ASSUME NEW before, NEW after,
           \/ Lost(before, after)
           \/ /\ before.status = after.status
              /\ \/ QualifierRank(after.qualifier) < QualifierRank(before.qualifier)
                 \/ Senders(before) \subseteq Senders(after) /\ Senders(before) # Senders(after)
    PROVE  \E c \in DiffSpf(before, after) : c.direction = "degraded"
<1>1. CASE Lost(before, after)
  BY <1>1 DEF DiffSpf, Appears, Appearance, Change, Lost
<1>2. CASE before.status = after.status
           /\ \/ QualifierRank(after.qualifier) < QualifierRank(before.qualifier)
              \/ Senders(before) \subseteq Senders(after) /\ Senders(before) # Senders(after)
  <2>1. PICK changes : changes = QualifierChange(before, after) \union SenderChange(before, after)
    OBVIOUS
  <2>2. CASE QualifierRank(after.qualifier) < QualifierRank(before.qualifier)
    <3>1. QualifierRank(after.qualifier) \in Int /\ QualifierRank(before.qualifier) \in Int
      BY Ranks
    <3>2. /\ before.qualifier # after.qualifier
          /\ ~(QualifierRank(after.qualifier) > QualifierRank(before.qualifier))
      BY <2>2, <3>1
    <3>3. Change("qualifier", "degraded") \in changes
      BY <2>1, <3>2 DEF QualifierChange
    <3>. QED  BY <1>2, <2>1, <3>3, TextIsNeutral DEF DiffSpf, Appears, Change
  <2>3. CASE Senders(before) \subseteq Senders(after) /\ Senders(before) # Senders(after)
    <3>1. Senders(after) \ Senders(before) # {} /\ Senders(before) \ Senders(after) = {}
      BY <2>3
    <3>2. Change("senders", "degraded") \in changes
      BY <2>1, <3>1 DEF SenderChange
    <3>. QED  BY <1>2, <2>1, <3>2, TextIsNeutral DEF DiffSpf, Appears, Change
  <2>. QED  BY <1>2, <2>2, <2>3
<1>. QED  BY <1>1, <1>2

\* A weaker SPF record is one of these: a qualifier that asks for less ranks lower, and a
\* sender that came is seen if the record is not too long.
LEMMA WeakerSpfDegrades ==
    ASSUME NEW before, NEW after, SpfWeaker(before, after)
    PROVE  \E c \in DiffSpf(before, after) : c.direction = "degraded"
<1>1. CASE Lost(before, after)
  BY <1>1, SpfDegrades
<1>2. CASE before.status = after.status /\ WeakerQualifier(after.qualifier, before.qualifier)
  <2>1. QualifierRank(after.qualifier) < QualifierRank(before.qualifier)
    BY <1>2 DEF WeakerQualifier, QualifierRank
  <2>. QED  BY <1>2, <2>1, SpfDegrades
<1>3. CASE /\ before.status = after.status /\ ~TooLong(after)
           /\ Published(before) \subseteq Published(after) /\ Published(before) # Published(after)
  <2>1. Senders(after) = Published(after)
    <3>1. ASSUME NEW i \in DOMAIN after.mechanisms
          PROVE  i <= MaxSenders
      BY <1>3, MaxSendersAssumption DEF TooLong
    <3>. QED  BY <3>1 DEF Senders, Published
  <2>2. Senders(before) \subseteq Published(before)
    BY DEF Senders, Published
  <2>3. Senders(before) \subseteq Senders(after) /\ Senders(before) # Senders(after)
    BY <1>3, <2>1, <2>2
  <2>. QED  BY <1>3, <2>3, SpfDegrades
<1>. QED  BY <1>1, <1>2, <1>3 DEF SpfWeaker

\* And for one DKIM selector: the record goes, or its key.
LEMMA SelectorDegrades ==
    ASSUME NEW before, NEW after,
           \/ before.status = "ok" /\ after.status = "missing"
           \/ before.status = after.status /\ before.key = TRUE /\ after.key = FALSE
    PROVE  \E c \in DiffSelector(before, after) : c.direction = "degraded"
<1>1. CASE before.status = "ok" /\ after.status = "missing"
  BY <1>1 DEF DiffSelector, Appears, Appearance, Change
<1>2. CASE before.status = after.status /\ before.key = TRUE /\ after.key = FALSE
  <2>1. DiffSelector(before, after) = KeyChange(before, after)
    BY <1>2 DEF DiffSelector, Appears
  <2>2. before.key # after.key
    BY <1>2
  <2>3. KeyChange(before, after) = {Change("dkim", "degraded")}
    BY <1>2, <2>2 DEF KeyChange
  <2>. QED  BY <2>1, <2>3 DEF Change
<1>. QED  BY <1>1, <1>2

\* A setting that protects less than it did makes the change a degradation, whatever else
\* improved; inherited reject giving way to sp=quarantine and records of more than MaxSenders
\* senders are the exceptions Weaker names.
THEOREM WeakerIsDegraded == Spec => []WeakeningShows
<1>1. ASSUME NEW before \in Snapshots, NEW after \in Snapshots, Weaker(before, after)
      PROVE  Direction(before, after) = "degraded"
  <2>1. IsSnapshot(before) /\ IsSnapshot(after) /\ DOMAIN before.dkim = DOMAIN after.dkim
    BY EvaluationAssumption
  <2>2. SUFFICES \E c \in Changes(before, after) : c.direction = "degraded"
    BY OverallDirection DEF Direction
  <2>3. CASE DmarcWeaker(before.dmarc, after.dmarc)
    <3>1. PICK b, a : b = before.dmarc /\ a = after.dmarc
      OBVIOUS
    <3>2. b.tags["pct"] \in Int /\ a.tags["pct"] \in Int /\ DmarcWeaker(b, a)
      BY <2>1, <2>3, <3>1 DEF IsSnapshot
    <3>3. Lost(b, a) \/ (b.status = a.status /\ TagFalls(b, a))
      BY <3>2, LooserTagFalls DEF DmarcWeaker
    <3>4. \E c \in DiffDmarc(b, a) : c.direction = "degraded"
      BY <3>3, DmarcDegrades
    <3>. QED  BY <3>1, <3>4 DEF Changes
  <2>4. CASE SpfWeaker(before.spf, after.spf)
    <3>1. \E c \in DiffSpf(before.spf, after.spf) : c.direction = "degraded"
      BY <2>4, WeakerSpfDegrades
    <3>. QED  BY <3>1 DEF Changes
  <2>5. CASE \E s \in Configured(before) \intersect Configured(after) :
                before.dkim[s].key /\ ~after.dkim[s].key
    <3>1. PICK s \in Configured(before) \intersect Configured(after) :
             before.dkim[s].key /\ ~after.dkim[s].key
      BY <2>5
    <3>2. /\ s \in DOMAIN after.dkim /\ before.dkim[s].status = "ok"
          /\ after.dkim[s].status \in {"ok", "missing"}
          /\ before.dkim[s].key \in BOOLEAN /\ after.dkim[s].key \in BOOLEAN
      BY <2>1, <3>1 DEF Configured, IsSnapshot
    <3>3. \E c \in DiffSelector(before.dkim[s], after.dkim[s]) : c.direction = "degraded"
      <4>1. PICK b, a : b = before.dkim[s] /\ a = after.dkim[s]
        OBVIOUS
      <4>2. /\ b.key \in BOOLEAN /\ a.key \in BOOLEAN
            /\ b.status = "ok" /\ a.status \in {"ok", "missing"} /\ b.key /\ ~a.key
        BY <3>1, <3>2, <4>1
      <4>3. \/ b.status = "ok" /\ a.status = "missing"
            \/ b.status = a.status /\ b.key = TRUE /\ a.key = FALSE
        BY <4>2
      <4>4. \E c \in DiffSelector(b, a) : c.direction = "degraded"
        BY <4>2, <4>3, SelectorDegrades
      <4>. QED  BY <4>1, <4>4
    <3>4. DiffSelector(before.dkim[s], after.dkim[s]) \subseteq DiffDkim(before.dkim, after.dkim)
      BY <3>2 DEF DiffDkim
    <3>. QED  BY <3>3, <3>4 DEF Changes
  <2>. QED  BY <1>1, <2>3, <2>4, <2>5 DEF Weaker
<1>2. ASSUME InputsOK, Len(timeline) = 2
      PROVE  timeline[1] \in Snapshots /\ timeline[2] \in Snapshots
  BY <1>2 DEF InputsOK
<1>3. InputsOK => WeakeningShows
  BY <1>1, <1>2 DEF WeakeningShows
<1>. QED  BY <1>3, InputsAlways, PTL

\* What an improvement of each part undoes is what makes the way back a degradation.
LEMMA DmarcUndone ==
    ASSUME NEW before, NEW after, before.tags["pct"] \in Int, after.tags["pct"] \in Int,
           {before.status, after.status} \subseteq {"ok", "missing"},
           \E c \in DiffDmarc(before, after) : c.direction = "improved"
    PROVE  \E c \in DiffDmarc(after, before) : c.direction = "degraded"
<1>1. CASE Appears(before, after)
  <2>1. after.status # "missing"
    <3>1. Appearance("dmarc", after).direction = "improved"
      BY <1>1 DEF DiffDmarc
    <3>. QED  BY <3>1, AppearanceDirection
  <2>2. after.status = "ok" /\ before.status = "missing"
    BY <1>1, <2>1 DEF Appears
  <2>. QED  BY <2>2, DmarcDegrades DEF Lost
<1>2. CASE ~Appears(before, after)
  <2>1. before.status = after.status
    BY <1>2 DEF Appears
  <2>2. PICK changes : changes = TagChanges(before, after)
    OBVIOUS
  <2>3. \E c \in changes : c.direction = "improved"
    BY <1>2, <2>2, TextIsNeutral DEF DiffDmarc
  <2>4. PICK tag \in DmarcTags : TagRank(tag, after.tags[tag]) > TagRank(tag, before.tags[tag])
    BY <2>2, <2>3 DEF TagChanges, Change
  <2>5. TagFalls(after, before)
    <3>1. TagRank(tag, before.tags[tag]) \in Int /\ TagRank(tag, after.tags[tag]) \in Int
      BY Ranks
    <3>2. /\ after.tags[tag] # before.tags[tag]
          /\ ~(TagRank(tag, before.tags[tag]) > TagRank(tag, after.tags[tag]))
      BY <2>4, <3>1
    <3>. QED  BY <3>2 DEF TagFalls
  <2>. QED  BY <2>1, <2>5, DmarcDegrades
<1>. QED  BY <1>1, <1>2

\* The same for SPF.
LEMMA SpfUndone ==
    ASSUME NEW before, NEW after,
           {before.status, after.status} \subseteq {"ok", "missing"},
           \E c \in DiffSpf(before, after) : c.direction = "improved"
    PROVE  \E c \in DiffSpf(after, before) : c.direction = "degraded"
<1>1. CASE Appears(before, after)
  <2>1. after.status # "missing"
    <3>1. Appearance("spf", after).direction = "improved"
      BY <1>1 DEF DiffSpf
    <3>. QED  BY <3>1, AppearanceDirection
  <2>2. after.status = "ok" /\ before.status = "missing"
    BY <1>1, <2>1 DEF Appears
  <2>. QED  BY <2>2, SpfDegrades DEF Lost
<1>2. CASE ~Appears(before, after)
  <2>1. before.status = after.status
    BY <1>2 DEF Appears
  <2>2. PICK changes : changes = QualifierChange(before, after) \union SenderChange(before, after)
    OBVIOUS
  <2>3. PICK c \in changes : c.direction = "improved"
    BY <1>2, <2>2, TextIsNeutral DEF DiffSpf
  <2>4. CASE c \in QualifierChange(before, after)
    <3>1. QualifierRank(after.qualifier) > QualifierRank(before.qualifier)
      BY <2>3, <2>4 DEF QualifierChange, Change
    <3>2. QualifierRank(after.qualifier) \in Int /\ QualifierRank(before.qualifier) \in Int
      BY Ranks
    <3>3. QualifierRank(before.qualifier) < QualifierRank(after.qualifier)
      BY <3>1, <3>2
    <3>. QED  BY <2>1, <3>3, SpfDegrades
  <2>5. CASE c \in SenderChange(before, after)
    <3>1. Senders(after) \ Senders(before) = {} /\ Senders(before) \ Senders(after) # {}
      BY <2>3, <2>5 DEF SenderChange, Change
    <3>2. Senders(after) \subseteq Senders(before) /\ Senders(after) # Senders(before)
      BY <3>1
    <3>. QED  BY <2>1, <3>2, SpfDegrades
  <2>. QED  BY <2>2, <2>4, <2>5
<1>. QED  BY <1>1, <1>2

\* And for a DKIM selector that both snapshots watch, or neither.
LEMMA SelectorUndone ==
    ASSUME NEW before, NEW after, before.key \in BOOLEAN, after.key \in BOOLEAN,
           {before.status, after.status} \subseteq {"ok", "missing", "unset"},
           before.status = "unset" <=> after.status = "unset",
           \E c \in DiffSelector(before, after) : c.direction = "improved"
    PROVE  \E c \in DiffSelector(after, before) : c.direction = "degraded"
<1>1. CASE Appears(before, after)
  <2>1. after.status # "missing"
    <3>1. Appearance("dkim", after).direction = "improved"
      BY <1>1 DEF DiffSelector
    <3>. QED  BY <3>1, AppearanceDirection
  <2>2. after.status = "ok" /\ before.status = "missing"
    BY <1>1, <2>1 DEF Appears
  <2>. QED  BY <2>2, SelectorDegrades
<1>2. CASE ~Appears(before, after)
  <2>1. before.status = after.status
    BY <1>2 DEF Appears
  <2>2. \E c \in KeyChange(before, after) : c.direction = "improved"
    BY <1>2 DEF DiffSelector
  <2>3. after.key = TRUE /\ before.key = FALSE
    BY <2>2 DEF KeyChange, Change
  <2>. QED  BY <2>1, <2>3, SelectorDegrades
<1>. QED  BY <1>1, <1>2

\* Undoing an improvement is a degradation, as long as the watched selectors stay the same.
THEOREM UndoingIsDegraded == Spec => []UndoingDegrades
<1>1. ASSUME NEW before \in Snapshots, NEW after \in Snapshots,
             Configured(before) = Configured(after), Direction(before, after) = "improved"
      PROVE  Direction(after, before) = "degraded"
  <2>1. IsSnapshot(before) /\ IsSnapshot(after) /\ DOMAIN before.dkim = DOMAIN after.dkim
    BY EvaluationAssumption
  <2>2. SUFFICES \E c \in Changes(after, before) : c.direction = "degraded"
    BY OverallDirection DEF Direction
  <2>3. PICK c \in Changes(before, after) : c.direction = "improved"
    BY <1>1, OverallDirection DEF Direction
  <2>4. CASE c \in DiffDmarc(before.dmarc, after.dmarc)
    <3>1. \E d \in DiffDmarc(after.dmarc, before.dmarc) : d.direction = "degraded"
      BY <2>1, <2>3, <2>4, DmarcUndone DEF IsSnapshot
    <3>. QED  BY <3>1 DEF Changes
  <2>5. CASE c \in DiffSpf(before.spf, after.spf)
    <3>1. \E d \in DiffSpf(after.spf, before.spf) : d.direction = "degraded"
      BY <2>1, <2>3, <2>5, SpfUndone DEF IsSnapshot
    <3>. QED  BY <3>1 DEF Changes
  <2>6. CASE c \in DiffDkim(before.dkim, after.dkim)
    <3>1. PICK s \in DOMAIN after.dkim : c \in DiffSelector(before.dkim[s], after.dkim[s])
      BY <2>6 DEF DiffDkim
    <3>2. PICK b, a : b = before.dkim[s] /\ a = after.dkim[s]
      OBVIOUS
    <3>3. /\ b.key \in BOOLEAN /\ a.key \in BOOLEAN
          /\ {b.status, a.status} \subseteq {"ok", "missing", "unset"}
      BY <2>1, <3>1, <3>2 DEF IsSnapshot
    <3>4. b.status = "unset" <=> a.status = "unset"
      BY <1>1, <2>1, <3>1, <3>2 DEF Configured
    <3>5. \E d \in DiffSelector(b, a) : d.direction = "improved"
      BY <2>3, <3>1, <3>2
    <3>6. \E d \in DiffSelector(a, b) : d.direction = "degraded"
      BY <3>3, <3>4, <3>5, SelectorUndone
    <3>7. DiffSelector(a, b) \subseteq DiffDkim(after.dkim, before.dkim)
      BY <2>1, <3>1, <3>2 DEF DiffDkim
    <3>. QED  BY <3>6, <3>7 DEF Changes
  <2>. QED  BY <2>4, <2>5, <2>6 DEF Changes
<1>2. ASSUME InputsOK, Len(timeline) = 2
      PROVE  timeline[1] \in Snapshots /\ timeline[2] \in Snapshots
  BY <1>2 DEF InputsOK
<1>3. InputsOK => UndoingDegrades
  BY <1>1, <1>2 DEF UndoingDegrades
<1>. QED  BY <1>3, InputsAlways, PTL

=============================================================================
