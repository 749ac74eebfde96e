-------------------------- MODULE DmarcAlignment --------------------------
(***************************************************************************)
(* DMARC alignment of an aggregate record (services/dmarc_alignment.py):   *)
(* whether a domain that passed DKIM or SPF matches the visible From       *)
(* domain, exactly or by organizational domain.                            *)
(*                                                                         *)
(* A domain is a member of Domains, already normalized; NoDomain stands    *)
(* for a value that is absent or that normalize_domain refuses.  The       *)
(* public suffix list is two constants: the names that are suffixes and    *)
(* the registrable domain SldOf of the others.                             *)
(***************************************************************************)
EXTENDS Sequences, FiniteSetsExt

CONSTANTS Domains, NoDomain, PublicSuffixes, SldOf

ASSUME DomainsAssumption ==
    /\ NoDomain \notin Domains
    /\ PublicSuffixes \subseteq Domains
    /\ SldOf \in [Domains \ PublicSuffixes -> Domains \ PublicSuffixes]
    /\ \A d \in Domains \ PublicSuffixes : SldOf[SldOf[d]] = SldOf[d]

\* normalize_domain and get_organizational_domain
Organization(d) == IF d \in Domains \ PublicSuffixes THEN SldOf[d] ELSE NoDomain

\* classify_alignment
ClassifyAlignment(identifier, from, mode) ==
    CASE NoDomain \in {identifier, from} -> "unknown"
      [] NoDomain # identifier /\ identifier = from -> "strict"
      [] NoDomain \notin {identifier, from} /\ identifier # from ->
            CASE mode = "s" -> "none"
              [] mode = "r" /\ NoDomain \in {Organization(identifier), Organization(from)} -> "unknown"
              [] mode = "r" /\ NoDomain \notin {Organization(identifier), Organization(from)} ->
                    IF Organization(identifier) = Organization(from) THEN "relaxed" ELSE "none"

\* What a record and its authentication results consist of
AuthResult == [method : {"dkim", "spf"}, result : {"pass", "fail"},
               scope : {"none", "mfrom", "helo"}, domain : Domains \union {NoDomain}]
Evaluated == [from : Domains \union {NoDomain}, envelope : Domains \union {NoDomain},
              dkim : {"pass", "fail", "absent"}, spf : {"pass", "fail", "absent"},
              adkim : {"r", "s"}, aspf : {"r", "s"}, auth : Seq(AuthResult)]

\* Faulty variant: the last identifier decides.
BestLast(candidates, from, mode) ==
    ClassifyAlignment(candidates[Max(DOMAIN candidates)], from, mode)

\* The loop both methods share: strict at once, else relaxed, else unknown, else none.
Best(candidates, from, mode) ==
    LET seen == {ClassifyAlignment(candidates[i], from, mode) : i \in DOMAIN candidates}
    IN  CASE "strict" \in seen -> "strict"
          [] "strict" \notin seen /\ "relaxed" \in seen -> "relaxed"
          [] seen \intersect {"strict", "relaxed"} = {} /\ "unknown" \in seen -> "unknown"
          [] OTHER -> "none"

\* No identifier to look at: the record's own verdict is all there is.
Unaligned(result) == IF result = "fail" THEN "none" ELSE "unknown"

\* The identifiers that authenticated, by the position of their results in the record
Passing(rec, method) ==
    [i \in {j \in DOMAIN rec.auth : /\ rec.auth[j].method = method /\ rec.auth[j].result = "pass"
                                    /\ method = "spf" => rec.auth[j].scope # "helo"}
        |-> rec.auth[i].domain]
Without(candidates) == DOMAIN candidates = {}

\* compute_dkim_alignment
DkimAlignment(rec) ==
    IF Without(Passing(rec, "dkim")) THEN Unaligned(rec.dkim)
    ELSE Best(Passing(rec, "dkim"), rec.from, rec.adkim)

\* Faulty variant: the envelope is believed even when SPF has failed.
SpfCandidatesTrusting(rec) ==
    IF Without(Passing(rec, "spf")) /\ rec.envelope # NoDomain THEN <<rec.envelope>>
    ELSE Passing(rec, "spf")

\* compute_spf_alignment: without a passing identifier the envelope's domain stands in
SpfCandidates(rec) ==
    IF Without(Passing(rec, "spf")) /\ rec.spf = "pass" /\ rec.envelope # NoDomain
    THEN <<rec.envelope>> ELSE Passing(rec, "spf")
SpfAlignment(rec) ==
    IF Without(SpfCandidates(rec)) THEN Unaligned(rec.spf)
    ELSE Best(SpfCandidates(rec), rec.from, rec.aspf)

\* compute_dmarc_alignment
Verdict(dkim, spf) ==
    CASE {dkim, spf} \intersect {"strict", "relaxed"} # {} -> "pass"
      [] dkim = "none" /\ spf = "none" -> "fail"
      [] OTHER -> "unknown"

\* compute_aggregate_alignment
DmarcVerdict(rec) == Verdict(DkimAlignment(rec), SpfAlignment(rec))

----------------------------------------------------------------------------
(* Reference: RFC 7489, section 3.1, on the identifiers that authenticated.*)

AlignedWith(d, from, mode) ==
    /\ NoDomain \notin {d, from}
    /\ \/ d = from
       \/ mode = "r" /\ Organization(d) = Organization(from) /\ Organization(d) # NoDomain

Authenticated(rec, method) ==
    LET named == {rec.auth[i].domain : i \in {j \in DOMAIN rec.auth :
                    /\ rec.auth[j].method = method /\ rec.auth[j].result = "pass"
                    /\ method = "spf" => rec.auth[j].scope # "helo"}}
    IN  IF method = "spf" /\ named = {} /\ rec.spf = "pass" THEN {rec.envelope} ELSE named

ShouldPass(rec) ==
    \/ \E d \in Authenticated(rec, "dkim") : AlignedWith(d, rec.from, rec.adkim)
    \/ \E d \in Authenticated(rec, "spf") : AlignedWith(d, rec.from, rec.aspf)

============================================================================
