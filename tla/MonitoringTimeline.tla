------------------------ MODULE MonitoringTimeline ------------------------
(***************************************************************************)
(* How DNS monitoring describes what it saw                                *)
(* (services/domain_monitoring_service.py): the published DMARC, SPF and   *)
(* DKIM records of a domain as a snapshot, and the change between two      *)
(* snapshots classified as improved, degraded or neutral.                  *)
(*                                                                         *)
(* The `raw` text of a record is what the parser makes of it and a `text`  *)
(* for the rest.  A lookup error stores no snapshot, so the statuses are   *)
(* "ok", "missing" and, for a DKIM selector outside the settings, "unset". *)
(* Left out: the TTLs of the records, which no change is classified by,    *)
(* and what of an SPF record the code does not read as a sender that may   *)
(* pass (ptr, redirect, mechanisms that deny).                             *)
(***************************************************************************)
EXTENDS Integers, Sequences

CONSTANT MaxSenders   \* sender mechanisms of an SPF record that are kept (10)
ASSUME MaxSendersAssumption == MaxSenders \in Nat

\* _summarize_dmarc, _parse_tag_value_record: the tags that count; absent ones are "unset"
DmarcTags == {"p", "sp", "adkim", "aspf", "pct"}
DmarcRecord(tags, text) == [status |-> "ok", raw |-> <<tags, text>>, tags |-> tags]
NoDmarc == [status |-> "missing", raw |-> <<>>,
            tags |-> [p |-> "unset", sp |-> "unset", adkim |-> "unset", aspf |-> "unset",
                      pct |-> 100]]

\* _summarize_spf: the qualifier of `all` and the sender mechanisms in their order
SpfRecord(qualifier, mechanisms, text) ==
    [status |-> "ok", raw |-> <<qualifier, mechanisms, text>>,
     qualifier |-> qualifier, mechanisms |-> mechanisms]
NoSpf == [status |-> "missing", raw |-> <<>>, qualifier |-> "neutral", mechanisms |-> <<>>]

\* The senders a comparison sees: the first of them.
Senders(record) ==
    {record.mechanisms[i] : i \in {j \in DOMAIN record.mechanisms : j <= MaxSenders}}

\* _summarize_dkim: the record may be published without a key
DkimRecord(key, text) == [status |-> "ok", raw |-> <<key, text>>, key |-> key]
NoDkim == [status |-> "missing", raw |-> <<>>, key |-> FALSE]
NotConfigured == [status |-> "unset", raw |-> <<>>, key |-> FALSE]

\* What these make; a record that is missing has no key.
IsSnapshot(snapshot) ==
    /\ {snapshot.dmarc.status, snapshot.spf.status} \subseteq {"ok", "missing"}
    /\ snapshot.dmarc.tags["pct"] \in Int
    /\ \A s \in DOMAIN snapshot.dkim :
          /\ snapshot.dkim[s].status \in {"ok", "missing", "unset"}
          /\ snapshot.dkim[s].key \in BOOLEAN
          /\ snapshot.dkim[s].key => snapshot.dkim[s].status = "ok"

----------------------------------------------------------------------------
(* Ranks: a larger one is a stronger setting.                              *)

PolicyRank(value) == CASE value = "reject" -> 2 [] value = "quarantine" -> 1 [] OTHER -> 0
AlignmentRank(value) == IF value = "s" THEN 1 ELSE 0
QualifierRank(value) == CASE value = "fail" -> 3 [] value = "softfail" -> 2
                          [] value = "allow_all" -> 0 [] OTHER -> 1

TagRank(tag, value) == CASE tag \in {"p", "sp"} -> PolicyRank(value)
                         [] tag \in {"adkim", "aspf"} -> AlignmentRank(value)
                         [] tag = "pct" -> value

----------------------------------------------------------------------------
(* Changes between two snapshots, as sets of what changed and how.         *)

Change(what, direction) == [what |-> what, direction |-> direction]

\* A record comes or goes: the first test of _diff_dmarc, _diff_spf and _diff_dkim.
Appears(before, after) ==
    /\ before.status # after.status
    /\ {before.status, after.status} \intersect {"missing", "ok"} # {}
Appearance(what, after) ==
    IF after.status = "missing" THEN Change(what \o " missing", "degraded")
                                ELSE Change(what \o " restored", "improved")

\* Nothing but the text differs.
OrTextOnly(what, changes, before, after) ==
    IF changes = {} /\ before.raw # after.raw THEN {Change(what, "neutral")} ELSE changes

\* Faulty variant: a value that is not stronger counts as one that is not weaker.
TagChangesLenient(before, after) ==
    {Change(tag, IF TagRank(tag, after.tags[tag]) >= TagRank(tag, before.tags[tag])
                 THEN "improved" ELSE "degraded") :
        tag \in {t \in DmarcTags : before.tags[t] # after.tags[t]}}

TagChanges(before, after) ==
    {Change(tag, IF TagRank(tag, after.tags[tag]) > TagRank(tag, before.tags[tag])
                 THEN "improved" ELSE "degraded") :
        tag \in {t \in DmarcTags : before.tags[t] # after.tags[t]}}

DiffDmarc(before, after) ==
    IF Appears(before, after) THEN {Appearance("dmarc", after)}
    ELSE OrTextOnly("dmarc", TagChanges(before, after), before, after)

\* Senders added weaken SPF, senders removed strengthen it, both together do neither.
SenderChange(before, after) ==
    LET added == Senders(after) \ Senders(before)
        removed == Senders(before) \ Senders(after)
    IN  CASE added = {} /\ removed = {} -> {}
          [] added # {} /\ removed = {} -> {Change("senders", "degraded")}
          [] added = {} /\ removed # {} -> {Change("senders", "improved")}
          [] OTHER -> {Change("senders", "neutral")}

QualifierChange(before, after) ==
    IF before.qualifier = after.qualifier THEN {}
    ELSE {Change("qualifier",
                 IF QualifierRank(after.qualifier) > QualifierRank(before.qualifier)
                 THEN "improved" ELSE "degraded")}

DiffSpf(before, after) ==
    IF Appears(before, after) THEN {Appearance("spf", after)}
    ELSE OrTextOnly("spf", QualifierChange(before, after) \union SenderChange(before, after),
                    before, after)

KeyChange(before, after) ==
    IF before.key = after.key /\ before.raw = after.raw THEN {}
    ELSE {Change("dkim", CASE after.key /\ ~before.key -> "improved"
                           [] before.key /\ ~after.key -> "degraded"
                           [] OTHER -> "neutral")}

\* One selector; a selector outside the settings is as good as one with another status.
DiffSelector(before, after) ==
    IF Appears(before, after) THEN {Appearance("dkim", after)} ELSE KeyChange(before, after)
DiffDkim(before, after) == UNION {DiffSelector(before[s], after[s]) : s \in DOMAIN after}

Changes(before, after) ==
    DiffDmarc(before.dmarc, after.dmarc) \union DiffSpf(before.spf, after.spf)
        \union DiffDkim(before.dkim, after.dkim)

\* Faulty variant: what improved outweighs what got worse.
OverallOptimistic(changes) ==
    IF \E c \in changes : c.direction = "improved" THEN "improved"
    ELSE IF \E c \in changes : c.direction = "degraded" THEN "degraded" ELSE "neutral"

\* classify_timeline_change
Overall(changes) ==
    IF \E c \in changes : c.direction = "degraded" THEN "degraded"
    ELSE IF \E c \in changes : c.direction = "improved" THEN "improved" ELSE "neutral"
Direction(before, after) == Overall(Changes(before, after))

----------------------------------------------------------------------------
(* What the words should mean.                                             *)

Configured(snapshot) == {s \in DOMAIN snapshot.dkim : snapshot.dkim[s].status # "unset"}

\* The order of the settings, apart from the ranks above: what happens to mail that fails,
\* and to mail of an unlisted sender.
WeakerPolicy(value, than) ==
    \/ than = "reject" /\ value # "reject"
    \/ than = "quarantine" /\ value \notin {"quarantine", "reject"}
WeakerQualifier(value, than) ==
    \/ than = "fail" /\ value # "fail"
    \/ than = "softfail" /\ value \notin {"softfail", "fail"}
    \/ than = "neutral" /\ value = "allow_all"

\* Mail of subdomains falls under p where the record has no sp, as the summary says it.
SubdomainPolicy(tags) == IF tags["sp"] = "unset" THEN tags["p"] ELSE tags["sp"]

LooserTag(tag, before, after) ==
    CASE tag = "p" -> WeakerPolicy(after["p"], before["p"])
      [] tag = "sp" -> WeakerPolicy(SubdomainPolicy(after), SubdomainPolicy(before))
      [] tag \in {"adkim", "aspf"} -> before[tag] = "s" /\ after[tag] # "s"
      [] tag = "pct" -> after["pct"] < before["pct"]

Lost(before, after) == before.status = "ok" /\ after.status = "missing"
Published(record) == {record.mechanisms[i] : i \in DOMAIN record.mechanisms}

\* Two weakenings the comparison does not notice: sp = quarantine where the subdomains had
\* inherited reject looks stronger than no sp, and senders beyond the first MaxSenders are
\* not looked at.
TakesInherited(tag, before, after) ==
    tag = "sp" /\ before["sp"] = "unset" /\ after["sp"] = "quarantine"
TooLong(record) == ~(DOMAIN record.mechanisms \subseteq 1..MaxSenders)

\* Apart from these, some setting of `after` protects less than the same one of `before`.
DmarcWeaker(before, after) ==
    \/ Lost(before, after)
    \/ /\ before.status = after.status
       /\ \E tag \in DmarcTags : /\ LooserTag(tag, before.tags, after.tags)
                                /\ ~TakesInherited(tag, before.tags, after.tags)
SpfWeaker(before, after) ==
    \/ Lost(before, after)
    \/ /\ before.status = after.status
       /\ \/ WeakerQualifier(after.qualifier, before.qualifier)
          \/ /\ Published(before) \subseteq Published(after)
             /\ Published(before) # Published(after)
             /\ ~TooLong(after)
Weaker(before, after) ==
    \/ DmarcWeaker(before.dmarc, after.dmarc)
    \/ SpfWeaker(before.spf, after.spf)
    \/ \E s \in Configured(before) \intersect Configured(after) :
          before.dkim[s].key /\ ~after.dkim[s].key

============================================================================
