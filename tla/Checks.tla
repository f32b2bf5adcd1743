-------------------------------- MODULE Checks --------------------------------
(***************************************************************************)
(* internal/certlib/checker*.go: the checks of a scan.  Every check is a   *)
(* condition on one item in its context x: [store, ref, now, opts, trust,  *)
(* revs]: the whole store, the item's reference, the clock when the check  *)
(* looks at it, the options, the trust index and the revocation results.   *)
(***************************************************************************)
EXTENDS Trust, Revocation

CONSTANTS
  NoTrust,           \* opts.TrustIndex of a run without trust evaluation
  ValiditySchedule   \* validity_schedule.go: [from, days], in order

It(x) == Item(x.store, x.ref)
Of(x) == x.store[x.ref[1]]
Crt(x) == It(x).cert
HasMark(x, mark) == Crt(x) # NoCert /\ mark \in Crt(x).marks

ItemKindOf(item) ==
  IF item.type # "cert" THEN item.type ELSE IF item.cert # NoCert /\ item.cert.ca THEN "ca" ELSE "leaf"

\* getRSABits and its likes look at the certificate before the key, and at no request.
PublicKey(x) == IF Crt(x) # NoCert THEN Crt(x).pub ELSE IF It(x).type = "key" THEN It(x).pub ELSE [alg |-> "none"]

-------------------------------------------------------------------------------
(* expiry: each of the four looks at the clock on its own *)

DaysLeft(x) == Crt(x).until - x.now
Expired(x) == Crt(x).until < x.now
ExpiringSoonCritical(x) == ~Expired(x) /\ DaysLeft(x) <= x.opts.criticalDays
ExpiringSoonWarning(x) ==
  ~Expired(x) /\ DaysLeft(x) > x.opts.criticalDays /\ DaysLeft(x) <= x.opts.warnDays
NotYetValid(x) == Crt(x).from > x.now

(* key strength and algorithms *)

VeryWeakRSA(x) == PublicKey(x).alg = "rsa" /\ PublicKey(x).bits < 1024
WeakRSA(x) == PublicKey(x).alg = "rsa" /\ PublicKey(x).bits >= 1024 /\ PublicKey(x).bits < 2048
WeakECCurve(x) == PublicKey(x).alg = "ec" /\ PublicKey(x).bits < 256
RSAExponent(x) == PublicKey(x).alg = "rsa" /\ PublicKey(x).exponent # 65537
DeprecatedKey(x) == PublicKey(x).alg = "dsa"
MD5Sig(x) == HasMark(x, "md5")
SHA1Sig(x) == HasMark(x, "sha1")
SigMismatch(x) == HasMark(x, "inner and outer algorithm differ")

(* configuration *)

UnprotectedKey(x) == ~It(x).encrypted /\ Of(x).format = "PEM"
EmptyPassword(x) == Of(x).password = "empty" \/ It(x).password = "empty"
OrEmpty(password) == IF password = "none" THEN "empty" ELSE password
EntryPasswordMismatch(x) == It(x).password # "none" /\ It(x).password # OrEmpty(Of(x).password)
MissingSANs(x) == Crt(x).names = {} /\ Crt(x).commonName # {}
CANoKeyUsage(x) == ~HasMark(x, "certsign")
CANoBC(x) == HasMark(x, "certsign") /\ ~HasMark(x, "basic constraints")
LeafCertSign(x) == HasMark(x, "certsign")
IPInCN(x) == HasMark(x, "address as common name") /\ ~HasMark(x, "that address as SAN")

(* chains *)

IssuersInScan(x) == SelectSeq(SignedBy(x.store, x.ref), LAMBDA p : ~RefFromTrustStore(x.store, p))
AnyPeer(x) == { r.peer : r \in { q \in BuildRelationIndex(x.store) : q.at = x.ref /\ q.direction = "out" } }
IncompleteForAnyRelation(x) == ~IsSelfSigned(Crt(x)) /\ AnyPeer(x) = {}
ChainIncomplete(x) == ~IsSelfSigned(Crt(x)) /\ IssuersInScan(x) = <<>>
CompletesInStore(x) == x.trust # NoTrust /\ IsTrusted(Verdict(x.trust, Crt(x)))

ChainOrder(x) ==
  LET certs == [i \in DOMAIN Of(x).items |-> Of(x).items[i].cert]
  IN  /\ Of(x).format = "PEM" /\ x.ref[2] = 1 /\ certs[1].ca /\ ~IsSelfSigned(certs[1])
      /\ \E i \in 2..Len(certs) : certs[i] # NoCert /\ ~certs[i].ca
KeyCertMismatch(x) ==
  LET certs == { i \in DOMAIN Of(x).items : Of(x).items[i].type = "cert" }
  IN  certs # {} /\ \A i \in certs : Of(x).items[i].key # It(x).key

\* The first issuer of the first issuer, and so on; a chain of one CA can be at most as
\* deep below another as that one's path length.
RECURSIVE FirstIssuers(_, _)
FirstIssuers(store, path) ==
  LET up == SignedBy(store, Last(path))
  IN  IF up = <<>> \/ Len(path) > 16 THEN path ELSE FirstIssuers(store, Append(path, up[1]))
PathLengthViolation(x) ==
  \E depth \in 1..Len(FirstIssuers(x.store, <<x.ref>>)) - 1 :
    LET above == CertAt(x.store, FirstIssuers(x.store, <<x.ref>>)[depth + 1])
    IN  above.pathLen >= 0 /\ depth > above.pathLen

\* nameconstraints.go: a name is [kind, path], its labels from the top down; a
\* constraint covers everything below it, or strictly below it (".example.org").
Covers(constraint, name) ==
  /\ constraint.kind = name.kind /\ IsPrefix(constraint.path, name.path)
  /\ constraint.strict => Len(name.path) > Len(constraint.path)
CheckNameConstraints(ca, names) ==
  \A n \in names :
    /\ \A e \in ca.excluded : ~Covers(e, n)
    /\ \/ \A p \in ca.permitted : p.kind # n.kind
       \/ \E p \in ca.permitted : Covers(p, n)
\* The common name stands in for the SANs of a certificate that names no host, address
\* or mailbox.
ConstrainedNames(cert) ==
  IF \A n \in cert.names : n.kind = "uri" THEN cert.names \cup cert.commonName ELSE cert.names
NameConstraintsViolation(x) ==
  \E i \in 2..Len(FirstIssuers(x.store, <<x.ref>>)) :
    ~CheckNameConstraints(CertAt(x.store, FirstIssuers(x.store, <<x.ref>>)[i]), ConstrainedNames(Crt(x)))
NameConstraintsOnRoot(x) == IsSelfSigned(Crt(x)) /\ Crt(x).permitted \cup Crt(x).excluded # {}

(* structure *)

Serial(x) == HasMark(x, "bad serial")
OldVersionWithExtensions(x) == HasMark(x, "old version") /\ HasMark(x, "extensions")
Version1(x) == HasMark(x, "old version") /\ ~HasMark(x, "extensions")
UnknownExt(x) == HasMark(x, "unknown critical extension")
LeafValidityLimit(from) ==
  LET inForce == SelectSeq(ValiditySchedule, LAMBDA e : e.from <= from)
  IN  IF inForce = <<>> THEN ValiditySchedule[1].days ELSE Last(inForce).days
LongValidity(x) == Crt(x).until - Crt(x).from > LeafValidityLimit(Crt(x).from)
PrecertAsCert(x) == HasMark(x, "precertificate")
NetscapeTypeConflict(x) ==
  \/ HasMark(x, "netscape CA") /\ ~Crt(x).ca
  \/ HasMark(x, "netscape end entity") /\ Crt(x).ca
SelfSignedLeaf(x) == IsSelfSigned(Crt(x))
Wildcard(x) == HasMark(x, "wildcard")

(* trust and revocation *)

UntrustedChain(x) == x.trust # NoTrust /\ Verdict(x.trust, Crt(x)) = "untrusted"
DistrustedRoot(x) == x.trust # NoTrust /\ Verdict(x.trust, Crt(x)) = "denied"
RevocationFor(x) == IF x.ref \in DOMAIN x.revs THEN x.revs[x.ref] ELSE NoResult
Revoked(x) == RevocationFor(x) # NoResult /\ RevocationFor(x).status = "revoked"
RevocationUndetermined(x) == RevocationFor(x) # NoResult /\ RevocationFor(x).status = "undetermined"
RevocationUnverified(x) == Determinate(RevocationFor(x)) /\ ~RevocationFor(x).verified

-------------------------------------------------------------------------------
(* RunChecks *)

Check(id, category, kinds) == [id |-> id, category |-> category, kinds |-> kinds]
KindsCert == {"leaf", "ca"}
KindsAny == {"leaf", "ca", "key", "csr"}

\* The expiry checks come first; the clock may move between them, not between the rest.
ExpiryChecks ==
  << Check("expired", "expiry", KindsCert), Check("expiring_soon_critical", "expiry", KindsCert),
     Check("expiring_soon_warning", "expiry", KindsCert), Check("not_yet_valid", "expiry", KindsCert) >>
KeyStrengthChecks ==
  << Check("very_weak_rsa", "key_strength", KindsAny), Check("weak_rsa", "key_strength", KindsAny),
     Check("weak_ec_curve", "key_strength", KindsAny), Check("rsa_exponent", "key_strength", KindsAny),
     Check("deprecated_key", "key_strength", KindsAny) >>
AlgorithmChecks ==
  << Check("md5_sig", "algorithm", KindsCert), Check("sha1_sig", "algorithm", KindsCert),
     Check("sig_mismatch", "algorithm", KindsCert) >>
ConfigChecks ==
  << Check("unprotected_key", "config", {"key"}), Check("empty_password", "config", {"key"}),
     Check("entry_password_mismatch", "config", {"key"}), Check("missing_sans", "config", {"leaf"}),
     Check("ca_no_keyusage", "config", {"ca"}), Check("ca_no_bc", "config", KindsCert),
     Check("leaf_certsign", "config", {"leaf"}), Check("ip_in_cn", "config", {"leaf"}) >>
ChainChecks ==
  << Check("chain_incomplete", "chain", KindsCert), Check("chain_order", "chain", KindsCert),
     Check("key_cert_mismatch", "chain", {"key"}) >>
StructureChecks ==
  << Check("serial", "structure", KindsCert), Check("version", "structure", KindsCert),
     Check("unknown_ext", "structure", KindsCert), Check("long_validity", "structure", {"leaf"}) >>
InfoChecks == << Check("self_signed_leaf", "info", {"leaf"}), Check("wildcard", "info", {"leaf"}) >>
RevocationChecks ==
  << Check("revocation_revoked", "revocation", KindsCert),
     Check("revocation_undetermined", "revocation", KindsCert),
     Check("revocation_unverified", "revocation", KindsCert) >>
TrustChecks == << Check("untrusted_chain", "trust", KindsCert), Check("distrusted_root", "trust", KindsCert) >>
ExtensionChecks ==
  << Check("precert_as_cert", "structure", KindsCert), Check("path_length_violation", "chain", {"ca"}),
     Check("netscape_type_conflict", "structure", KindsCert) >>
NameConstraintChecks ==
  << Check("name_constraints_violation", "chain", KindsCert),
     Check("name_constraints_on_root", "structure", {"ca"}) >>
OtherChecks ==
  KeyStrengthChecks \o AlgorithmChecks \o ConfigChecks \o ChainChecks \o StructureChecks
  \o InfoChecks \o RevocationChecks \o TrustChecks
  \o ExtensionChecks \o NameConstraintChecks

If(condition, severity) == IF condition THEN severity ELSE "none"

\* What a check finds: the severity of its issue, or none.
Finding(id, x) ==
  CASE id = "expired" -> If(Expired(x), "critical")
    [] id = "expiring_soon_critical" -> If(ExpiringSoonCritical(x), "critical")
    [] id = "expiring_soon_warning" -> If(ExpiringSoonWarning(x), "warning")
    [] id = "not_yet_valid" -> If(NotYetValid(x), "warning")
    [] id = "very_weak_rsa" -> If(VeryWeakRSA(x), "critical")
    [] id = "weak_rsa" -> If(WeakRSA(x), "warning")
    [] id = "weak_ec_curve" -> If(WeakECCurve(x), "warning")
    [] id = "rsa_exponent" -> If(RSAExponent(x), "warning")
    [] id = "deprecated_key" -> If(DeprecatedKey(x), "warning")
    [] id = "md5_sig" -> If(MD5Sig(x), "critical")
    [] id = "sha1_sig" -> If(SHA1Sig(x), "warning")
    [] id = "sig_mismatch" -> If(SigMismatch(x), "warning")
    [] id = "unprotected_key" -> If(UnprotectedKey(x), "info")
    [] id = "empty_password" -> If(EmptyPassword(x), "info")
    [] id = "entry_password_mismatch" -> If(EntryPasswordMismatch(x), "info")
    [] id = "missing_sans" -> If(MissingSANs(x), "info")
    [] id = "ca_no_keyusage" -> If(CANoKeyUsage(x), "warning")
    [] id = "ca_no_bc" -> If(CANoBC(x), "warning")
    [] id = "leaf_certsign" -> If(LeafCertSign(x), "warning")
    [] id = "ip_in_cn" -> If(IPInCN(x), "info")
    [] id = "chain_incomplete" -> If(ChainIncomplete(x), IF CompletesInStore(x) THEN "info" ELSE "warning")
    [] id = "chain_order" -> If(ChainOrder(x), "info")
    [] id = "key_cert_mismatch" -> If(KeyCertMismatch(x), "warning")
    [] id = "serial" -> If(Serial(x), "warning")
    [] id = "version" -> IF Version1(x) THEN "warning" ELSE If(OldVersionWithExtensions(x), "info")
    [] id = "unknown_ext" -> If(UnknownExt(x), "info")
    [] id = "long_validity" -> If(LongValidity(x), "info")
    [] id = "self_signed_leaf" -> If(SelfSignedLeaf(x), "info")
    [] id = "wildcard" -> If(Wildcard(x), "info")
    [] id = "revocation_revoked" -> If(Revoked(x), "critical")
    [] id = "revocation_undetermined" ->
         If(RevocationUndetermined(x), IF x.opts.revocationRequire THEN "critical" ELSE "warning")
    [] id = "revocation_unverified" -> If(RevocationUnverified(x), "warning")
    [] id = "untrusted_chain" -> If(UntrustedChain(x), "warning")
    [] id = "distrusted_root" -> If(DistrustedRoot(x), "critical")
    [] id = "precert_as_cert" -> If(PrecertAsCert(x), "warning")
    [] id = "path_length_violation" -> If(PathLengthViolation(x), "critical")
    [] id = "netscape_type_conflict" -> If(NetscapeTypeConflict(x), "info")
    [] id = "name_constraints_violation" -> If(NameConstraintsViolation(x), "critical")
    [] id = "name_constraints_on_root" -> If(NameConstraintsOnRoot(x), "info")

Rank(severity) == CASE severity = "critical" -> 3 [] severity = "warning" -> 2 [] severity = "info" -> 1 [] OTHER -> 0

Enabled(check, opts) ==
  check.id \notin opts.disabled /\ (opts.categories # {} => check.category \in opts.categories)
EnabledCheckCount(opts) ==
  Len(SelectSeq(ExpiryChecks \o OtherChecks, LAMBDA d : d.id \notin opts.disabled))

\* The issues a list of checks adds for one item, in their order.
Issues(checks, x) ==
  LET run == SelectSeq(checks, LAMBDA d : Enabled(d, x.opts) /\ ItemKindOf(It(x)) \in d.kinds)
      found == [i \in DOMAIN run |-> [ref |-> x.ref, id |-> run[i].id, severity |-> Finding(run[i].id, x)]]
  IN  SelectSeq(found, LAMBDA issue : Rank(issue.severity) > 0 /\ Rank(issue.severity) >= x.opts.minRank)

\* sort.SliceStable by severity, and the totals that go with it.
Sorted(issues) ==
  LET of(s) == SelectSeq(issues, LAMBDA issue : issue.severity = s) IN of("critical") \o of("warning") \o of("info")
Summary(issues) ==
  [s \in {"critical", "warning", "info"} |-> Cardinality({ i \in DOMAIN issues : issues[i].severity = s })]
===============================================================================
