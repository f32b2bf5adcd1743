------------------------------ MODULE Revocation ------------------------------
(***************************************************************************)
(* internal/certlib/revocation.go: is a certificate revoked, asked of a    *)
(* stapled answer, of its OCSP responders and of its CRLs in that order.   *)
(* Until asked, a source is its answer: an OCSP answer [parses, serial,    *)
(* status, authorized, stale] or a CRL [parses, signer, issuer, listed,    *)
(* partial, stale]; NoAnswer is a source that could not be reached.        *)
(***************************************************************************)
EXTENDS Certificates

CONSTANTS NoAnswer, NoResult

Result(status, method, verified, errors) ==
  [status |-> status, method |-> method, verified |-> verified, errors |-> errors]
Undetermined(method) == Result("undetermined", method, FALSE, {method})
Determinate(r) == r # NoResult /\ r.status \in {"good", "revoked"}

\* applyStaleness: an outdated "good" says nothing; an outdated "revoked" still does.
AfterStalenessIgnored(status, stale) == status
AfterStaleness(status, stale) == IF stale /\ status = "good" THEN "undetermined" ELSE status
Errors(method, failed) == IF failed THEN {method} ELSE {}

\* A response is checked against the issuer, if there is one; a responder certificate of
\* its own has to be allowed to sign OCSP.
CheckOCSPStaple(staple, hasIssuer) ==
  IF ~staple.parses \/ ~staple.serial THEN Undetermined("staple")
  ELSE Result(AfterStaleness(staple.status, staple.stale), "staple",
              hasIssuer /\ staple.authorized, Errors("staple", staple.stale))

AskResponder(answer) ==
  IF answer = NoAnswer \/ ~answer.parses \/ ~answer.serial THEN Undetermined("ocsp")
  ELSE Result(AfterStaleness(answer.status, answer.stale), "ocsp", answer.authorized,
              Errors("ocsp", answer.stale \/ answer.status = "undetermined"))

\* The first source that settles it, with what went wrong at those asked before.
FirstDeterminate(results, otherwise) ==
  LET settled == { i \in DOMAIN results : Determinate(results[i]) }
      asked == IF settled = {} THEN DOMAIN results ELSE 1..Min(settled)
      errors == UNION { results[i].errors : i \in asked }
  IN  IF settled = {} THEN [otherwise EXCEPT !.errors = errors \cup @]
      ELSE [results[Min(settled)] EXCEPT !.errors = errors]

QueryOCSP(answers, hasIssuer) ==
  IF ~hasIssuer THEN Undetermined("ocsp")
  ELSE FirstDeterminate([i \in DOMAIN answers |-> AskResponder(answers[i])],
                        Result("undetermined", "ocsp", FALSE, {}))

\* A list that its issuer did not sign, or of another issuer, says nothing; one that
\* names the certificate revokes it even when it is outdated or only a part; one that
\* does not name it clears it only when it is whole and current.
CheckCRL(crl, cert, issuer) ==
  LET verified == issuer # NoCert /\ crl.parses /\ crl.signer = issuer.key
  IN  IF \/ ~crl.parses
         \/ issuer # NoCert /\ ~verified
         \/ crl.issuer # cert.issuer
         \/ ~crl.listed /\ crl.partial
      THEN Result("undetermined", "crl", verified, {"crl"})
      ELSE Result(AfterStaleness(IF crl.listed THEN "revoked" ELSE "good", crl.stale), "crl",
                  verified, Errors("crl", crl.stale))

ResolveCRL(crls, cert, issuer) ==
  FirstDeterminate([i \in DOMAIN crls |-> IF crls[i] = NoAnswer THEN Undetermined("crl") ELSE CheckCRL(crls[i], cert, issuer)],
                   Result("undetermined", "crl", FALSE, {}))

\* sources: [staple, ocsp, crls]; a method of "auto" asks all three kinds.
ResolveRevocation(cert, issuer, sources, method) ==
  LET hasIssuer == issuer # NoCert
      online == method \in {"auto", "ocsp"}
      tried == (IF online /\ sources.staple # NoAnswer THEN <<CheckOCSPStaple(sources.staple, hasIssuer)>> ELSE <<>>)
               \o (IF online /\ sources.ocsp # <<>> THEN <<QueryOCSP(sources.ocsp, hasIssuer)>> ELSE <<>>)
               \o (IF method # "ocsp" THEN <<ResolveCRL(sources.crls, cert, issuer)>> ELSE <<>>)
  IN  FirstDeterminate(tried, Result("undetermined", "none", FALSE, {}))

IssuerMatches(cert, candidate) == candidate.subject = cert.issuer /\ CheckSignatureFrom(cert, candidate)

PickIssuer(cert, candidates) ==
  LET found == SelectSeq(candidates, LAMBDA c : c.id # cert.id /\ IssuerMatches(cert, c))
  IN  IF found = <<>> THEN NoCert ELSE found[1]

FindIssuerInStore(store, cert) ==
  PickIssuer(cert, [i \in DOMAIN CertRefs(store) |-> CertAt(store, CertRefs(store)[i])])

\* resolveLeafRevocation: without the option only a staple that came anyway is looked at.
ResolveLeafRevocation(leaf, chain, aia, sources, method, enabled) ==
  LET issuer == PickIssuer(leaf, chain \o aia)
  IN  IF enabled THEN ResolveRevocation(leaf, issuer, sources, method)
      ELSE IF sources.staple # NoAnswer THEN CheckOCSPStaple(sources.staple, issuer # NoCert) ELSE NoResult
===============================================================================
