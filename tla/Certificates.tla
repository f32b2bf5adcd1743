----------------------------- MODULE Certificates -----------------------------
(***************************************************************************)
(* internal/certlib/relations.go: who signed whom in a store, which key    *)
(* belongs to which certificate, and the chains that follow from it.  A    *)
(* store is a sequence of containers [source, format, relationsOnly,       *)
(* items]; an item is [type, cert, key, ...]; an ItemRef is the pair of    *)
(* its two indices.  A certificate is identified by its bytes (cert.id).   *)
(***************************************************************************)
EXTENDS Integers, Sequences, SequencesExt, FiniteSetsExt

CONSTANTS
  NoCert,               \* the certificate of an item that holds none
  MaxChainAlternatives  \* relations.go: 8

ASSUME CapAssumption == MaxChainAlternatives \in Nat \ {0}

-------------------------------------------------------------------------------
(* crypto/x509, as the code uses it *)

\* A non-nil error also stands for an algorithm Go refuses to verify.
Insecure == {"md5", "sha1"}
CheckSignatureFrom(child, parent) ==
  parent.ca /\ child.signer = parent.key /\ child.marks \cap Insecure = {}

InValidity(cert, now) == cert.from <= now /\ now <= cert.until

\* The certificates a path from cert may go through, and those it may end at, once
\* every certificate on it has to be valid.  A member of the roots is its own path.
RECURSIVE Climb(_, _, _)
Climb(reached, pool, now) ==
  LET more == { p \in pool \ reached :
                  \E c \in reached : c.issuer = p.subject /\ CheckSignatureFrom(c, p) /\ InValidity(p, now) }
  IN  IF more = {} THEN reached ELSE Climb(reached \cup more, pool, now)

Anchors(cert, intermediates, roots, now) ==
  LET through == Climb({cert}, intermediates, now)
  IN  IF cert \in roots THEN {cert}
      ELSE { r \in roots : InValidity(r, now) /\ \E c \in through : c.issuer = r.subject /\ CheckSignatureFrom(c, r) }

\* Without a path the error is that of whichever candidate was looked at last.
PathExpired(cert, intermediates, roots, now) ==
  \E p \in intermediates \cup roots : p.ca /\ ~InValidity(p, now)

-------------------------------------------------------------------------------
(* relations.go *)

RefsOf(store, type) ==
  FlattenSeq([ci \in DOMAIN store |->
    SelectSeq([ii \in DOMAIN store[ci].items |-> <<ci, ii>>],
              LAMBDA r : store[ci].items[r[2]].type = type)])
CertRefs(store) == RefsOf(store, "cert")
Item(store, ref) == store[ref[1]].items[ref[2]]
CertAt(store, ref) == Item(store, ref).cert

RefFromTrustStore(store, ref) == store[ref[1]].source = "truststore"

\* Without a pair of key identifiers an equal subject and issuer is taken at its word.
IsSelfSigned(cert) ==
  cert.subject = cert.issuer /\ (cert.ski # "" /\ cert.aki # "" => cert.ski = cert.aki)

MatchesIssuer(child, parent) ==
  /\ child.issuer = parent.subject
  /\ child.aki # "" /\ parent.ski # "" => child.aki = parent.ski
  /\ CheckSignatureFrom(child, parent)

\* The signed_by relations of a certificate, in the order of the scan: the index keeps
\* them in that order, and what follows "the" issuer follows the first.
SignedBy(store, ref) ==
  IF CertAt(store, ref) = NoCert \/ IsSelfSigned(CertAt(store, ref)) THEN <<>>
  ELSE SelectSeq(CertRefs(store), LAMBDA p : p # ref /\ CertAt(store, p) # NoCert
                                              /\ MatchesIssuer(CertAt(store, ref), CertAt(store, p)))

Pairs(store, type, from, to) ==
  { [type |-> type, source |-> a, target |-> b] :
      <<a, b>> \in { <<x, y>> \in Range(RefsOf(store, from)) \X Range(RefsOf(store, to)) :
                       Item(store, x).key = Item(store, y).key } }
DetectKeyCertPairs(store) == Pairs(store, "key_cert", "key", "cert")
DetectKeyCSRPairs(store) == Pairs(store, "key_csr", "key", "csr")
DetectCSRCertPairs(store) == Pairs(store, "csr_cert", "csr", "cert")

Earlier(a, b) == a[1] < b[1] \/ (a[1] = b[1] /\ a[2] < b[2])
DetectDuplicates(store) ==
  { [type |-> "same_cert", source |-> p[1], target |-> p[2]] :
      p \in { <<a, b>> \in Range(CertRefs(store)) \X Range(CertRefs(store)) :
                Earlier(a, b) /\ CertAt(store, a).id = CertAt(store, b).id } }

DetectRelations(store) ==
  { [type |-> "signed_by", source |-> r, target |-> p] : <<r, p>> \in
      { <<a, b>> \in Range(CertRefs(store)) \X Range(CertRefs(store)) : b \in Range(SignedBy(store, a)) } }
  \cup DetectKeyCertPairs(store) \cup DetectKeyCSRPairs(store)
  \cup DetectCSRCertPairs(store) \cup DetectDuplicates(store)

\* What each end of a relation is shown as.  Both ends of a duplicate read the same.
BuildRelationIndex(store) ==
  { [at |-> r.source, type |-> r.type, direction |-> "out", peer |-> r.target] : r \in DetectRelations(store) }
  \cup
  { [at |-> r.target, type |-> r.type, peer |-> r.source,
     direction |-> IF r.type = "same_cert" THEN "out" ELSE "in"] : r \in DetectRelations(store) }

-------------------------------------------------------------------------------
(* Chains *)

\* The issuers a path may go on with: no certificate is on a path twice, under
\* whichever reference it is seen.
NextFirstOnly(store, path) ==
  SelectSeq(SignedBy(store, Last(path)), LAMBDA p : p = SignedBy(store, Last(path))[1] /\ p \notin Range(path))
NextOn(store, path) ==
  SelectSeq(SignedBy(store, Last(path)),
            LAMBDA p : \A i \in DOMAIN path : path[i] # p /\ CertAt(store, path[i]).id # CertAt(store, p).id)

\* The cap is looked at before an issuer is followed, never while it is.
RECURSIVE WalkChains(_, _)
WalkChains(store, path) ==
  LET parents == NextOn(store, path)
      add(out, p) == IF Len(out) >= MaxChainAlternatives THEN out
                     ELSE out \o WalkChains(store, Append(path, p))
  IN  IF parents = <<>> THEN <<path>> ELSE FoldLeft(add, <<>>, parents)

IsLeaf(cert) == cert # NoCert /\ ~cert.ca /\ ~IsSelfSigned(cert)

AssembleChainAlternatives(store) ==
  [ref \in { r \in Range(CertRefs(store)) : IsLeaf(CertAt(store, r)) } |->
     SelectSeq(WalkChains(store, <<ref>>), LAMBDA p : Len(p) >= 2)]

FirstChains(alternatives) ==
  [ref \in { r \in DOMAIN alternatives : alternatives[r] # <<>> } |-> alternatives[ref][1]]

ChainsContaining(alternatives, member) ==
  { chain \in UNION { Range(alternatives[r]) : r \in DOMAIN alternatives } : member \in Range(chain) }

\* What a chain is, said without walking: a longest sequence of references in which
\* each is an issuer of the one before and no certificate comes twice.
IsPath(store, path) ==
  /\ \A i \in 1..Len(path) - 1 : path[i + 1] \in Range(SignedBy(store, path[i]))
  /\ \A i, j \in DOMAIN path : CertAt(store, path[i]).id = CertAt(store, path[j]).id => i = j
IsMaximal(store, path) ==
  /\ IsPath(store, path)
  /\ \A p \in Range(CertRefs(store)) : ~IsPath(store, Append(path, p))
AllChains(store, ref) ==
  { path \in UNION { {<<ref>> \o tail : tail \in [1..n -> Range(CertRefs(store))]}
                     : n \in 1..Min({4, Len(CertRefs(store))}) } : IsMaximal(store, path) }
===============================================================================
