-------------------------------- MODULE Trust ---------------------------------
(***************************************************************************)
(* internal/certops/trust.go, store_synth.go, store_diff.go and            *)
(* certlib/truststore: what this machine's trust stores say of the         *)
(* certificates of a scan.  A loaded store is [type, name, certs, denied,  *)
(* warned]: its certificates in order, the ids it explicitly distrusts,    *)
(* and whether it carries a warning of its own.                            *)
(***************************************************************************)
EXTENDS Certificates

CONSTANT NoAnchor

Ranks == [denied |-> 0, anchor |-> 1, trusted |-> 2, expired |-> 3, untrusted |-> 4, unknown |-> 5]
Stronger(a, b) == IF Ranks[b] < Ranks[a] THEN b ELSE a
IsTrusted(verdict) == verdict \in {"anchor", "trusted"}

OSStores(stores) == SelectSeq(stores, LAMBDA s : s.type = "os")
CertSet(stores) == UNION { Range(stores[i].certs) : i \in DOMAIN stores }

\* A cached denial is never lifted by another OS store that merely holds the certificate.
OSMembership(stores) ==
  LET os == OSStores(stores)
      denied(id) == \E i \in DOMAIN os : \E c \in Range(os[i].certs) : c.id = id /\ id \in os[i].denied
  IN  [id \in { c.id : c \in CertSet(os) } |-> IF denied(id) THEN "denied" ELSE "anchor"]

OSRootPoolWithDenied(stores) == CertSet(OSStores(stores))
OSRootPool(stores) == { c \in CertSet(OSStores(stores)) : OSMembership(stores)[c.id] # "denied" }

CrossSignedAnchors(cert, stores) ==
  IF ~cert.ca THEN {} ELSE { r \in OSRootPool(stores) : r.subject = cert.subject /\ r.key = cert.key }

\* verifyChain over the shared pools, with every error it may come back with: the leaf's
\* own validity is looked at first, an expired candidate may or may not be the last one
\* tried, and without any anchor nothing is verified at all.
VerifyChain(cert, intermediates, roots, now) ==
  LET anchors == Anchors(cert, intermediates, roots, now)
  IN  IF roots = {} THEN { [verdict |-> "untrusted", anchor |-> NoAnchor] }
      ELSE IF ~InValidity(cert, now) THEN { [verdict |-> "expired", anchor |-> NoAnchor] }
      ELSE IF anchors # {} THEN { [verdict |-> "trusted", anchor |-> a] : a \in anchors }
      ELSE { [verdict |-> v, anchor |-> NoAnchor] :
               v \in {"untrusted"} \cup IF PathExpired(cert, intermediates, roots, now) THEN {"expired"} ELSE {} }

\* One certificate of EvaluateTrust's loop.  Membership of an OS store settles it; a CA
\* that no path reaches is still trusted if the OS holds another certificate of its key.
JudgeOne(cert, stores, scanned, aia, now) ==
  LET members == OSMembership(stores)
      roots == OSRootPool(stores)
      judged(v) ==
        LET cross == CrossSignedAnchors(cert, stores)
            after == IF v.verdict = "untrusted" /\ cross # {}
                     THEN [verdict |-> "trusted", anchor |-> CHOOSE r \in cross : TRUE] ELSE v
            without == { w.verdict : w \in VerifyChain(cert, scanned, roots, now) }
        IN  [verdict |-> after.verdict, anchor |-> after.anchor,
             viaAIA |-> aia # {} /\ after.verdict = "trusted" /\ "trusted" \notin without]
  IN  IF cert.id \in DOMAIN members
      THEN { [verdict |-> members[cert.id], anchor |-> cert, viaAIA |-> FALSE] }
      ELSE { judged(v) : v \in VerifyChain(cert, scanned \cup aia, roots, now) }

\* TrustIndex.SetDetail: the strongest verdict a certificate ever got, with what else was
\* found the last time it was looked at.
SetDetail(index, id, d) ==
  [i \in DOMAIN index \cup {id} |->
     IF i # id THEN index[i]
     ELSE IF id \in DOMAIN index THEN [d EXCEPT !.verdict = Stronger(index[id].verdict, d.verdict)] ELSE d]

Verdict(index, cert) == IF cert.id \in DOMAIN index THEN index[cert.id].verdict ELSE "unknown"

\* The OS certificates that issued something in the scan, and those that issued them.
RECURSIVE AnchorClosure(_, _, _)
AnchorClosure(wanted, stores, scanned) ==
  LET picked == { c \in CertSet(OSStores(stores)) \ scanned : c.subject \in wanted }
      next == wanted \cup { c.issuer : c \in picked }
  IN  IF next = wanted THEN picked ELSE AnchorClosure(next, stores, scanned)
PickAnchors(scanned, stores) == AnchorClosure({ c.issuer : c \in scanned }, stores, scanned)

CertItem(cert) ==
  [type |-> "cert", cert |-> cert, key |-> cert.key, pub |-> cert.pub, encrypted |-> FALSE, password |-> "none"]
Container(source, relationsOnly, certs) ==
  [source |-> source, format |-> "PEM", relationsOnly |-> relationsOnly, password |-> "none",
   items |-> [i \in DOMAIN certs |-> CertItem(certs[i])]]

AnchorContainer(scanned, stores) ==
  LET picked == PickAnchors(scanned, stores)
  IN  IF picked = {} THEN <<>> ELSE << Container("truststore", TRUE, SetToSeq(picked)) >>

AIAContainer(fetched) ==
  IF fetched = <<>> THEN <<>> ELSE << Container("aia", FALSE, fetched) >>

-------------------------------------------------------------------------------
(* The stores view: the same stores as containers, tags and differences *)

SynthesizeByInstance(stores) ==
  [i \in DOMAIN stores |-> Container("truststore", FALSE, stores[i].certs)]

FirstOfEach(certs) ==
  FoldLeft(LAMBDA out, c : IF \E i \in DOMAIN out : out[i].id = c.id THEN out ELSE Append(out, c), <<>>, certs)
TypesOf(stores) == FoldLeft(LAMBDA out, s : IF s.type \in Range(out) THEN out ELSE Append(out, s.type), <<>>, stores)
KindWithRepeats(stores) ==
  LET types == TypesOf(stores)
      ofType(t) == SelectSeq(stores, LAMBDA s : s.type = t)
  IN  [i \in DOMAIN types |->
         Container("truststore", FALSE, FlattenSeq([k \in DOMAIN ofType(types[i]) |-> ofType(types[i])[k].certs]))]
SynthesizeByKind(stores) ==
  LET types == TypesOf(stores)
      ofType(t) == SelectSeq(stores, LAMBDA s : s.type = t)
  IN  [i \in DOMAIN types |->
         Container("truststore", FALSE,
                   FirstOfEach(FlattenSeq([k \in DOMAIN ofType(types[i]) |-> ofType(types[i])[k].certs])))]

Letters == <<"a", "b", "c", "d">>
\* A tag that several stores would share gets a letter in the order they were loaded.
StoreTags(stores) ==
  [i \in DOMAIN stores |->
     LET same == { k \in DOMAIN stores : stores[k].name = stores[i].name }
     IN  IF same = {i} THEN stores[i].name
         ELSE stores[i].name \o Letters[Cardinality({ k \in same : k <= i })]]

TagsFor(stores, cert) ==
  LET holds(i) == \E c \in Range(stores[i].certs) : c.id = cert.id
      in == SelectSeq([i \in DOMAIN stores |-> i], holds)
  IN  [k \in DOMAIN in |-> StoreTags(stores)[in[k]]]

InAllStores(stores, cert) == stores # <<>> /\ Len(TagsFor(stores, cert)) = Len(stores)

\* A subject left over on both sides is a rotation, whatever else is left of it.
StoreDiff(a, b) ==
  LET onlyA == { c \in a : \A d \in b : d.id # c.id }
      onlyB == { c \in b : \A d \in a : d.id # c.id }
      rotated == { c.subject : c \in onlyA } \cap { c.subject : c \in onlyB }
  IN  [common |-> Cardinality(a \ onlyA),
       onlyInA |-> { c \in onlyA : c.subject \notin rotated },
       onlyInB |-> { c \in onlyB : c.subject \notin rotated },
       rotated |-> { [subject |-> s, a |-> { c.id : c \in { d \in onlyA : d.subject = s } },
                      b |-> { c.id : c \in { d \in onlyB : d.subject = s } }] : s \in rotated }]
Identical(diff) == diff.onlyInA = {} /\ diff.onlyInB = {} /\ diff.rotated = {}
===============================================================================
