------------------------------- MODULE Analysis -------------------------------
(***************************************************************************)
(* internal/certops/scan.go (Analyze) with store_load.go: what is done     *)
(* with a scanned store.  The machine's trust stores are read one kind     *)
(* after the other, any of which may fail; missing issuers are fetched;    *)
(* the anchors that matter join the store; every certificate is judged;    *)
(* relations and chains follow; then the checks go over the items.  The    *)
(* clock may move while certificates are judged and checked.               *)
(***************************************************************************)
EXTENDS Checks

CONSTANTS
  Inputs,      \* what may have been scanned: [store, published, sources]
  Machine,     \* kind of store -> the contents a successful read may give
  Options      \* [trust, aia, revocation, revocationRequire, assemble, cancellable, skip, files,
               \*  warnDays, criticalDays, disabled, categories, minRank, and, as bounds,
               \*  today (the day of the scan) and lastDay (the clock stops)]

VARIABLES
  input, opts,
  phase,       \* "load", "aia", "judge", "relate", "revoke", "check", "done", "cancelled"
  next,        \* the next kind to read, certificate to judge or item to check
  stores,      \* StoreLoadAllResult.Stores
  readOK, cancelled,
  store,       \* the scanned store, with what the analysis adds to it
  fetched,     \* AIAResult.Fetched
  trust,       \* the TrustIndex, or NoTrust
  chains, revs, report,
  step,        \* the next expiry check of the item
  clock, began \* today, and the day the item's first check ran

vars == <<input, opts, phase, next, stores, readOK, cancelled, store, fetched, trust,
          chains, revs, report, step, clock, began>>
loading == <<stores, readOK, cancelled>>
judging == <<store, fetched, trust>>
checking == <<chains, revs, report, step, clock, began>>

Kinds == <<"os", "java", "openssl", "nss", "bundle">>
KindAt(n) == IF n <= Len(Kinds) THEN Kinds[n] ELSE "file"
LastKind == Len(Kinds) + opts.files

Init ==
  /\ input \in Inputs /\ opts \in Options
  /\ phase = (IF opts.trust THEN "load" ELSE "relate") /\ next = 1
  /\ stores = <<>> /\ readOK = FALSE /\ cancelled = FALSE
  /\ store = input.store /\ fetched = <<>> /\ trust = NoTrust
  /\ chains = <<>> /\ revs = <<>> /\ report = <<>> /\ step = 1
  /\ clock = opts.today /\ began = clock

-------------------------------------------------------------------------------
(* StoreLoadAll *)

\* The context is looked at between the kinds, not before the browser stores, and after
\* the last kind when no file follows.
LooksAtContext(n) == n \in {2, 3, 5} \/ n \in 6..Max({6, LastKind})
Stopped == cancelled /\ LooksAtContext(next)

\* A store that could be read counts when it holds a certificate; a file given by name
\* counts as soon as it could be read.
Counts(kind, read) == kind = "file" \/ \E i \in DOMAIN read : read[i].certs # <<>>

Read ==
  /\ phase = "load" /\ next <= LastKind /\ ~Stopped
  /\ IF KindAt(next) \in opts.skip THEN UNCHANGED loading
     ELSE \/ \E read \in Machine[KindAt(next)] :
               /\ stores' = stores \o read
               /\ readOK' = (readOK \/ Counts(KindAt(next), read))
               /\ UNCHANGED cancelled
          \/ /\ stores' = IF KindAt(next) = "file"
                          THEN Append(stores, [type |-> "file", name |-> "F", certs |-> <<>>, denied |-> {}, warned |-> TRUE])
                          ELSE stores
             /\ UNCHANGED <<readOK, cancelled>>
  /\ next' = next + 1 /\ UNCHANGED <<input, opts, phase, judging, checking>>

Cancel ==
  /\ phase = "load" /\ opts.cancellable /\ ~cancelled /\ cancelled' = TRUE
  /\ UNCHANGED <<input, opts, phase, next, stores, readOK, judging, checking>>

Stop ==
  /\ phase = "load" /\ Stopped /\ phase' = "cancelled"
  /\ UNCHANGED <<input, opts, next, loading, judging, checking>>

\* An empty store that does not say why gets a warning; if nothing at all could be read
\* the analysis goes on without trust.
LoadEnds ==
  /\ phase = "load" /\ next > LastKind /\ ~Stopped
  /\ stores' = [i \in DOMAIN stores |-> [stores[i] EXCEPT !.warned = @ \/ stores[i].certs = <<>>]]
  /\ phase' = IF readOK THEN "aia" ELSE "relate"
  /\ next' = 1 /\ UNCHANGED <<input, opts, readOK, cancelled, judging, checking>>

-------------------------------------------------------------------------------
(* evaluateScanTrust *)

CertsOf(s) == { CertAt(s, r) : r \in Range(CertRefs(s)) }

\* The chase may bring any part of what is published (AIAChase).  What it brought joins
\* the store first, the anchors of everything then in the store second.
Complete ==
  /\ phase = "aia"
  /\ \E got \in IF opts.aia THEN SUBSET input.published ELSE {{}} :
       LET with == store \o AIAContainer(SetToSeq(got))
       IN  /\ fetched' = SetToSeq(got)
           /\ store' = with \o AnchorContainer(CertsOf(with), stores)
  /\ trust' = <<>> /\ phase' = "judge" /\ next' = 1
  /\ UNCHANGED <<input, opts, loading, checking>>

Judge ==
  /\ phase = "judge" /\ next <= Len(CertRefs(store))
  /\ LET cert == CertAt(store, CertRefs(store)[next])
     IN  \E d \in JudgeOne(cert, stores, CertsOf(store), Range(fetched), clock) : trust' = SetDetail(trust, cert.id, d)
  /\ next' = next + 1
  /\ UNCHANGED <<input, opts, phase, loading, store, fetched, checking>>

Judged ==
  /\ phase = "judge" /\ next > Len(CertRefs(store)) /\ phase' = "relate" /\ next' = 1
  /\ UNCHANGED <<input, opts, loading, judging, checking>>

-------------------------------------------------------------------------------
(* analyzeInto *)

TotalItems == FoldLeft(LAMBDA n, c : n + Len(c.items), 0, store)

Relate ==
  /\ phase = "relate"
  /\ chains' = IF TotalItems >= 2 /\ opts.assemble THEN AssembleChainAlternatives(store) ELSE <<>>
  /\ phase' = "revoke"
  /\ UNCHANGED <<input, opts, next, loading, judging, revs, report, step, clock, began>>

ItemRefs == FlattenSeq([ci \in DOMAIN store |-> [ii \in DOMAIN store[ci].items |-> <<ci, ii>>]])
CheckedRefs == SelectSeq(ItemRefs, LAMBDA r : ~store[r[1]].relationsOnly)

\* computeRevocation: without an issuer in the store one is fetched for the occasion.
Revoke ==
  /\ phase = "revoke"
  /\ LET asked == { r \in Range(CheckedRefs) : Item(store, r).type = "cert" /\ ~IsSelfSigned(CertAt(store, r)) }
         issuer(c) == IF FindIssuerInStore(store, c) # NoCert THEN FindIssuerInStore(store, c)
                      ELSE PickIssuer(c, SetToSeq(input.published))
     IN  revs' = IF ~opts.revocation THEN <<>>
                 ELSE [r \in asked |-> ResolveRevocation(CertAt(store, r), issuer(CertAt(store, r)),
                                                         [input.sources[CertAt(store, r).id] EXCEPT !.staple = NoAnswer], "auto")]
  /\ phase' = "check" /\ next' = 1 /\ step' = 1 /\ began' = clock
  /\ UNCHANGED <<input, opts, loading, judging, chains, report, clock>>

Context == [store |-> store, ref |-> CheckedRefs[next], now |-> clock, opts |-> opts, trust |-> trust, revs |-> revs]

CheckExpiry ==
  /\ phase = "check" /\ next <= Len(CheckedRefs) /\ step <= Len(ExpiryChecks)
  /\ report' = report \o Issues(<<ExpiryChecks[step]>>, Context) /\ step' = step + 1
  /\ UNCHANGED <<input, opts, phase, next, loading, judging, chains, revs, clock, began>>

CheckRest ==
  /\ phase = "check" /\ next <= Len(CheckedRefs) /\ step > Len(ExpiryChecks)
  /\ report' = report \o Issues(OtherChecks, Context)
  /\ next' = next + 1 /\ step' = 1 /\ began' = clock
  /\ UNCHANGED <<input, opts, phase, loading, judging, chains, revs, clock>>

Finish ==
  /\ phase = "check" /\ next > Len(CheckedRefs) /\ phase' = "done" /\ report' = Sorted(report)
  /\ UNCHANGED <<input, opts, next, loading, judging, chains, revs, step, clock, began>>

Tick ==
  /\ phase \in {"judge", "check"} /\ clock < opts.lastDay /\ clock' = clock + 1
  /\ UNCHANGED <<input, opts, phase, next, loading, judging, chains, revs, report, step, began>>

Next ==
  \/ Read \/ Cancel \/ Stop \/ LoadEnds \/ Complete \/ Judge \/ Judged
  \/ Relate \/ Revoke \/ CheckExpiry \/ CheckRest \/ Finish \/ Tick

Spec == Init /\ [][Next]_vars

-------------------------------------------------------------------------------
(* Properties *)

TypeOK ==
  /\ phase \in {"load", "aia", "judge", "relate", "revoke", "check", "done", "cancelled"}
  /\ next \in Nat /\ step \in 1..Len(ExpiryChecks) + 1 /\ clock \in opts.today..opts.lastDay /\ began \in opts.today..clock
  /\ trust = NoTrust \/ \A id \in DOMAIN trust : trust[id].verdict \in DOMAIN Ranks

WasJudged == phase = "relate" /\ opts.trust
Denies(id) == \E i \in DOMAIN stores : stores[i].type = "os" /\ id \in stores[i].denied /\ \E c \in Range(stores[i].certs) : c.id = id
InOS(id) == \E i \in DOMAIN stores : stores[i].type = "os" /\ \E c \in Range(stores[i].certs) : c.id = id

\* What the verdicts promise (docs/trust.md): every certificate has one as soon as any
\* store could be read, and none otherwise; DENIED is what an OS store denies, whatever
\* other OS stores say; ANCHOR is what one holds and none denies; TRUSTED names an anchor
\* that an OS store holds and none denies, which shares the key of the certificate or is
\* reached from it by signatures over what was scanned and fetched.
VerdictsSound ==
  /\ TypeOK
  /\ WasJudged /\ trust = NoTrust =>
       /\ store = input.store
       /\ \A i \in DOMAIN stores : stores[i].type # "file" => stores[i].certs = <<>> /\ stores[i].warned
  /\ WasJudged /\ trust # NoTrust =>
       \A cert \in CertsOf(store) :
         LET d == trust[cert.id]
             signers(set) == { p \in CertsOf(store) : \E c \in set : CheckSignatureFrom(c, p) }
             up1 == {cert} \cup signers({cert})
             up2 == up1 \cup signers(up1)
             up3 == up2 \cup signers(up2)
         IN  /\ d.verdict = "denied" <=> Denies(cert.id)
             /\ d.verdict = "anchor" <=> InOS(cert.id) /\ ~Denies(cert.id)
             /\ d.verdict = "trusted" /\ d.anchor # NoAnchor =>
                  /\ InOS(d.anchor.id) /\ ~Denies(d.anchor.id)
                  /\ d.anchor.key = cert.key \/ \E c \in up3 : CheckSignatureFrom(c, d.anchor)

\* The chains of a leaf are all the longest ways up from it, once each, unless there are
\* more than the cap (relations.go:412-501).
EveryWayUp ==
  phase = "revoke" /\ TotalItems >= 2 /\ opts.assemble =>
    \A ref \in DOMAIN chains :
      LET all == AllChains(store, ref) \ {<<ref>>}
      IN  /\ Range(chains[ref]) \subseteq all
          /\ Cardinality(Range(chains[ref])) = Len(chains[ref])
          /\ Len(chains[ref]) < MaxChainAlternatives => Range(chains[ref]) = all

\* A leaf shown as trusted has a chain line that gets to an anchor (relations.go:412: a
\* chain line must not disagree with its own trust verdict), as long as the key
\* identifiers agree: the verifier does not insist on them, the relations do.
TrustedLeafHasChain ==
  phase = "revoke" /\ trust # NoTrust /\ opts.assemble =>
    \A ref \in DOMAIN chains :
      /\ Verdict(trust, CertAt(store, ref)) = "trusted"
      /\ Len(chains[ref]) < MaxChainAlternatives
      /\ \A c, p \in CertsOf(store) : c.aki # "" /\ p.ski # "" /\ CheckSignatureFrom(c, p) => c.aki = p.ski
      => \E chain \in Range(chains[ref]) : \E r \in Range(chain) : Verdict(trust, CertAt(store, r)) = "anchor"

\* The chain lines are complete, and where a verdict says trusted they show why.
ChainsComplete == EveryWayUp /\ TrustedLeafHasChain

ExpiryClass(cert, day) ==
  IF cert.until < day THEN {"expired"}
  ELSE IF cert.until - day <= opts.criticalDays THEN {"expiring_soon_critical"}
  ELSE IF cert.until - day <= opts.warnDays THEN {"expiring_soon_warning"} ELSE {}

\* A certificate gets one expiry issue: never two, whenever midnight strikes between two
\* of the checks, and the right one if it does not.
OneExpiryClass ==
  phase = "check" /\ next <= Len(CheckedRefs) /\ step > 3 /\ Item(store, CheckedRefs[next]).type = "cert" =>
    LET cert == CertAt(store, CheckedRefs[next])
        got == { report[i].id : i \in { k \in DOMAIN report : report[k].ref = CheckedRefs[next] } } \ {"not_yet_valid"}
        unfiltered == opts.minRank <= 1 /\ opts.categories = {} /\ opts.disabled = {}
    IN  /\ Cardinality(got) <= 1
        /\ unfiltered /\ ExpiryClass(cert, began) = ExpiryClass(cert, clock) => got = ExpiryClass(cert, clock)

\* The report is about what was scanned or fetched, never about the anchors the analysis
\* put beside it; and where a chain of a checked leaf ends at a certificate that is not
\* self-signed and that nothing in the scan signed, that certificate's own row says so
\* (checker_checks.go:434).
GapTold ==
  phase = "done" =>
    /\ \A i \in DOMAIN report : store[report[i].ref[1]].source # "truststore"
    /\ opts.disabled = {} /\ opts.minRank = 0 /\ opts.categories = {} =>
         \A ref \in DOMAIN chains : \A chain \in Range(chains[ref]) :
           LET end == Last(chain)
           IN  /\ ~IsSelfSigned(CertAt(store, end)) /\ SignedBy(store, end) = <<>>
               /\ ~store[end[1]].relationsOnly
               => \E i \in DOMAIN report : report[i].ref = end /\ report[i].id = "chain_incomplete"

\* The issues of a report: the right expiry class once, every gap, and nothing else's.
IssuesTold == OneExpiryClass /\ GapTold

\* The stores view shows the stores the verdicts came from: grouped by kind or one by one
\* the same certificates, by kind none twice; one tag for every store that holds a
\* certificate; and a difference of two of them accounts for every certificate of both.
StoreViewsAgree ==
  phase = "aia" =>
    LET kinds == SynthesizeByKind(stores)
        ids(set) == { c.id : c \in set }
        count(rotated, side(_)) == Cardinality(UNION { side(r) : r \in rotated })
    IN  /\ CertsOf(kinds) = CertsOf(SynthesizeByInstance(stores))
        /\ \A i \in DOMAIN kinds : Cardinality(CertsOf(<<kinds[i]>>)) = Len(kinds[i].items)
        /\ \A c \in CertSet(stores) :
             /\ Range(TagsFor(stores, c)) = { StoreTags(stores)[i] : i \in { k \in DOMAIN stores : c \in Range(stores[k].certs) } }
             /\ InAllStores(stores, c) <=> \A i \in DOMAIN stores : c \in Range(stores[i].certs)
        /\ \A i, k \in DOMAIN stores :
             LET a == Range(stores[i].certs)
                 b == Range(stores[k].certs)
                 d == StoreDiff(a, b)
             IN  /\ Cardinality(a) = d.common + Cardinality(d.onlyInA) + count(d.rotated, LAMBDA r : r.a)
                 /\ Cardinality(b) = d.common + Cardinality(d.onlyInB) + count(d.rotated, LAMBDA r : r.b)
                 /\ Identical(d) <=> ids(a) = ids(b)

\* Who answers first and says something decides, but what decides must be fit to: "good" needs
\* a current answer that says so, "revoked" one that names the certificate, and nothing stays
\* undetermined while a list of its issuer names it, however outdated or partial
\* (revocation.go:379-483).
RevocationStands ==
  phase = "check" /\ next = 1 /\ step = 1 =>
    \A ref \in DOMAIN revs :
      LET cert == CertAt(store, ref)
          s == input.sources[cert.id]
          answers == { s.ocsp[i] : i \in DOMAIN s.ocsp } \ {NoAnswer}
          lists == { l \in Range(s.crls) \ {NoAnswer} : l.issuer = cert.issuer /\ l.parses }
          says(status) == { a \in answers : a.parses /\ a.serial /\ a.status = status }
      IN  /\ revs[ref].status = "good" =>
               (\E a \in says("good") : ~a.stale) \/ (\E l \in lists : ~l.listed /\ ~l.partial /\ ~l.stale)
          /\ revs[ref].status = "revoked" => says("revoked") # {} \/ \E l \in lists : l.listed
          /\ revs[ref].status = "undetermined" =>
               ~\E l \in lists : l.listed /\ \E p \in CertsOf(store) : IssuerMatches(cert, p) /\ l.signer = p.key

\* structured.go says that trust_via_aia is true when a chain completes only through a
\* certificate fetched over AIA.
ViaAIATold ==
  phase = "done" /\ trust # NoTrust /\ clock = began =>
    \A cert \in CertsOf(input.store) :
      trust[cert.id].verdict = "trusted" /\ trust[cert.id].anchor # NoAnchor
      /\ Anchors(cert, CertsOf(input.store) \cup CertSet(OSStores(stores)), OSRootPool(stores), clock) = {}
      => trust[cert.id].viaAIA
===============================================================================
