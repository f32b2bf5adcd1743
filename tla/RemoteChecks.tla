----------------------------- MODULE RemoteChecks -----------------------------
(***************************************************************************)
(* internal/certlib/checker_remote*.go with certops/remote_check*.go and   *)
(* remote_trust.go: what is found wrong with the chain a server sent and   *)
(* the connection it came over.  A remote check is a condition on the      *)
(* context x: [certs, aia, roots, host, sni, version, weakCipher, offered, *)
(* alpn, stapled, revocation, platform, now, opts]; the chain is judged by *)
(* the checks of a scan as well.                                           *)
(***************************************************************************)
EXTENDS Checks

CONSTANT NoRoots     \* no OS trust store could be read

Leaf(x) == x.certs[1]
IntermediatePool(x) == Range(Tail(x.certs)) \cup x.aia
Verifies(x, pool) == InValidity(Leaf(x), x.now) /\ Anchors(Leaf(x), pool, x.roots, x.now) # {}

\* The served certificates that hang together from the leaf, each taken once: the first
\* that signed the one before.
ServedPath(certs) ==
  LET go(path, i) ==
        LET top == certs[Last(path)]
            next == { k \in DOMAIN certs \ Range(path) : CheckSignatureFrom(top, certs[k]) }
        IN  IF IsSelfSigned(top) \/ next = {} THEN path ELSE Append(path, Min(next))
  IN  IF certs = <<>> THEN <<>> ELSE FoldLeft(go, <<1>>, certs)
PathByName(certs) ==
  LET go(path, i) ==
        LET top == certs[Last(path)]
            next == { k \in DOMAIN certs \ Range(path) : certs[k].subject = top.issuer }
        IN  IF IsSelfSigned(top) \/ next = {} THEN path ELSE Append(path, Min(next))
  IN  IF certs = <<>> THEN <<>> ELSE FoldLeft(go, <<1>>, certs)

-------------------------------------------------------------------------------
(* chain *)

Several(x) == Len(x.certs) >= 2
ChainUntrusted(x) == x.certs # <<>> /\ x.roots # NoRoots /\ ~Verifies(x, IntermediatePool(x))
ExpectedRemoteHostname(x) == IF x.sni # <<>> THEN x.sni ELSE x.host
VerifyHostname(cert, host) == \E n \in cert.names : n.kind = "dns" /\ n.path = host
HostnameMismatch(x) ==
  x.certs # <<>> /\ ExpectedRemoteHostname(x) # <<>> /\ ~VerifyHostname(Leaf(x), ExpectedRemoteHostname(x))
\* What was sent as SNI is what is expected: never.
SNIMismatch(x) ==
  x.certs # <<>> /\ x.sni # <<>> /\ x.sni # ExpectedRemoteHostname(x) /\ ~VerifyHostname(Leaf(x), x.sni)
LocalAnchor(x) == x.roots # NoRoots /\ Verifies(x, {})
RemoteChainIncomplete(x) == Len(x.certs) = 1 /\ Leaf(x).subject # Leaf(x).issuer
SelfSigned(x) ==
  x.certs # <<>> /\ Leaf(x).subject = Leaf(x).issuer /\ Leaf(x).signer = Leaf(x).key /\ Leaf(x).marks \cap Insecure = {}

ChainExtraneous(x) == IF Several(x) THEN DOMAIN x.certs \ Range(ServedPath(x.certs)) ELSE {}
\* A certificate none of its namesakes signed: each of them is an impostor.
WrongIntermediates(x) ==
  { <<child, cand>> \in (DOMAIN x.certs) \X (DOMAIN x.certs) :
      LET named == { k \in DOMAIN x.certs \ {child} : x.certs[k].subject = x.certs[child].issuer }
      IN  /\ Several(x) /\ ~IsSelfSigned(x.certs[child]) /\ cand \in named
          /\ \A k \in named : ~CheckSignatureFrom(x.certs[child], x.certs[k]) }
OutOfOrder(x) ==
  Several(x) /\ Len(ServedPath(x.certs)) >= 2 /\ \E i \in DOMAIN ServedPath(x.certs) : ServedPath(x.certs)[i] # i
SentRoots(x) == { i \in 2..Len(x.certs) : x.certs[i].ca /\ IsSelfSigned(x.certs[i]) }
PlatformRejects(x) ==
  x.certs # <<>> /\ x.roots # NoRoots /\ Verifies(x, IntermediatePool(x)) /\ x.platform = "rejects"

(* connection, staple and revocation *)

WeakTLS(x) == x.version \in {1, 2}
NoALPN(x) == x.offered # {} /\ x.alpn = "none"
MustStaple(x) == x.certs # <<>> /\ "must staple" \in Leaf(x).marks /\ ~x.stapled
RemoteRevoked(x) == x.revocation # NoResult /\ x.revocation.status = "revoked"
RemoteUndetermined(x) == x.opts.revocation /\ x.revocation # NoResult /\ x.revocation.status = "undetermined"
RemoteUnverified(x) == x.opts.revocation /\ Determinate(x.revocation) /\ ~x.revocation.verified
StapleFailed(x) ==
  \/ "staple" \in x.revocation.errors
  \/ x.revocation.method = "staple" /\ x.revocation.status = "undetermined"
StapleInvalid(x) == x.stapled /\ x.revocation # NoResult /\ StapleFailed(x)

\* The checks in the order they are registered, each as the severity of what it finds.
RemoteFindings(x) ==
  << [id |-> "remote_chain_untrusted", severity |-> If(ChainUntrusted(x), "warning")],
     [id |-> "remote_hostname_mismatch", severity |-> If(HostnameMismatch(x), "critical")],
     [id |-> "remote_chain_incomplete",
      severity |-> If(RemoteChainIncomplete(x), IF LocalAnchor(x) THEN "info" ELSE "warning")],
     [id |-> "remote_self_signed", severity |-> If(SelfSigned(x), "warning")],
     [id |-> "remote_no_ocsp_staple", severity |-> If(~x.stapled, "info")],
     [id |-> "remote_weak_tls", severity |-> If(WeakTLS(x), "warning")],
     [id |-> "remote_weak_cipher", severity |-> If(x.weakCipher, "warning")],
     [id |-> "remote_no_alpn", severity |-> If(NoALPN(x), "info")],
     [id |-> "remote_sni_mismatch", severity |-> If(SNIMismatch(x), "warning")],
     [id |-> "remote_chain_extraneous", severity |-> If(ChainExtraneous(x) # {}, "warning")],
     [id |-> "remote_chain_wrong_intermediate", severity |-> If(WrongIntermediates(x) # {}, "critical")],
     [id |-> "remote_chain_order", severity |-> If(OutOfOrder(x), "info")],
     [id |-> "remote_chain_sent_root", severity |-> If(SentRoots(x) # {}, "info")],
     [id |-> "must_staple_no_staple", severity |-> If(MustStaple(x), "critical")],
     [id |-> "remote_platform_rejects", severity |-> If(PlatformRejects(x), "warning")],
     [id |-> "remote_revocation_revoked", severity |-> If(RemoteRevoked(x), "critical")],
     [id |-> "remote_revocation_undetermined",
      severity |-> If(RemoteUndetermined(x), IF x.opts.revocationRequire THEN "critical" ELSE "warning")],
     [id |-> "remote_revocation_unverified", severity |-> If(RemoteUnverified(x), "warning")],
     [id |-> "remote_staple_invalid", severity |-> If(StapleInvalid(x), "warning")] >>

RunRemoteChecks(x) ==
  IF x.opts.categories # {} /\ "remote" \notin x.opts.categories THEN <<>>
  ELSE SelectSeq(RemoteFindings(x), LAMBDA f : f.id \notin x.opts.disabled /\ Rank(f.severity) > 0
                                                /\ Rank(f.severity) >= x.opts.minRank)

-------------------------------------------------------------------------------
(* CheckFetchedTarget: the same chain as a store of its own, trust evaluated without AIA *)

RemoteStore(certs) == << Container("remote", FALSE, certs) >>
EvaluateTrust(certs, stores, aia, now) ==
  FoldLeft(LAMBDA indexes, c : { SetDetail(index, c.id, d) : index \in indexes, d \in JudgeOne(c, stores, Range(certs), aia, now) },
           {<<>>}, certs)
IndexesWithAIA(x, stores) ==
  IF stores = <<>> THEN {NoTrust} ELSE EvaluateTrust(x.certs \o SetToSeq(x.aia), stores, x.aia, x.now)
Indexes(x, stores) == IF stores = <<>> THEN {NoTrust} ELSE EvaluateTrust(x.certs, stores, {}, x.now)

RunChecks(x, index) ==
  LET context(i) == [store |-> RemoteStore(x.certs), ref |-> <<1, i>>, now |-> x.now, opts |-> x.opts, trust |-> index, revs |-> <<>>]
  IN  Sorted(FlattenSeq([i \in DOMAIN x.certs |-> Issues(ExpiryChecks \o OtherChecks, context(i))]))
CheckFetchedTarget(x, index) ==
  LET found == RunRemoteChecks(x)
  IN  [i \in DOMAIN found |-> [ref |-> <<1, 0>>, id |-> found[i].id, severity |-> found[i].severity]] \o RunChecks(x, index)

-------------------------------------------------------------------------------
(* remote_trust.go, verify.go: a chain against one store after the other *)

VerifyChainIn(certs, roots, host, now) ==
  /\ certs # <<>>
  /\ InValidity(certs[1], now) /\ Anchors(certs[1], Range(Tail(certs)), roots, now) # {}
  /\ host = <<>> \/ VerifyHostname(certs[1], host)
SelectedKinds == {"os", "java", "openssl", "bundle", "file"}
VerifyRemoteAgainstStores(certs, host, selection, stores, now) ==
  LET chosen == SelectSeq(stores, LAMBDA s : s.type \in selection \cap SelectedKinds)
  IN  [i \in DOMAIN chosen |-> [store |-> chosen[i].name, trusted |-> VerifyChainIn(certs, Range(chosen[i].certs), host, now)]]

\* remote_fetch.go: what role a served certificate is shown with, and how soon it ends.
Role(certs, i) ==
  IF certs[i].ca /\ IsSelfSigned(certs[i]) THEN "root" ELSE IF i = 1 THEN "leaf" ELSE "intermediate"

CheckExpiry(certs, now, warnDays) ==
  LET severity(c) == IF c.until < now THEN "critical" ELSE IF c.until < now + warnDays THEN "warning" ELSE "none"
  IN  SelectSeq([i \in DOMAIN certs |-> [ref |-> <<1, i>>, id |-> "expiring", severity |-> severity(certs[i])]],
                LAMBDA e : warnDays > 0 /\ e.severity # "none")

\* appendAIAToChains: what was fetched joins the chain it hangs on, to a fixed point.
RECURSIVE AppendAIA(_, _)
AppendAIA(certs, provenance) ==
  LET more == { f \in provenance : f.cert \notin Range(certs) /\ f.from \in Range(certs) }
  IN  IF more = {} THEN certs ELSE AppendAIA(Append(certs, (CHOOSE f \in more : TRUE).cert), provenance)

\* cmd/remote.go: the worst of what happened, whatever the order of the targets.
CheckExitCode(errors, summaries, strict) ==
  LET go(code, i) ==
        LET s == summaries[i]
            after == IF s["critical"] > 0 /\ code < 2 THEN 2 ELSE code
        IN  IF errors[i] THEN Max({code, 3})
            ELSE IF s["warning"] > 0 /\ after < 1 THEN IF strict THEN 2 ELSE 1 ELSE after
  IN  FoldLeft(go, 0, [i \in DOMAIN errors |-> i])
===============================================================================
