------------------------------ MODULE RemoteCheck ------------------------------
(***************************************************************************)
(* `certdiag remote` and `verify` as a whole: the connections of           *)
(* RemoteDial, and what is made of the chains they bring.  The goroutine   *)
(* that dialled a target fetches what is missing, asks for revocation and  *)
(* checks (remote_check.go); once all are done the chains are put to the   *)
(* selected trust stores, the exit code follows.  job.world is what a      *)
(* chain meets: [now, stores, aia, provenance, sources, method, opts,      *)
(* host, sni, weakCiphers, offered, alpn, platform, selection, strict].    *)
(***************************************************************************)
EXTENDS RemoteDial, RemoteChecks

CONSTANT MaxTargets   \* the longest list of targets in Jobs

VARIABLES
  reports,   \* goroutine -> what it reports of a chain, or None
  exit       \* the exit code, or None

rcvars == <<vars, reports, exit>>
World == job.world

RCInit == Init /\ reports = [p \in Processes |-> None] /\ exit = None

\* OSAnchorPool: a pool without a certificate is no pool.
OSAnchorPool(stores) == IF OSRootPool(stores) = {} THEN NoRoots ELSE OSRootPool(stores)
ContextOf(r, fetched) ==
  [certs |-> r.chain, aia |-> fetched, roots |-> OSAnchorPool(World.stores),
   host |-> World.host, sni |-> World.sni, version |-> r.version, weakCipher |-> r.cipher \in World.weakCiphers,
   offered |-> World.offered, alpn |-> World.alpn, stapled |-> World.sources.staple # NoAnswer,
   revocation |-> ResolveLeafRevocation(r.chain[1], r.chain, SetToSeq(fetched), World.sources, World.method, World.opts.revocation),
   platform |-> World.platform, now |-> World.now, opts |-> World.opts]

ReportOf(x, issues) ==
  [x |-> x, roles |-> [i \in DOMAIN x.certs |-> Role(x.certs, i)],
   issues |-> issues, verdicts |-> <<>>, shown |-> x.certs, index |-> NoTrust]

\* checkSingleTarget, once connected.  Fetching over AIA may bring nothing.
CheckSingleTarget(r) ==
  UNION { { ReportOf(x, CheckFetchedTarget(x, index)) : index \in Indexes(x, World.stores) } :
            x \in { ContextOf(r, fetched) : fetched \in {{}, World.aia} } }
FetchSingleTarget(r) == { ReportOf(ContextOf(r, {}), CheckExpiry(r.chain, World.now, World.opts.warnDays)) }

\* certops/verify.go: against the one store that was asked for.
VerifyOS(r) ==
  { [ReportOf(ContextOf(r, {}), <<>>) EXCEPT !.verdicts =
       << [store |-> "OS Trust Store",
           trusted |-> VerifyChainIn(r.chain, OSRootPool(World.stores), World.host, World.now)] >>] }

Reports(r) ==
  CASE r.error # "none" \/ job.kind \in {"pipe", "http", "probe"} -> {None}
    [] job.kind = "check" -> CheckSingleTarget(r)
    [] job.kind = "fetch" -> FetchSingleTarget(r)
    [] job.kind = "verify" -> IF OSRootPool(World.stores) = {} THEN {None} ELSE VerifyOS(r)

Report(p) ==
  /\ Finish(p)
  /\ \E r \in {Outcome(p)} : \E report \in Reports(r) : reports' = [reports EXCEPT ![p] = report]
  /\ UNCHANGED exit

\* The other steps of a goroutine.
Proceed(p) ==
  /\ \/ Start(p) \/ Resolve(p) \/ Connect(p) \/ ProxyAnswers(p)
     \/ Receive(p) \/ Handshake(p) \/ Relay(p) \/ Expire(p)
  /\ UNCHANGED <<reports, exit>>

-------------------------------------------------------------------------------
(* cmd/remote.go: once every target is done *)

Reported == { p \in Processes : reports[p] # None }
\* What was fetched over AIA for all targets joins each chain, and is judged with them.
WithVerdicts(p, index, found) ==
  [reports[p] EXCEPT
     !.verdicts = VerifyRemoteAgainstStores(outcome[p].chain, World.host, World.selection, World.stores, World.now),
     !.shown = IF job.kind = "fetch" THEN AppendAIA(outcome[p].chain, found) ELSE @,
     !.index = index]
FetchedStore(found) == FlattenSeq([p \in Processes |-> outcome[p].chain]) \o SetToSeq({ f.cert : f \in found })

SummaryOf(p) == Summary(IF reports[p] = None THEN <<>> ELSE reports[p].issues)
Failed(p) == outcome[p].error # "none"
ExitCode ==
  CASE job.kind \in {"check", "fetch"} ->
         CheckExitCode([p \in Processes |-> Failed(p)], [p \in Processes |-> SummaryOf(p)], job.kind = "check" /\ World.strict)
    [] job.kind = "verify" -> IF reports[1] # None /\ reports[1].verdicts[1].trusted THEN 0 ELSE 1
    [] OTHER -> IF ~Failed(1) THEN 0 ELSE IF job.targets[1].form = "invalid" THEN 1 ELSE 3

Conclusion ==
  /\ \A p \in Processes : pc[p] = "done"
  /\ exit = None /\ exit' = ExitCode
  /\ IF Reported = {} \/ job.kind = "verify" THEN UNCHANGED reports
     ELSE \E found \in IF job.kind = "fetch" THEN {{}, World.provenance} ELSE {{}} :
          \E index \in IF job.kind = "fetch"
                       THEN EvaluateTrust(FetchedStore(found), World.stores, { f.cert : f \in found }, World.now) ELSE {NoTrust} :
            reports' = [p \in Processes |-> IF p \in Reported THEN WithVerdicts(p, index, found) ELSE None]
  /\ UNCHANGED vars

RCNext == Conclusion \/ \E p \in Processes : Report(p) \/ Proceed(p)

\* A goroutine that can go on does; a deadline passes; the command concludes.
Concludes == (\A p \in Processes : pc[p] = "done") /\ exit = None /\ exit' \in 0..3
RCFair ==
  /\ WF_exit(Concludes)
  /\ \A p \in 1..MaxTargets : WF_vars(p \in Processes /\ Step(p))
FairSpec == RCInit /\ [][RCNext]_rcvars /\ RCFair

-------------------------------------------------------------------------------
(* Properties *)

\* Every command comes to an end, whoever stays silent: each wait has a bound.  Only a
\* pipe, once connected, lasts as long as its server wants.
EveryCommandEnds == <>(exit # None \/ (job.kind = "pipe" /\ pc[1] = "relay"))

ServedVerifies(x) == Verifies(x, Range(Tail(x.certs)))
Gaps == {"remote_chain_untrusted", "remote_chain_incomplete", "chain_incomplete", "untrusted_chain",
         "remote_self_signed", "distrusted_root", "expired", "not_yet_valid"}

\* What is reported of a chain is so, whatever was fetched to look at it.  A chain that its
\* certificates alone do not connect to a root of this machine is told of, also when AIA
\* completes it (a client without AIA fails; not so if its root here has expired); one put in order, without a certificate too
\* many, is not called incomplete, disordered or extraneous; no store a chain verifies in
\* is contradicted by its issues; and the exit code is that of the worst target, in
\* whatever order they ended (remote_checktarget.go:35-91, cmd/remote.go:761-784).
ReportTold ==
  exit # None /\ job.kind = "check" =>
    /\ \A p \in Reported :
         LET x == reports[p].x
             found == { issue.id : issue \in Range(reports[p].issues) }
             linked == \A i \in 1..Len(x.certs) - 1 : CheckSignatureFrom(x.certs[i], x.certs[i + 1])
             distinct == \A i, k \in DOMAIN x.certs : x.certs[i].key = x.certs[k].key => i = k
         IN  World.opts.disabled = {} /\ World.opts.categories = {} /\ World.opts.minRank = 0 =>
             /\ x.roots # NoRoots /\ ~ServedVerifies(x) /\ (\A r \in x.roots : InValidity(r, x.now)) => found \cap Gaps # {}
             /\ linked /\ distinct /\ IsSelfSigned(Last(x.certs)) =>
                  found \cap {"chain_incomplete", "remote_chain_extraneous", "remote_chain_order", "remote_chain_wrong_intermediate"} = {}
             /\ ~linked => found \cap {"chain_incomplete", "remote_chain_extraneous", "remote_chain_order"} # {}
             /\ \A v \in Range(reports[p].verdicts) :
                  v.store = "OS" /\ v.trusted /\ x.roots # NoRoots /\ (\A i \in DOMAIN World.stores : World.stores[i].denied = {}) =>
                    found \cap {"remote_chain_untrusted", "remote_hostname_mismatch"} = {}
    /\ exit = 3 <=> \E p \in Processes : Failed(p)
    /\ exit = 0 => \A p \in Reported : SummaryOf(p)["critical"] = 0 /\ SummaryOf(p)["warning"] = 0
    /\ exit = 1 => \A p \in Reported : SummaryOf(p)["critical"] = 0

\* checker_remote_chain.go:118-119 calls an extraneous certificate bytes that no client can
\* use: a chain that verifies does so without them.
ExtraneousUnneeded ==
  \A p \in Reported :
    LET x == reports[p].x
    IN  x.roots # NoRoots /\ ServedVerifies(x) =>
          Verifies(x, { x.certs[i] : i \in Range(ServedPath(x.certs)) })
=============================================================================
