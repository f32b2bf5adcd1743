------------------------------ MODULE RemoteDial ------------------------------
(***************************************************************************)
(* The connections of `certdiag remote` and `verify`: certlib/remote.go,   *)
(* tlsprobe.go, and the commands that drive them (certops/remote_*.go).    *)
(* A target is worked on by a goroutine of its own, at most `parallel` of  *)
(* them at a time; it resolves the name, then makes one connection after   *)
(* the other, each of which may pass a proxy and a plaintext dialogue      *)
(* before the handshake.  A read that gets no answer ends only if a        *)
(* deadline or a context bounds it.                                        *)
(***************************************************************************)
EXTENDS Starttls, FiniteSets, SequencesExt

CONSTANTS
  Jobs,     \* [kind, opts, targets, lookups, servers, faults]: a command line and its world
  None

ASSUME JobsAssumption ==
  \A j \in Jobs : Len(j.targets) \in Nat /\ DOMAIN j.targets = 1..Len(j.targets) /\ j.opts.parallel \in Int

VARIABLES
  job,
  held,       \* the semaphore of the worker pool
  pc,         \* goroutine -> "queued", "resolve", "next", "proxy", "starttls", "handshake", "relay", "done"
  addrs,      \* goroutine -> the addresses its name resolved to
  attempt,    \* goroutine -> the connection it makes: [at, min, max, ciphers]
  conn,       \* goroutine -> the socket: [open, limit, incoming, stage, offered, trouble]
  results,    \* goroutine -> how its connections ended
  outcome,    \* goroutine -> TargetResults[i], or None
  faults      \* connections that may still go wrong (a bound)

vars == <<job, held, pc, addrs, attempt, conn, results, outcome, faults>>
Processes == DOMAIN job.targets
Opts == job.opts

-------------------------------------------------------------------------------
(* Targets: [form, host, port, ip], a port of 0 where none is given *)

TargetForms == {"host", "host:port", "url", "url with port", "invalid"}
ParsedPort(target) == IF target.port = 0 THEN 443 ELSE target.port
\* fetch and check; verify looks for no more than a colon, which every URL has.
UsesDefaultPort(target) ==
  /\ Opts.starttls # "none" /\ ParsedPort(target) = 443
  /\ target.form # "host:port" /\ job.kind \in {"fetch", "check", "verify"}
  /\ job.kind = "verify" => target.form = "host"
PortOf(target) == IF UsesDefaultPort(target) THEN DefaultStarttlsPort[Opts.starttls] ELSE ParsedPort(target)

\* resolveHost: an address, or a name a proxy will resolve, is its own result.
Filtered(found) ==
  SelectSeq(found, LAMBDA a : Opts.family = "any" \/ Opts.family = a.family)
Resolved(target, found) ==
  IF target.ip \/ Opts.proxy # "none" THEN << [id |-> target.host, family |-> "name"] >> ELSE Filtered(found)

MaxMultiIP == 16
Capped(found) == SubSeq(found, 1, IF Opts.single THEN 1 ELSE IF Len(found) > MaxMultiIP THEN MaxMultiIP ELSE Len(found))

-------------------------------------------------------------------------------
(* Handshakes: a server is [plain, says, versions, ciphers, prefer, alpn, chain,         *)
(* location]; versions run from 0 (SSLv3) to 4 (TLS 1.3)                                 *)

Versions == 0..4
Suites(v) == Opts.suites[v]
AllSuites == FlattenSeq([i \in 1..5 |-> Suites(i - 1)])
\* crypto/tls: a client that sets no minimum does not go below TLS 1.2.
Plainly(at) == [at |-> at, min |-> Opts.min, max |-> Opts.max, ciphers |-> AllSuites]
Exactly(at, v, ciphers) == [at |-> at, min |-> v, max |-> v, ciphers |-> ciphers]

Best(preferred, allowed) ==
  LET common == SelectSeq(preferred, LAMBDA c : \E i \in DOMAIN allowed : allowed[i] = c)
  IN  IF common = <<>> THEN None ELSE common[1]
Negotiated(server, a) ==
  LET common == { v \in server.versions : a.min <= v /\ v <= a.max }
      v == CHOOSE x \in common : \A y \in common : y <= x
      mine == SelectSeq(a.ciphers, LAMBDA c : \E i \in DOMAIN Suites(v) : Suites(v)[i] = c)
      theirs == SelectSeq(server.ciphers, LAMBDA c : \E i \in DOMAIN Suites(v) : Suites(v)[i] = c)
      cipher == IF server.prefer = "server" THEN Best(theirs, mine) ELSE Best(mine, theirs)
  IN  IF common = {} \/ cipher = None THEN None ELSE [version |-> v, cipher |-> cipher]

Ended(at, error) ==
  [error |-> error, at |-> at, version |-> None, cipher |-> None, chain |-> <<>>, location |-> None]
Connected(at, server, negotiated) ==
  [error |-> "none", at |-> at, version |-> negotiated.version, cipher |-> negotiated.cipher,
   chain |-> server.chain, location |-> server.location]

-------------------------------------------------------------------------------
(* tlsprobe.go: which connections a probe makes, each decided by the results so far *)

VersionAttempts(at) == [i \in 1..5 |-> Exactly(at, i - 1, Suites(i - 1))]
SupportedVersions(done) == { v \in Versions : v + 1 <= Len(done) /\ done[v + 1].error = "none" }

CipherAttempts(at, done) ==
  FlattenSeq([i \in 1..5 |->
    IF i - 1 \notin SupportedVersions(done) THEN <<>>
    ELSE [k \in DOMAIN Suites(i - 1) |-> Exactly(at, i - 1, <<Suites(i - 1)[k]>>)]])
FeatureAttempt(at) == << [at |-> at, min |-> 3, max |-> 4, ciphers |-> AllSuites] >>
CandidateAttempts(at) == [k \in DOMAIN Suites(3) |-> Exactly(at, 3, <<Suites(3)[k]>>)]

\* What a probe has tried before the last two connections, and which of its candidates
\* for them the server took.
ProbedBefore(at, done) ==
  VersionAttempts(at) \o CipherAttempts(at, done) \o FeatureAttempt(at) \o CandidateAttempts(at)
Candidates(at, done) ==
  LET first == Len(ProbedBefore(at, done)) - Len(Suites(3))
  IN  SelectSeq([k \in DOMAIN Suites(3) |-> Suites(3)[k]],
                LAMBDA c : \E k \in DOMAIN Suites(3) : /\ Suites(3)[k] = c /\ first + k <= Len(done)
                                                       /\ done[first + k].error = "none")
PreferenceAsksOnce(at, done) ==
  LET took == Candidates(at, done)
  IN  IF Len(took) < 2 THEN <<>>
      ELSE << Exactly(at, 3, <<took[1], took[2]>>), Exactly(at, 3, <<took[1], took[2]>>) >>
PreferenceAttempts(at, done) ==
  LET took == Candidates(at, done)
  IN  IF Len(took) < 2 THEN <<>>
      ELSE << Exactly(at, 3, <<took[1], took[2]>>), Exactly(at, 3, <<took[2], took[1]>>) >>

\* diagnoseProbeFailure: nothing was supported, and one of the reasons is a telling one.
Diagnosis(done) ==
  LET why == { done[i].error : i \in 1..5 }
  IN  IF SupportedVersions(done) # {} THEN "none"
      ELSE IF "not TLS" \in why THEN "not TLS"
      ELSE IF "refused" \in why THEN "refused"
      ELSE IF "timeout" \in why THEN "timeout" ELSE "none"

ProbeAttempts(at, done) ==
  IF Len(done) < 5 THEN VersionAttempts(at)
  ELSE IF Diagnosis(done) # "none" THEN <<>>
  ELSE IF Len(done) < Len(ProbedBefore(at, done)) THEN ProbedBefore(at, done)
  ELSE ProbedBefore(at, done) \o PreferenceAttempts(at, done)

DetectedPreference(at, done) ==
  LET before == Len(ProbedBefore(at, done))
  IN  IF Len(done) < before + 2 \/ done[before + 1].error # "none" \/ done[before + 2].error # "none" THEN "unknown"
      ELSE IF done[before + 1].cipher = done[before + 2].cipher THEN "server" ELSE "client"

ProbeReport(at, done) ==
  IF Diagnosis(done) # "none" THEN [error |-> Diagnosis(done)]
  ELSE LET tried == CipherAttempts(at, done)
       IN  [error |-> "none", versions |-> SupportedVersions(done),
            ciphers |-> { <<tried[i].min, tried[i].ciphers[1]>> : i \in { k \in DOMAIN tried : done[5 + k].error = "none" } },
            preference |-> DetectedPreference(at, done)]

-------------------------------------------------------------------------------
(* The commands: the next connection of a goroutine, and what it makes of the results *)

\* remote_http.go: a redirect is followed to HTTPS only, and only so many times.
Redirect(done) == IF done = <<>> THEN None ELSE Last(done).location
Follows(done) ==
  /\ done # <<>> /\ Last(done).error = "none" /\ Redirect(done) # None
  /\ Opts.follow /\ Len(done) < Opts.maxRedirects /\ Redirect(done).https

NextAttempt(p) ==
  LET done == results[p]
      at(i) == <<addrs[p][i].id, PortOf(job.targets[p])>>
  IN  CASE job.kind \in {"fetch", "check"} ->
             IF Len(done) < Len(addrs[p]) THEN Plainly(at(Len(done) + 1)) ELSE None
        [] job.kind \in {"verify", "pipe"} -> IF done = <<>> THEN Plainly(at(1)) ELSE None
        [] job.kind = "http" ->
             IF done = <<>> THEN Plainly(at(1)) ELSE IF Follows(done) THEN Plainly(Redirect(done).at) ELSE None
        [] job.kind = "probe" ->
             LET all == ProbeAttempts(at(1), done) IN IF Len(done) < Len(all) THEN all[Len(done) + 1] ELSE None

Succeeded(done) == { i \in DOMAIN done : done[i].error = "none" }
PrimaryIsLast(done) == IF Last(done).error = "none" THEN Last(done) ELSE done[1]
\* The first address that worked; if none did, the first one's error.
Primary(done) ==
  IF Succeeded(done) = {} THEN done[1]
  ELSE done[CHOOSE i \in Succeeded(done) : \A k \in Succeeded(done) : i <= k]
\* compareChains: two successes at least, and each as the first.
AllIdentical(done) ==
  /\ Cardinality(Succeeded(done)) >= 2
  /\ \A i \in Succeeded(done) : done[i].chain = Primary(done).chain

Outcome(p) ==
  CASE job.kind \in {"fetch", "check"} -> [Primary(results[p]) EXCEPT !.location = AllIdentical(results[p])]
    [] job.kind \in {"verify", "pipe"} -> results[p][1]
    [] job.kind = "http" ->
         IF Last(results[p]).error = "none" /\ Redirect(results[p]) # None /\ Opts.follow
         THEN Ended(Last(results[p]).at, "redirect") ELSE Last(results[p])
    [] job.kind = "probe" -> ProbeReport(<<addrs[p][1].id, PortOf(job.targets[p])>>, results[p])

-------------------------------------------------------------------------------
Closed == [open |-> FALSE, limit |-> FALSE, incoming |-> <<>>, stage |-> 1, offered |-> FALSE, trouble |-> "none"]

Init ==
  /\ job \in Jobs
  /\ held = 0 /\ faults = job.faults
  /\ pc = [p \in Processes |-> "queued"]
  /\ addrs = [p \in Processes |-> <<>>]
  /\ attempt = [p \in Processes |-> None]
  /\ conn = [p \in Processes |-> Closed]
  /\ results = [p \in Processes |-> <<>>]
  /\ outcome = [p \in Processes |-> None]

\* A single slot or a single target: the loop goes through the targets in order.
Slots == IF Len(job.targets) = 1 \/ Opts.parallel < 1 THEN 1 ELSE Opts.parallel
TakesTurn(p) == Slots = 1 => \A q \in Processes : q < p => pc[q] = "done"
HasTurn(p) == held < Slots /\ (Slots = 1 => \A q \in Processes : q < p => pc[q] = "done")

Start(p) ==
  /\ pc[p] = "queued" /\ HasTurn(p)
  /\ held' = held + 1 /\ pc' = [pc EXCEPT ![p] = "resolve"]
  /\ UNCHANGED <<job, addrs, attempt, conn, results, outcome, faults>>

Conclude(p, result) ==
  /\ outcome' = [outcome EXCEPT ![p] = result]
  /\ held' = held - 1 /\ pc' = [pc EXCEPT ![p] = "done"]

\* A name that is refused, does not resolve in time, or has no address of the family.
Resolve(p) ==
  /\ pc[p] = "resolve"
  /\ \E found \in job.lookups[job.targets[p].host] :
       LET all == Capped(Resolved(job.targets[p], found))
       IN  IF job.targets[p].form = "invalid" \/ all = <<>>
           THEN Conclude(p, Ended(None, "target")) /\ UNCHANGED addrs
           ELSE addrs' = [addrs EXCEPT ![p] = all] /\ pc' = [pc EXCEPT ![p] = "next"] /\ UNCHANGED <<held, outcome>>
  /\ UNCHANGED <<job, attempt, conn, results, faults>>

Server(at) == job.servers[at]
Listens(at) == at \in DOMAIN job.servers
Target(p) == attempt[p].at

Finish(p) ==
  /\ pc[p] = "next" /\ NextAttempt(p) = None
  /\ Conclude(p, Outcome(p))
  /\ UNCHANGED <<job, addrs, attempt, conn, results, faults>>

\* An attempt is over: the socket is closed on every way out.
EndsWithItOpen(p, result) ==
  /\ results' = [results EXCEPT ![p] = Append(@, result)]
  /\ conn' = [conn EXCEPT ![p].incoming = <<>>]
  /\ pc' = [pc EXCEPT ![p] = "next"]
EndsWith(p, result) ==
  /\ results' = [results EXCEPT ![p] = Append(@, result)]
  /\ conn' = [conn EXCEPT ![p] = Closed]
  /\ pc' = [pc EXCEPT ![p] = "next"]
Fails(p, why) == EndsWith(p, Ended(Target(p), why))

\* What can go wrong with a connection, and where: "error at" or "silence at" the
\* "connect", the "proxy", an answer of the dialogue, the "tls" or the "response".
MayHappen == {"none"} \cup IF faults > 0 THEN Opts.troubles ELSE {}

\* A connection is made at address `at`.  PerformStarttls sets a deadline, the handshake has
\* the context's; swallowed: what the server said first went with a proxy's answer.
Said(at, answer) == IF Server(at).plain THEN <<>> ELSE Server(at).says[answer]
Waiting(p) == Exchanges[Opts.starttls][conn[p].stage].answer
Reached(p, at, trouble, swallowed) ==
  LET first == Exchanges[Opts.starttls][1].answer
      quiet == Opts.starttls = "none" \/ swallowed \/ trouble = "silence at " \o first
  IN  /\ conn' = [conn EXCEPT ![p] =
           [Closed EXCEPT !.open = TRUE, !.limit = TRUE, !.trouble = trouble, !.incoming = IF quiet THEN <<>> ELSE Said(at, first)]]
      /\ pc' = [pc EXCEPT ![p] = IF Opts.starttls = "none" THEN "handshake" ELSE "starttls"]

\* To a proxy the socket has a deadline at once, as every socket of a probe has.
UnboundedToProxy == FALSE
BoundedToProxy == TRUE

Connect(p) ==
  /\ pc[p] = "next" /\ NextAttempt(p) # None
  /\ \E trouble \in MayHappen, a \in {NextAttempt(p)} :
       LET why == CASE trouble = "silence at connect" -> "timeout"
                    [] trouble = "error at connect" -> "refused"
                    [] Opts.proxy = "https" -> "proxy"
                    [] Opts.proxy = "none" /\ ~Listens(a.at) -> "refused"
                    [] OTHER -> "none"
       IN  /\ faults' = IF trouble = "none" THEN faults ELSE faults - 1
           /\ attempt' = [attempt EXCEPT ![p] = a]
           /\ IF why # "none"
              THEN results' = [results EXCEPT ![p] = Append(@, Ended(a.at, why))] /\ UNCHANGED <<pc, conn>>
              ELSE /\ IF Opts.proxy = "none" THEN Reached(p, a.at, trouble, FALSE)
                      ELSE /\ conn' = [conn EXCEPT ![p] = [Closed EXCEPT !.open = TRUE, !.limit = BoundedToProxy, !.trouble = trouble]]
                           /\ pc' = [pc EXCEPT ![p] = "proxy"]
                   /\ UNCHANGED results
  /\ UNCHANGED <<job, held, addrs, outcome>>

\* dialSOCKS5 and dialHTTPConnect lift their deadline when they are done; a far end the
\* proxy cannot reach is its refusal.
ProxyAnswers(p) ==
  /\ pc[p] = "proxy" /\ conn[p].trouble # "silence at proxy"
  /\ IF conn[p].trouble = "error at proxy" \/ ~Listens(Target(p)) THEN Fails(p, "proxy")
     ELSE /\ \E swallowed \in IF Opts.proxy = "http" /\ ServerSpeaksFirst(Opts.starttls) THEN BOOLEAN ELSE {FALSE} :
               Reached(p, Target(p), conn[p].trouble, swallowed)
          /\ UNCHANGED results
  /\ UNCHANGED <<job, held, addrs, attempt, outcome, faults>>

\* One line of the answer that is waited for.
Receive(p) ==
  /\ pc[p] = "starttls" /\ conn[p].incoming # <<>>
  /\ LET c == conn[p]
         line == Head(c.incoming)
         to == IF c.trouble = "error at " \o Waiting(p) THEN "refused"
               ELSE Reading(Opts.starttls, Waiting(p), line, c.offered)
         offered == c.offered \/ (line.tls /\ Waiting(p) # "go")
         next == NextExchange(Opts.starttls, c.stage, offered)
         over == next > Len(Exchanges[Opts.starttls])
         answer == Exchanges[Opts.starttls][next].answer
         said == IF over \/ c.trouble = "silence at " \o answer THEN <<>> ELSE Said(Target(p), answer)
     IN  \/ to = "refused" /\ Fails(p, "STARTTLS")
         \/ /\ to = "more"
            /\ conn' = [conn EXCEPT ![p] = [c EXCEPT !.incoming = Tail(@), !.offered = offered]]
            /\ UNCHANGED <<pc, results>>
         \/ /\ to = "next"
            /\ conn' = [conn EXCEPT ![p] = [c EXCEPT !.incoming = Tail(@) \o said, !.offered = offered, !.stage = next]]
            /\ pc' = [pc EXCEPT ![p] = IF over THEN "handshake" ELSE "starttls"]
            /\ UNCHANGED results
  /\ UNCHANGED <<job, held, addrs, attempt, outcome, faults>>

\* What is still unread of the dialogue is what the handshake then reads.
Handshake(p) ==
  /\ pc[p] = "handshake" /\ conn[p].trouble # "silence at tls"
  /\ LET server == Server(Target(p))
         got == Negotiated(server, attempt[p])
     IN  CASE conn[p].trouble = "error at tls" -> Fails(p, "handshake")
           [] conn[p].incoming # <<>> \/ server.plain -> Fails(p, "not TLS")
           [] OTHER ->
                IF got = None THEN Fails(p, "handshake")
                ELSE IF job.kind \in {"pipe", "http"}
                THEN /\ conn' = [conn EXCEPT ![p].limit = job.kind = "http"]
                     /\ pc' = [pc EXCEPT ![p] = "relay"] /\ UNCHANGED results
                ELSE EndsWith(p, Connected(Target(p), server, got))
  /\ UNCHANGED <<job, held, addrs, attempt, outcome, faults>>

\* runRemotePipe copies until the server ends; an HTTP request is answered.
Relay(p) ==
  /\ pc[p] = "relay" /\ conn[p].trouble # "silence at response"
  /\ LET server == Server(Target(p))
     IN  IF conn[p].trouble = "error at response" /\ job.kind = "http" THEN Fails(p, "response")
         ELSE EndsWith(p, Connected(Target(p), server, Negotiated(server, attempt[p])))
  /\ UNCHANGED <<job, held, addrs, attempt, outcome, faults>>

Silent(p) ==
  \/ pc[p] = "starttls" /\ conn[p].incoming = <<>>
  \/ pc[p] = "proxy" /\ conn[p].trouble = "silence at proxy"
  \/ pc[p] = "handshake" /\ conn[p].trouble = "silence at tls"
  \/ pc[p] = "relay" /\ conn[p].trouble = "silence at response"
Expire(p) ==
  /\ Silent(p) /\ conn[p].limit
  /\ Fails(p, "timeout")
  /\ UNCHANGED <<job, held, addrs, attempt, outcome, faults>>

Step(p) ==
  \/ Start(p) \/ Resolve(p) \/ Connect(p) \/ ProxyAnswers(p)
  \/ Receive(p) \/ Handshake(p) \/ Relay(p) \/ Expire(p) \/ Finish(p)
Next == \E p \in Processes : Step(p)

Spec == Init /\ [][Next]_vars

-------------------------------------------------------------------------------
(* Properties *)

TypeOK ==
  /\ faults \in 0..job.faults
  /\ \A p \in Processes : conn[p].trouble \in Opts.troubles \cup {"none"} /\ (outcome[p] # None <=> pc[p] = "done")

Working == { p \in Processes : pc[p] \notin {"queued", "done"} }

\* No more goroutines than slots are at work, none of them keeps its slot after the end, and
\* each has a socket open exactly while it is connected, whatever goes wrong with it
\* (certops/remote_fetch.go:130-160, certlib/remote.go:540-640).
PoolKept ==
  /\ held = Cardinality(Working) /\ held <= Slots
  /\ \A p \in Processes : conn[p].open <=> pc[p] \in {"proxy", "starttls", "handshake", "relay"}

\* TLS is only asked for where the server offered it, and begins once all that the server
\* said in plaintext is read (starttls.go:46-510).
DialogueOver ==
  \A p \in Processes : pc[p] = "handshake" =>
    /\ conn[p].incoming = <<>>
    /\ Opts.starttls \in {"smtp", "imap", "mysql"} => conn[p].offered

\* What a server that stays as it is would let be done: an address serves if somebody
\* listens there, agrees to TLS in the dialogue and has a version and suite in common.
Serves(at) ==
  /\ Listens(at) /\ ~Server(at).plain
  /\ Opts.starttls # "none" => Server(at).agrees
  /\ Negotiated(Server(at), Plainly(at)) # None
Offers(server, v) == { c \in Range(server.ciphers) : v \in server.versions /\ c \in Range(Suites(v)) }
OffersAll(server) == { pair \in Versions \X Range(AllSuites) : pair[2] \in Offers(server, pair[1]) }

\* What a command says of a target is what its servers do, TLS having begun where the
\* dialogue ended.  A chain comes from the address
\* it is reported for, and from the first that worked; there is none only if no address
\* worked, and, when nothing went wrong on the way, none would have.  A probe reports
\* nothing a server does not do, and if nothing went wrong all that it does and whose
\* preference decides (tlsprobe.go:33-84, :555-594).
OutcomesTrue ==
  /\ TypeOK /\ DialogueOver
  /\ \A p \in { q \in Processes : pc[q] = "done" /\ results[q] # <<>> } :
       LET r == outcome[p]
           quiet == faults = job.faults /\ Opts.proxy # "http"
           server == Server(results[p][1].at)
           offered == OffersAll(server)
       IN  IF job.kind = "probe"
           THEN /\ r.error # "none" /\ quiet => ~Listens(results[p][1].at) \/ server.plain \/ ~server.agrees
                /\ r.error = "none" =>
                     /\ r.versions \subseteq server.versions /\ r.ciphers \subseteq offered
                     /\ r.preference \in {"unknown", server.prefer}
                     /\ quiet /\ (Opts.starttls = "none" \/ server.agrees) =>
                          /\ r.versions = { v \in Versions : Offers(server, v) # {} } /\ r.ciphers = offered
                          /\ r.preference = IF Cardinality(Offers(server, 3)) < 2 THEN "unknown" ELSE server.prefer
           ELSE /\ r.error = "none" =>
                     /\ r.chain = Server(r.at).chain /\ <<r.version, r.cipher>> \in OffersAll(Server(r.at))
                     /\ job.kind \in {"fetch", "check"} =>
                          \E i \in DOMAIN addrs[p] : addrs[p][i].id = r.at[1] /\ \A k \in 1..i - 1 : results[p][k].error # "none"
                /\ r.error \notin {"none", "redirect"} /\ job.kind \in {"fetch", "check"} =>
                     \A i \in DOMAIN addrs[p] : results[p][i].error # "none" /\ (quiet => ~Serves(results[p][i].at))
===============================================================================
