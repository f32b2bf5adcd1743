------------------------------- MODULE MCRemote -------------------------------
(* Model-checking instance of RemoteCheck: several targets and addresses at a time,   *)
(* every protocol and proxy, servers that refuse, and chains put together by hand; and *)
(* of LiveCapture, the other command that waits for the network.                       *)
EXTENDS RemoteCheck, LiveCapture

Line(ok, last, tls) == [ok |-> ok, last |-> last, tls |-> tls]
Yes == Line(TRUE, TRUE, FALSE)
More == Line(TRUE, FALSE, FALSE)
No == Line(FALSE, TRUE, FALSE)
Offer == Line(TRUE, TRUE, TRUE)
Says(greeting, caps, go) == [greeting |-> greeting, caps |-> caps, go |-> go]
Dialogue ==
  [none |-> Says(<<>>, <<>>, <<>>),
   smtp |-> Says(<<More, Yes>>, <<Line(TRUE, FALSE, TRUE), Yes>>, <<Yes>>),
   imap |-> Says(<<Yes>>, <<Line(FALSE, FALSE, TRUE), Yes>>, <<Line(FALSE, FALSE, FALSE), Yes>>),
   pop3 |-> Says(<<Yes>>, <<>>, <<Yes>>),
   ftp |-> Says(<<More, Yes>>, <<>>, <<More, Yes>>),
   ldap |-> Says(<<>>, <<>>, <<Yes>>),
   mysql |-> Says(<<Offer>>, <<>>, <<>>),
   postgres |-> Says(<<>>, <<>>, <<Yes>>)]
Protocols == DOMAIN Dialogue \ {"none"}

(* certificates *)
Base == [id |-> "", subject |-> "", issuer |-> "", key |-> "", signer |-> "", ski |-> "", aki |-> "",
         ca |-> FALSE, from |-> 0, until |-> 9, marks |-> {}, pathLen |-> -1,
         pub |-> [alg |-> "rsa", bits |-> 2048, exponent |-> 65537],
         names |-> {}, commonName |-> {}, permitted |-> {}, excluded |-> {}]
Cert(id, subject, issuer, key, signer) ==
  [Base EXCEPT !.id = id, !.subject = subject, !.issuer = issuer, !.key = key, !.signer = signer]
CA(id, subject, issuer, key, signer) ==
  [Cert(id, subject, issuer, key, signer) EXCEPT !.ca = TRUE, !.marks = {"certsign", "basic constraints"}]
Host == <<"com", "l">>
R == CA("R", "R", "R", "kR", "kR")
Rold == [R EXCEPT !.id = "Rold", !.until = 0]
O == CA("O", "O", "O", "kO", "kO")
RbyO == CA("RbyO", "R", "O", "kR", "kO")
I == CA("I", "I", "R", "kI", "kR")
IbyO == CA("IbyO", "I", "O", "kI", "kO")
Iold == [CA("Iold", "I", "R", "kI", "kR") EXCEPT !.until = 0]
Ifake == CA("Ifake", "I", "R", "kF", "kR")
L == [Cert("L", "L", "I", "kL", "kI") EXCEPT !.names = {[kind |-> "dns", path |-> Host, strict |-> FALSE]}, !.until = 2]
Stapling == [L EXCEPT !.id = "Lstaple", !.marks = {"must staple"}]
Self == [Cert("Self", "S", "S", "kS", "kS") EXCEPT !.names = {[kind |-> "dns", path |-> <<"com", "x">>, strict |-> FALSE]}]

OS(certs, denied) == [type |-> "os", name |-> "OS", certs |-> certs, denied |-> denied, warned |-> FALSE]
CheckOpts == [revocation |-> FALSE, revocationRequire |-> FALSE, warnDays |-> 2, criticalDays |-> 0,
              disabled |-> {}, categories |-> {}, minRank |-> 0]
Quiet == [staple |-> NoAnswer, ocsp |-> <<>>, crls |-> <<>>]
Plain ==
  [now |-> 1, stores |-> <<OS(<<R>>, {})>>, aia |-> {I}, provenance |-> {}, sources |-> Quiet, method |-> "auto",
   opts |-> CheckOpts, host |-> Host, sni |-> Host, weakCiphers |-> {"c1"}, offered |-> {"h2"}, alpn |-> "h2",
   platform |-> "accepts", selection |-> {"os"}, strict |-> FALSE]
Answer(status) == [parses |-> TRUE, serial |-> TRUE, status |-> status, stale |-> FALSE, authorized |-> TRUE]
Worlds ==
  { Plain,
    [Plain EXCEPT !.stores = <<OS(<<O>>, {})>>, !.aia = {I, RbyO}, !.platform = "rejects", !.strict = TRUE],
    [Plain EXCEPT !.stores = <<OS(<<R, O>>, {"R"})>>, !.sni = <<>>, !.sources = [Quiet EXCEPT !.staple = Answer("good")]],
    [Plain EXCEPT !.stores = <<>>, !.opts = [CheckOpts EXCEPT !.revocation = TRUE, !.revocationRequire = TRUE], !.alpn = "none"],
    [Plain EXCEPT !.stores = <<OS(<<Rold, O>>, {})>>, !.aia = {I, RbyO}, !.now = 2,
                  !.opts = [CheckOpts EXCEPT !.revocation = TRUE], !.sources = [Quiet EXCEPT !.ocsp = <<Answer("revoked")>>]] }

(* servers and command lines *)
MCSuites == [v \in 0..4 |-> CASE v = 0 -> <<"s">> [] v = 4 -> <<"x">> [] OTHER -> <<"c1", "c2">>]
Serving(chain) ==
  [plain |-> FALSE, says |-> Dialogue["none"], agrees |-> TRUE, versions |-> {2, 3, 4}, ciphers |-> <<"x", "c2", "c1">>,
   prefer |-> "server", chain |-> chain, location |-> None]
Speaking(proto, chain) == [Serving(chain) EXCEPT !.says = Dialogue[proto]]
Silent1 == {"error at connect", "silence at connect", "silence at tls"}
AllTroubles == Silent1 \cup { kind \o at : kind \in {"error at ", "silence at "}, at \in {"proxy", "greeting", "caps", "go", "tls", "response"} }
Opts0 ==
  [parallel |-> 1, starttls |-> "none", proxy |-> "none", family |-> "any", single |-> FALSE, follow |-> TRUE,
   maxRedirects |-> 2, suites |-> MCSuites, min |-> 3, max |-> 4, troubles |-> {}]
Named(host, form, port) == [form |-> form, host |-> host, port |-> port, ip |-> FALSE]
A(n) == [id |-> n, family |-> "v4"]
B(n) == [id |-> n, family |-> "v6"]
Job(kind, options, targets, lookups, servers, bound) ==
  [kind |-> kind, opts |-> options, targets |-> targets, lookups |-> lookups, servers |-> servers, faults |-> bound, world |-> Plain]
One == <<Named("h", "host:port", 443)>>

\* Three targets, two at a time; one has two addresses of which the first may fail.
Many(kind, parallel) ==
  Job(kind, [Opts0 EXCEPT !.parallel = parallel, !.troubles = {"silence at tls", "error at connect"}],
      <<Named("h", "host", 0), Named("g", "host:port", 8443), Named("bad", "invalid", 0)>>,
      [h |-> { <<A("h1"), B("h2")>>, <<>> }, g |-> { <<A("g1")>> }, bad |-> { <<>> }],
      [at \in {<<"h1", 443>>, <<"h2", 443>>, <<"g1", 8443>>} |->
         IF at[1] = "g1" THEN Serving(<<L, Ifake>>) ELSE Serving(<<L, I>>)], 2)

\* One target behind a proxy or not, reached by a dialogue or not.
Single(kind, proto, proxy, server, bound) ==
  LET port == IF kind = "probe" THEN 443 ELSE DefaultStarttlsPort[proto]
      target == IF kind = "probe" THEN Named("h", "host:port", 443) ELSE Named("h", "host", 0)
      id == IF proxy = "none" THEN "a" ELSE "h"
  IN  Job(kind, [Opts0 EXCEPT !.starttls = proto, !.proxy = proxy, !.troubles = AllTroubles],
          <<target>>, [h |-> {<<A("a")>>}], (<<id, port>> :> server), bound)
Refusing(proto) ==
  [Speaking(proto, <<L, I>>) EXCEPT !.agrees = FALSE,
     !.says = IF proto = "mysql" THEN Says(<<Yes>>, <<>>, <<>>) ELSE [@ EXCEPT !.go = <<No>>]]
Dialogues ==
  UNION { { Single("verify", proto, proxy, server, 1) :
              server \in {Speaking(proto, <<L, I>>), Refusing(proto), [Speaking(proto, <<L, I>>) EXCEPT !.plain = TRUE]} }
          : proto \in Protocols, proxy \in {"none", "socks", "http"} }
ImapOffers == [Speaking("imap", <<L, I>>) EXCEPT !.says.greeting = <<Offer>>]
ImapSilentOffer == [Speaking("imap", <<L, I>>) EXCEPT !.says.caps = <<Yes>>, !.agrees = FALSE]

Probed ==
  { Single("probe", "none", "none", [Serving(<<L>>) EXCEPT !.versions = vs, !.prefer = side, !.ciphers = cs], f) :
      vs \in {{2, 3}, {3, 4}, {1}, {}, {0, 3}}, side \in {"server", "client"},
      cs \in {<<"x", "c2", "c1", "s">>, <<"c1", "x">>}, f \in {0, 1} }
  \cup { [Single("probe", "smtp", "none", Speaking("smtp", <<L>>), 0) EXCEPT !.opts.troubles = {}] }

Redirecting(to) ==
  Job("http", [Opts0 EXCEPT !.troubles = AllTroubles, !.maxRedirects = 2], One, [h |-> {<<A("a")>>}],
      [at \in {<<"a", 443>>, <<"b", 443>>} |->
         [Serving(<<L, I>>) EXCEPT !.location = IF at[1] = "a" THEN [https |-> to # "plain", at |-> <<"b", 443>>]
                                                ELSE IF to = "loop" THEN [https |-> TRUE, at |-> <<"a", 443>>] ELSE None]], 1)

Chains ==
  { <<L, I>>, <<L>>, <<L, I, R>>, <<L, R, I>>, <<L, Ifake>>, <<L, Ifake, I>>, <<L, I, I>>, <<Self>>, <<Self, I>>,
    <<L, Iold>>, <<L, I, RbyO>>, <<L, I, IbyO>>, <<Stapling, I>>, <<R>>, <<I, L>>, <<L, I, O>> }
Judged ==
  { [Job(kind, Opts0, One, [h |-> {<<A("a")>>}], (<<"a", 443>> :> Serving(chain)), 0)
       EXCEPT !.world = [w EXCEPT !.aia = IF chain[1] \in {L, Stapling} THEN @ ELSE {}]] :
      kind \in {"check", "verify"}, chain \in Chains, w \in Worlds }
Fetched ==
  { [Job("fetch", Opts0, One, [h |-> {<<A("a")>>}], (<<"a", 443>> :> Serving(chain)), 0)
       EXCEPT !.world = [Plain EXCEPT !.provenance = {[cert |-> I, from |-> L], [cert |-> R, from |-> I], [cert |-> O, from |-> RbyO]}]] :
      chain \in {<<L>>, <<L, I>>} }

MCSchedule == << [from |-> 0, days |-> 8] >>
MCJobs ==
  { Many(kind, n) : kind \in {"fetch", "check"}, n \in {1, 2} }
  \cup Dialogues \cup Probed \cup Judged \cup Fetched
  \cup { Single("verify", "imap", "none", s, 1) : s \in {ImapOffers, ImapSilentOffer} }
  \cup { Single("verify", "none", "https", Serving(<<L>>), 0), Single("pipe", "smtp", "socks", Speaking("smtp", <<L>>), 1) }
  \cup { Single(kind, "none", "none", [Serving(<<L>>) EXCEPT !.plain = TRUE], 1) : kind \in {"fetch", "probe"} }
  \cup { [Single("probe", "none", "none", Serving(<<L>>), 0) EXCEPT !.servers = [at \in {} |-> None]] }
  \cup { Redirecting(to) : to \in {"plain", "once", "loop"} }

MCCaptures == [count : {0, 2}, timed : BOOLEAN]

\* One command runs; the other has nothing to do.
NoRemote ==
  /\ job = Job("none", Opts0, <<>>, [h \in {} |-> {}], [at \in {} |-> None], 0)
  /\ held = 0 /\ faults = 0 /\ exit = 0
  /\ pc = <<>> /\ addrs = <<>> /\ attempt = <<>> /\ conn = <<>> /\ results = <<>> /\ outcome = <<>> /\ reports = <<>>
NoCapture ==
  /\ capture = [count |-> 0, timed |-> FALSE]
  /\ main = "exited" /\ watcher = "gone" /\ signaller = "gone" /\ timer = "off"
  /\ channels = {} /\ once = "over" /\ closes = 1 /\ packets = 0 /\ interrupts = 0
MCInit == (RCInit /\ NoCapture) \/ (NoRemote /\ LCInit)
MCNext == (RCNext /\ UNCHANGED lcvars) \/ (LCNext /\ UNCHANGED rcvars)
MCSpec == MCInit /\ [][MCNext]_<<rcvars, lcvars>> /\ RCFair /\ LCFair

\* Each comes to an end.
CommandsEnd == EveryCommandEnds /\ CaptureEnds
===============================================================================
