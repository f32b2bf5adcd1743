------------------------------ MODULE MCAnalysis ------------------------------
(* Model-checking instance of Analysis: a root, an older root that cross-signed it, *)
(* intermediates of the same name, leaves, and machines that hold and deny them.    *)
EXTENDS Analysis

Base == [id |-> "", subject |-> "", issuer |-> "", key |-> "", signer |-> "", ski |-> "", aki |-> "",
         ca |-> FALSE, from |-> 0, until |-> 9, marks |-> {}, pathLen |-> -1,
         pub |-> [alg |-> "rsa", bits |-> 2048, exponent |-> 65537],
         names |-> {}, commonName |-> {}, permitted |-> {}, excluded |-> {}]
Cert(id, subject, issuer, key, signer) ==
  [Base EXCEPT !.id = id, !.subject = subject, !.issuer = issuer, !.key = key, !.signer = signer]
CA(id, subject, issuer, key, signer) ==
  [Cert(id, subject, issuer, key, signer) EXCEPT !.ca = TRUE, !.marks = {"certsign", "basic constraints"}]

Dns(path) == [kind |-> "dns", path |-> path, strict |-> FALSE]
R == [CA("R", "R", "R", "kR", "kR") EXCEPT !.pathLen = 1]
O == CA("O", "O", "O", "kO", "kO")
RbyO == [CA("RbyO", "R", "O", "kR", "kO") EXCEPT !.permitted = {Dns(<<"org">>)}]
ObyR == CA("ObyR", "O", "R", "kO", "kR")
I == [CA("I", "I", "R", "kI", "kR") EXCEPT !.ski = "i", !.excluded = {Dns(<<"com">>)}]
Iold == [CA("Iold", "I", "R", "kI", "kR") EXCEPT !.until = 1]
Ifake == CA("Ifake", "I", "R", "kF", "kF")
L == [Cert("L", "L", "I", "kL", "kI") EXCEPT !.until = 3, !.aki = "i", !.names = {Dns(<<"com", "l">>)},
                                             !.pub = [alg |-> "rsa", bits |-> 1024, exponent |-> 3]]
LR == [Cert("LR", "LR", "R", "kL", "kR") EXCEPT !.from = 1, !.marks = {"wildcard", "precertificate"},
                                                !.pub = [alg |-> "ec", bits |-> 224]]
Lmd5 == [Cert("Lmd5", "Lm", "I", "kM", "kI") EXCEPT !.marks = {"md5", "bad serial", "old version"}]
Self == [Cert("Self", "S", "S", "kS", "kS") EXCEPT !.marks = {"certsign"}, !.pub = [alg |-> "dsa", bits |-> 1024]]
All == {R, O, RbyO, ObyR, I, Iold, Ifake, L, LR, Lmd5, Self}

Box(items) == [source |-> "file", format |-> "PEM", relationsOnly |-> FALSE, password |-> "none", items |-> items]
Certs(certs) == Box([i \in DOMAIN certs |-> CertItem(certs[i])])
Key(key) == [type |-> "key", cert |-> NoCert, key |-> key, pub |-> [alg |-> "rsa", bits |-> 512, exponent |-> 65537],
             encrypted |-> FALSE, password |-> "empty"]
Request(key) == [Key(key) EXCEPT !.type = "csr", !.password = "none"]

Answer(status, stale, authorized) ==
  [parses |-> TRUE, serial |-> TRUE, status |-> status, stale |-> stale, authorized |-> authorized]
CRL(listed, partial) ==
  [parses |-> TRUE, signer |-> "kI", issuer |-> "I", listed |-> listed, partial |-> partial, stale |-> FALSE]
Quiet == [staple |-> NoAnswer, ocsp |-> <<>>, crls |-> <<>>]
SourcesOf(id) ==
  CASE id = "L" -> [Quiet EXCEPT !.ocsp = <<NoAnswer, Answer("good", TRUE, TRUE)>>, !.crls = <<CRL(TRUE, TRUE)>>]
    [] id = "I" -> [Quiet EXCEPT !.ocsp = <<Answer("good", FALSE, FALSE)>>]
    [] OTHER -> Quiet
Input(boxes, published) == [store |-> boxes, published |-> published, sources |-> [id \in {c.id : c \in All} |-> SourcesOf(id)]]

MCInputs ==
  { Input(<<Certs(<<L>>)>>, {I, Iold}),
    Input(<<Certs(<<I, L>>), Box(<<CertItem(L), Key("kL")>>), Box(<<Request("kL"), CertItem(I)>>)>>, {}),
    Input(<<Certs(<<L>>), Certs(<<Iold, Ifake>>), Certs(<<RbyO>>)>>, {O}),
    Input(<<Certs(<<L>>), Certs(<<I, I>>), Certs(<<R, RbyO>>)>>, {}),
    Input(<<Certs(<<LR>>), Certs(<<RbyO, ObyR>>), Box(<<Key("kR")>>)>>, {R}),
    Input(<<Box(<<CertItem(Self), Key("kL")>>), Certs(<<Lmd5, I>>)>>, {}) }

Store(type, name, certs, denied) == [type |-> type, name |-> name, certs |-> certs, denied |-> denied, warned |-> FALSE]
OS(certs, denied) == Store("os", "OS", certs, denied)
MCMachine ==
  [kind \in Range(Kinds) \cup {"file"} |->
     CASE kind = "os" -> { <<OS(<<>>, {})>>, <<OS(<<R>>, {})>>, <<OS(<<O, R>>, {"R"})>>, <<OS(<<I, R>>, {"I"})>>,
                           <<OS(<<R>>, {"R"}), OS(<<R, O>>, {})>>, <<OS(<<O>>, {})>> }
       [] kind = "java" -> { << >> }
       [] kind = "openssl" -> { << >> }
       [] kind = "nss" -> { <<Store("nss", "FF", <<R, RbyO>>, {}), Store("nss", "FF", <<ObyR, R>>, {})>> }
       [] kind = "bundle" -> { <<Store("bundle", "MOZ", <<R, O>>, {})>> }
       [] OTHER -> { <<Store("file", "F:x", <<>>, {})>> }]

Plainly == [trust |-> TRUE, aia |-> TRUE, revocation |-> FALSE, revocationRequire |-> FALSE, assemble |-> TRUE,
            cancellable |-> FALSE, skip |-> {"java", "openssl", "nss", "bundle"}, files |-> 0, warnDays |-> 2,
            criticalDays |-> 1, disabled |-> {}, categories |-> {}, minRank |-> 0, today |-> 1, lastDay |-> 2]
MCOptions ==
  { Plainly,
    [Plainly EXCEPT !.today = 3, !.lastDay = 4, !.aia = FALSE, !.minRank = 1],
    [Plainly EXCEPT !.trust = FALSE, !.revocation = TRUE, !.minRank = 2, !.disabled = {"wildcard"}],
    [Plainly EXCEPT !.aia = FALSE, !.skip = {"java", "openssl"}, !.cancellable = TRUE, !.files = 1, !.lastDay = 1,
                    !.categories = {"chain", "trust"}, !.revocation = TRUE, !.revocationRequire = TRUE] }
MCSchedule == << [from |-> 0, days |-> 8], [from |-> 1, days |-> 5] >>
===============================================================================
