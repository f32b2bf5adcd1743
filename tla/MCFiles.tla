-------------------------------- MODULE MCFiles -------------------------------
(* Model-checking instance of FileWrites: the commands of ConfigFile and of     *)
(* Operations on one small disk, alone and two at a time.                       *)
EXTENDS FileWrites, ConfigFile, Operations

-------------------------------------------------------------------------------
(* The certificates: a root, a constrained intermediate, and three leaves *)

Cert(id, subject, issuer, key, signer) ==
  [id |-> id, subject |-> subject, issuer |-> issuer, key |-> key, signer |-> signer, ski |-> key,
   aki |-> IF subject = issuer THEN "" ELSE signer, ca |-> FALSE, from |-> 0, until |-> 3, marks |-> {"usage"},
   names |-> {subject}, permits |-> None]
CA(cert) == [cert EXCEPT !.ca = TRUE, !.marks = {"usage", "certsign"}, !.names = {}]
R == CA(Cert("R", "root", "root", "kR", "kR"))
I == [CA(Cert("I", "inter", "root", "kI", "kR")) EXCEPT !.permits = {"a", "b", "c"}]
A == Cert("A", "a", "inter", "kA", "kI")
B == Cert("B", "b", "inter", "kB", "kI")
S == Cert("S", "s", "s", "kS", "kS")

Pem(items) == Whole(Container("pem", None, items))
Chain(cert) == [i \in DOMAIN cert |-> CertEntry(cert[i])]
Named(e, alias) == [e EXCEPT !.alias = <<"alias", alias, 1>>]
KeyStoreEntry(key, lock, chain, alias) == Named([KeyEntry(key) EXCEPT !.lock = lock, !.chain = chain], alias)

Request == [subject |-> "c", names |-> {}]
Locked(key) == [KeyEntry(key) EXCEPT !.lock = "p"]

MCPreferred == "preferred"
MCLegacy == "legacy"
MCBackupOf == [q \in {"preferred", "legacy"} |-> q \o ".bak"]
MCPathOrder == << "b.pem", "a.pem", "ca.key", "ca.pem", "both.pem", "c.csr", "self.pem", "store.jks", "store.p12",
                  "out", "out.key", "more" >>
MCDirOf == [q \in Range(MCPathOrder) |-> IF q \in {"both.pem", "store.jks", "store.p12"} THEN "stores" ELSE "cwd"]
MCRenewed == [q \in Range(MCPathOrder) |-> "out"]
MCDerivedKey == [q \in Range(MCPathOrder) |-> IF q = "more" THEN "ca.key" ELSE "out.key"]
MCOutputs == Range(MCPathOrder)

NoConfig == [q \in ConfigPaths |-> Absent]
Store == Container("jks", "p",
  << KeyStoreEntry("kA", "p", <<A, I>>, "a"), KeyStoreEntry("kB", "q", <<B, I, R>>, "b"), Named(CertEntry(R), "r") >>)
Files0 ==
  [q \in Range(MCPathOrder) |->
     CASE q = "a.pem" -> Pem(Chain(<<A>>))
       [] q = "b.pem" -> Pem(Chain(<<B>>) \o <<KeyEntry("kB"), KeyEntry("kA")>>)
       [] q = "ca.key" -> Pem(<<Locked("kI")>>)
       [] q = "ca.pem" -> Pem(Chain(<<I, R>>))
       [] q = "both.pem" -> Pem(<<Locked("kA")>> \o Chain(<<R, A, I>>))
       [] q = "c.csr" -> Pem(<<Entry("csr", Request, "kC")>>)
       [] q = "self.pem" -> Pem(Chain(<<S>>) \o <<KeyEntry("kS")>>)
       [] q = "store.jks" -> Whole(Store)
       [] q = "store.p12" -> Whole(Container("p12", "p", Chain(<<A, I>>) \o <<KeyEntry("kA")>>))
       [] OTHER -> Absent]
Disk0 == [q \in Range(MCPathOrder) \cup ConfigPaths |-> IF q \in ConfigPaths THEN Absent ELSE Files0[q]]

-------------------------------------------------------------------------------
(* The commands *)

Cmd == [op |-> "", input |-> None, inputs |-> <<>>, out |-> "out", keyOut |-> None, fmt |-> "pem", overwrite |-> FALSE, dryRun |-> FALSE,
        withKey |-> FALSE, freshKey |-> "k1", keyFile |-> None, encrypt |-> None, pws |-> {"p", "q"},
        id |-> "1", subject |-> "c", names |-> {}, ca |-> FALSE, permits |-> None, until |-> 5,
        signCert |-> None, signKey |-> None, autosign |-> FALSE, include |-> "all", index |-> 0, alias |-> None,
        naming |-> <<"out", "more", "out.key">> \o [i \in 1..9 |-> "more"], newPassword |-> "n", storePassword |-> None,
        autoChain |-> FALSE, includeRoot |-> FALSE, autoDir |-> None, certs |-> <<A, I>>, parts |-> {"chain"}]
Do(op) == [Cmd EXCEPT !.op = op]
On(op, input) == [Do(op) EXCEPT !.input = input]
To(op, input, fmt) == [On(op, input) EXCEPT !.fmt = fmt]
ByCA(cmd) == [cmd EXCEPT !.signCert = "ca.pem", !.signKey = "ca.key"]

Making ==
  { [Do("key") EXCEPT !.encrypt = "n"], [Do("key") EXCEPT !.encrypt = "n", !.fmt = "der"],
    [Do("csr") EXCEPT !.withKey = TRUE], [Do("csr") EXCEPT !.keyFile = "b.pem", !.out = "more"],
    [Do("create") EXCEPT !.withKey = TRUE], ByCA([Do("create") EXCEPT !.withKey = TRUE, !.encrypt = "n"]),
    ByCA([Do("create") EXCEPT !.withKey = TRUE, !.subject = "z"]), [Do("create") EXCEPT !.withKey = TRUE, !.out = "more"],
    [Do("create") EXCEPT !.keyFile = "b.pem", !.autosign = TRUE, !.fmt = "der", !.ca = TRUE, !.permits = {"c"}],
    [Do("create") EXCEPT !.keyFile = "b.pem", !.signCert = "a.pem", !.signKey = "ca.key"],
    ByCA(On("sign", "c.csr")), [On("sign", "c.csr") EXCEPT !.autosign = TRUE], On("sign", "c.csr"),
    [Do("create") EXCEPT !.withKey = TRUE, !.dryRun = TRUE],
    [On("renew", "a.pem") EXCEPT !.autosign = TRUE, !.out = None], ByCA([On("renew", "a.pem") EXCEPT !.withKey = TRUE]),
    [On("renew", "self.pem") EXCEPT !.keyOut = "more"], On("renew", "a.pem"),
    [On("renew", "store.jks") EXCEPT !.autosign = TRUE] }
Rewriting ==
  { To("convert", "store.jks", "pem"), To("convert", "store.jks", "p7b"), To("convert", "both.pem", "jks"),
    To("convert", "store.p12", "jks"), To("convert", "both.pem", "p12"), To("convert", "store.jks", "p12"),
    [To("convert", "store.jks", "pem") EXCEPT !.pws = {"p"}], [To("convert", "b.pem", "der") EXCEPT !.include = "certs"],
    [To("convert", "b.pem", "pem") EXCEPT !.include = "keys"], [To("convert", "store.jks", "jks") EXCEPT !.alias = <<"alias", "x", 1>>],
    [On("reencrypt", "store.jks") EXCEPT !.out = None], [On("reencrypt", "store.jks") EXCEPT !.out = None, !.pws = {"p"}],
    [On("reencrypt", "store.jks") EXCEPT !.alias = <<"alias", "b", 1>>], [On("reencrypt", "store.p12") EXCEPT !.newPassword = None],
    [On("reencrypt", "both.pem") EXCEPT !.out = None], On("reencrypt", "a.pem"),
    [To("extract", "store.p12", "pem") EXCEPT !.out = None], [To("extract", "store.jks", "p12") EXCEPT !.out = None],
    [To("extract", "store.jks", "pem") EXCEPT !.include = "keys", !.index = 2],
    [To("extract", "store.p12", "pem") EXCEPT !.out = None, !.overwrite = TRUE, !.naming = <<"out", "out", "out">>],
    [To("bundle", None, "p12") EXCEPT !.inputs = <<"a.pem", "ca.pem", "both.pem">>],
    [To("bundle", None, "jks") EXCEPT !.inputs = <<"b.pem", "both.pem", "ca.pem">>, !.autoChain = TRUE],
    [To("bundle", None, "pem") EXCEPT !.inputs = <<"store.jks", "c.csr">>, !.includeRoot = TRUE],
    [To("bundle", None, "jks") EXCEPT !.inputs = <<"self.pem">>],
    [To("bundle", None, "pem") EXCEPT !.inputs = <<>>, !.autoDir = "cwd"],
    [To("bundle", None, "pem") EXCEPT !.inputs = <<>>, !.autoDir = "stores", !.pws = {}, !.includeRoot = TRUE],
    [Do("export") EXCEPT !.fmt = "p7b"], [Do("export") EXCEPT !.out = "a.pem"],
    [Do("save-remote") EXCEPT !.parts = {"chain", "leaf", "all"}, !.keyOut = "more", !.overwrite = TRUE],
    [Do("save-remote") EXCEPT !.fmt = "der", !.parts = {"leaf", "all"}, !.keyOut = "out", !.naming = <<"more", "out.key">>] }

Save(given) == [op |-> "save", given |-> given, opts |-> "saved"]
ChangeKey(old, new) == [op |-> "change-key", given |-> None, old |-> old, new |-> new]
Migrate == [op |-> "migrate", dryRun |-> FALSE]
InitConfig(force) == [op |-> "init", given |-> None, force |-> force]

MCTurn(cmd, turn, mem, files) ==
  IF cmd.op \in ConfigOps THEN ConfigTurn(cmd, turn, mem, files) ELSE OperationTurn(cmd, turn, mem, files)

-------------------------------------------------------------------------------
(* The scenarios *)

Alone(cmd) == [disk |-> Disk0, cmds |-> <<cmd, None, None>>, oneByOne |-> {}]
Race(c, d) == [disk |-> Disk0, cmds |-> <<c, d, None>>, oneByOne |-> {}]
Over(cmd) == [cmd EXCEPT !.overwrite = TRUE]
Races ==
  { Race(Over([Do("create") EXCEPT !.withKey = TRUE]), Over([Do("create") EXCEPT !.withKey = TRUE, !.freshKey = "k2", !.id = "2"])),
    Race([Do("csr") EXCEPT !.withKey = TRUE], Do("key")),
    Race(Over(To("convert", "both.pem", "p12")), [On("reencrypt", "both.pem") EXCEPT !.out = None]),
    Race(Over([To("extract", "store.p12", "pem") EXCEPT !.out = None]), Over([To("bundle", None, "pem") EXCEPT !.inputs = <<"out", "a.pem">>])) }

Secrets == Config({"one", "two"}, "k1", "mine")
At(path, config) == [Disk0 EXCEPT ![path] = Whole(config)]
Configs(files, cmds, apart) == [disk |-> files, cmds |-> cmds, oneByOne |-> apart]
ConfigScenarios ==
  { Configs(At(path, Secrets), <<c, d, None>>, {1, 2}) :
      path \in {"preferred", "legacy"}, c \in {ChangeKey("k1", "k2"), Migrate},
      d \in {ChangeKey("k2", "k1"), ChangeKey("k1", "k3"), Migrate, InitConfig(FALSE)} }
  \cup { Configs(At(path, Secrets), <<c, Save(None), d>>, {1, 3}) :
           path \in {"preferred", "legacy"}, c \in {ChangeKey("k1", "k2"), Migrate}, d \in {InitConfig(FALSE), None} }
  \cup { Configs(At("legacy", Config({}, "none", "mine")), <<Migrate, Migrate, None>>, {}),
         Configs(Disk0, <<InitConfig(TRUE), ChangeKey("k1", "k2"), Save(None)>>, {1, 2}) }

MCScenarios == { Alone(cmd) : cmd \in Making \cup Rewriting } \cup Races \cup ConfigScenarios
ASSUME InstanceFits == ScenariosFit

-------------------------------------------------------------------------------
(* Properties *)

Doer(p, ops) == scenario.cmds[p] # None /\ scenario.cmds[p].op \in ops /\ \A q \in Procs \ {p} : scenario.cmds[q] = None
Succeeded(p, ops) == Doer(p, ops) /\ proc[p].pc = "done" /\ proc[p].mem = "complete"
Given(path, cmd) == ReadFile(scenario.disk, path, cmd.pws).items

\* A failed write takes its temporary file with it, only a crash leaves one, and no command
\* writes a result in place (certlib/writer.go:558-592).
WritesTidy == NoStrayTemp /\ PlansKeep

\* A certificate that create-cert, sign or renew left on the disk is one that can be used:
\* it carries the key of the key file written with it, of the request, or of the certificate
\* it renews, and it was signed by its own key or by a certificate on the disk that may sign
\* it, whose name constraints create-cert and sign keep (certops/certcreate.go:119-143,
\* sign.go:63-106, renew.go:97-157).
IssuedSound ==
  \A p \in Procs :
    LET cmd == scenario.cmds[p]
        cert == LoadCertificate(disk, "out", {})
        onDisk == { it.cert : it \in { x \in UNION { Range(Given(q, cmd)) : q \in DOMAIN Files0 } : HasCert(x) } }
    IN  Succeeded(p, {"create", "sign", "renew"}) /\ cmd.out # "more" =>
          /\ CASE cmd.withKey -> LoadPrivateKey(disk, "out.key", {"n"}) = cert.key
               [] cmd.op = "sign" -> cert.key = LoadCSR(disk, cmd.input).key
               [] cmd.op = "renew" -> cert.key = FirstCert(Given(cmd.input, cmd)).key
               [] OTHER -> cert.key = LoadPrivateKey(disk, cmd.keyFile, cmd.pws)
          /\ \/ cert.signer = cert.key /\ IsSelfSigned(cert)
             \/ \E ca \in onDisk :
                  MatchesIssuer(cert, ca) /\ (cmd.op # "renew" => WithinConstraints(ca, cert.subject, cert.names))

\* convert, reencrypt and bundle lose no key and no certificate of what they were given and
\* could open, except for the keys a PKCS#7 file cannot hold, the roots a bundle leaves out
\* and the item an option chooses; each key comes with the chain it had
\* (certlib/writer.go:32-58, 324-498, certops/convert.go:61-89).
NothingLost ==
  \A p \in Procs :
    LET cmd == scenario.cmds[p]
        inputs == IF cmd.op = "bundle" THEN Range(cmd.inputs) ELSE {cmd.input}
        before == UNION { Range(Given(q, cmd)) : q \in inputs }
        out == IF cmd.out = None THEN cmd.input ELSE cmd.out
        after == Range(ReadFile(disk, out, {"p", "q", "n"}).items)
        certs(items) == { it.cert : it \in { x \in items : HasCert(x) } } \cup UNION { Range(it.chain) : it \in items }
        keys(items) == { it.key : it \in { x \in items : x.type = "key" } }
    IN  Succeeded(p, {"convert", "reencrypt", "bundle"}) /\ cmd.autoDir = None =>
          /\ cmd.include # "certs" /\ cmd.fmt # "p7b" => keys(before) \subseteq keys(after)
          /\ cmd.include = "all" =>
               \A c \in certs(before) : c \in certs(after) \/ (cmd.op = "bundle" /\ ~cmd.includeRoot /\ c.subject = c.issuer)
          /\ \A it \in before : it.type = "key" /\ cmd.fmt = "jks" =>
               \E e \in after : e.key = it.key /\ Range(it.chain) \subseteq Range(e.chain)

\* What an operation that succeeded left on the disk is sound, whoever wrote beside it.
OutputsSound == IssuedSound /\ NothingLost
===============================================================================
