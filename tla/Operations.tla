------------------------------ MODULE Operations ------------------------------
(***************************************************************************)
(* internal/certops and the commands of cmd/ that call it: making keys,    *)
(* requests and certificates, renewing and signing, and rewriting files in *)
(* another format, under another password or together.  Each operation     *)
(* reads the disk and answers with the files it will write.  A file is     *)
(* [fmt, lock, items]; an item is [type, cert, key, lock, alias, chain].   *)
(* An encoder answers with the set of the files it can make: none is an    *)
(* error.  The entries of a keystore come in the order of items; the       *)
(* library gives them in any.                                              *)
(***************************************************************************)
EXTENDS Files, Certificates

CONSTANTS
  NoKey,       \* the key of an item whose key stayed locked
  Empty,       \* the empty password
  PathOrder,   \* the paths of certificates and keys, in the order of a scan
  DirOf, Cwd,  \* path -> its directory
  Renewed,     \* path -> where its renewed certificate goes by default
  DerivedKey   \* path -> the same with .key

Entry(type, cert, key) == [type |-> type, cert |-> cert, key |-> key, lock |-> None, alias |-> None, chain |-> <<>>]
CertEntry(cert) == Entry("cert", cert, IF cert = NoCert THEN NoKey ELSE cert.key)
KeyEntry(key) == Entry("key", NoCert, key)
Container(fmt, lock, items) == [fmt |-> fmt, lock |-> lock, items |-> items]

OfType(items, types) == SelectSeq(items, LAMBDA it : it.type \in types)
Certs(items) == OfType(items, {"cert"})
Keys(items) == OfType(items, {"key"})
LockedKeys(items) == SelectSeq(Keys(items), LAMBDA it : it.key = NoKey)
HasCert(it) == it.type = "cert" /\ it.cert # NoCert
IsRoot(it) == HasCert(it) /\ it.cert.subject = it.cert.issuer
KeyMatchesCert(key, cert) == key = cert.key

-------------------------------------------------------------------------------
(* Reading *)

Opens(lock, pws) == lock \in pws \cup {None, Empty}

ReadPEMItem(it, pws) == IF Opens(it.lock, pws) THEN [it EXCEPT !.lock = None] ELSE KeyEntry(NoKey)

\* A key entry is read as its certificate and its key, which keeps the rest of its chain.
ReadStoreEntry(it, pws) ==
  CASE it.type = "cert" -> <<it>>
    [] it.type = "key" /\ Opens(it.lock, pws) ->
         [i \in 1..Min({1, Len(it.chain)}) |-> [CertEntry(it.chain[i]) EXCEPT !.alias = it.alias]]
           \o <<[it EXCEPT !.chain = SubSeq(it.chain, 2, Len(it.chain))]>>
    [] OTHER -> << [CertEntry(NoCert) EXCEPT !.alias = it.alias], [KeyEntry(NoKey) EXCEPT !.alias = it.alias] >>

\* A store that no password opens is read as an empty one.
ReadFile(disk, path, pws) ==
  LET file == disk[path].data
      all == pws \cup {file.lock}
  IN  CASE disk[path] \in {Absent, Torn} -> Container("none", None, <<>>)
        [] file.fmt = "jks" /\ Opens(file.lock, pws) ->
             [file EXCEPT !.items = FlattenSeq([i \in DOMAIN file.items |-> ReadStoreEntry(file.items[i], all)])]
        [] file.fmt = "p12" /\ Opens(file.lock, pws) -> file
        [] file.fmt \in {"pem", "der", "p7b"} ->
             [file EXCEPT !.items = [i \in DOMAIN file.items |-> ReadPEMItem(file.items[i], pws)]]
        [] OTHER -> [file EXCEPT !.items = <<>>]

FirstOf(items, Test(_), none) == LET all == SelectSeq(items, Test) IN IF all = <<>> THEN none ELSE all[1]
FirstKey(items) == FirstOf(items, LAMBDA it : it.type = "key" /\ it.key # NoKey, KeyEntry(NoKey)).key
FirstCert(items) == FirstOf(items, HasCert, CertEntry(NoCert)).cert
LoadPrivateKey(disk, path, pws) == FirstKey(ReadFile(disk, path, pws).items)
LoadCertificate(disk, path, pws) == FirstCert(ReadFile(disk, path, pws).items)
LoadCSR(disk, path) == FirstOf(ReadFile(disk, path, {}).items, LAMBDA it : it.type = "csr", Entry("none", NoCert, NoKey))

ScanOf(disk, paths, pws) ==
  LET read == [i \in DOMAIN paths |-> [source |-> "file", items |-> ReadFile(disk, paths[i], pws).items]]
  IN  SelectSeq(read, LAMBDA c : c.items # <<>>)
ScanDir(disk, dir, pws) == ScanOf(disk, SelectSeq(PathOrder, LAMBDA q : DirOf[q] = dir /\ disk[q] # Absent), pws)

\* The key_cert relations with both ends, key after key.
KeyCertPairs(store) ==
  SelectSeq(FlattenSeq([k \in DOMAIN RefsOf(store, "key") |->
              [c \in DOMAIN CertRefs(store) |->
                 [key |-> Item(store, RefsOf(store, "key")[k]).key, cert |-> CertAt(store, CertRefs(store)[c])]]]),
            LAMBDA pair : pair.key # NoKey /\ pair.cert # NoCert /\ KeyMatchesCert(pair.key, pair.cert))

-------------------------------------------------------------------------------
(* writer.go *)

\* A key's chain is written as certificates of their own, once each.
ItemsAlone(items) == items
ExpandKeyChains(items) ==
  LET seen(n) == { c.id : c \in { it.cert : it \in { x \in Range(items) : HasCert(x) } } }
                 \cup UNION { { c.id : c \in Range(items[i].chain) } : i \in 1..n - 1 }
      fresh(n) == SelectSeq(items[n].chain, LAMBDA c : c.id \notin seen(n))
  IN  FlattenSeq([n \in DOMAIN items |->
        <<items[n]>> \o (IF items[n].type = "key" THEN [i \in DOMAIN fresh(n) |-> CertEntry(fresh(n)[i])] ELSE <<>>)])

Plain(it) == [it EXCEPT !.alias = None, !.chain = <<>>, !.lock = None]
Hollow(it) == (it.type = "cert" /\ it.cert = NoCert) \/ (it.type = "key" /\ it.key = NoKey)

WritePEM(items) ==
  LET all == ExpandKeyChains(items)
  IN  IF \E it \in Range(all) : Hollow(it) THEN {}
      ELSE { Container("pem", None, [i \in DOMAIN all |-> Plain(all[i])]) }

WriteDER(items) == IF items = <<>> \/ Hollow(items[1]) THEN {} ELSE { Container("der", None, <<Plain(items[1])>>) }

\* One key, and with it the certificate it belongs to or else the first; requests and
\* public keys are left out.
WritePKCS12(items, password) ==
  LET all == ExpandKeyChains(items)
      certs == [i \in DOMAIN Certs(all) |-> Plain(Certs(all)[i])]
      keys == Keys(all)
      key == FirstKey(all)
      own == { i \in DOMAIN certs : KeyMatchesCert(key, certs[i].cert) }
      leaf == IF own = {} THEN 1 ELSE Min(own)
  IN  IF certs = <<>> \/ (\E i \in DOMAIN keys : i < Len(keys) /\ keys[i].key # NoKey)
         \/ (\E i \in DOMAIN certs : certs[i].cert = NoCert) THEN {}
      ELSE IF key = NoKey THEN { Container("p12", password, certs) }
      ELSE { Container("p12", password, <<certs[leaf]>> \o RemoveAt(certs, leaf) \o <<KeyEntry(key)>>) }

WritePKCS7(items) ==
  LET certs == SelectSeq(ExpandKeyChains(items), HasCert)
  IN  IF certs = <<>> THEN {} ELSE { Container("p7b", None, [i \in DOMAIN certs |-> Plain(certs[i])]) }

\* The chain a key entry gets from the certificates that no chain has yet.
RECURSIVE ClimbItems(_, _, _)
ClimbItems(items, chain, taken) ==
  LET next == { j \in DOMAIN items \ taken :
                  /\ HasCert(items[j]) /\ items[Last(chain)].cert.issuer = items[j].cert.subject
                  /\ CheckSignatureFrom(items[Last(chain)].cert, items[j].cert) }
  IN  IF next = {} THEN chain ELSE ClimbItems(items, Append(chain, Min(next)), taken \cup {Min(next)})

LeavesOf(items, i) == { j \in DOMAIN items : HasCert(items[j]) /\ KeyMatchesCert(items[i].key, items[j].cert) }

KeyChains(items) ==
  LET add(chains, i) ==
        IF items[i].type # "key" \/ items[i].key = NoKey \/ LeavesOf(items, i) = {} THEN chains
        ELSE LET leaf == Min(LeavesOf(items, i))
                 taken == UNION { Range(chains[k]) : k \in DOMAIN chains }
             IN  [chains EXCEPT ![i] = ClimbItems(items, <<leaf>>, taken \cup {leaf})]
  IN  FoldLeft(add, [i \in DOMAIN items |-> <<>>], [i \in DOMAIN items |-> i])

\* A second entry under an alias takes the place of the first.
LastOfAlias(entries) ==
  LET last == SelectSeq([i \in DOMAIN entries |-> i],
                LAMBDA i : \A j \in i + 1..Len(entries) : entries[j].alias # entries[i].alias)
  IN  [n \in DOMAIN last |-> entries[last[n]]]

\* aliases: item number -> the alias the caller chose, or None.
WriteJKS(items, password, aliases) ==
  LET chains == KeyChains(items)
      inChain == UNION { Range(chains[i]) : i \in DOMAIN items }
      leaves == { chains[i][1] : i \in { k \in DOMAIN items : chains[k] # <<>> } }
      named(i) == IF aliases[i] # None THEN aliases[i] ELSE items[i].alias
      aliasAt(i) == IF named(i) # None THEN named(i)
                    ELSE <<"entry", ToString(Cardinality({ j \in 1..i : named(j) = None })), 1>>
      climbed(i) == [k \in DOMAIN chains[i] |-> items[chains[i][k]].cert]
      keyEntry(i) ==
        [items[i] EXCEPT
           !.alias = IF chains[i] # <<>> /\ named(chains[i][1]) # None THEN named(chains[i][1]) ELSE aliasAt(i),
           !.lock = IF items[i].lock # None THEN items[i].lock ELSE password,
           !.chain = IF chains[i] = <<>> THEN <<>>
                     ELSE climbed(i) \o SelectSeq(items[i].chain, LAMBDA c : c \notin Range(climbed(i)))]
      entryOf(i) ==
        CASE items[i].type = "key" /\ items[i].key # NoKey -> <<keyEntry(i)>>
          [] HasCert(items[i]) /\ ~(i \in inChain /\ (i \in leaves \/ ~IsRoot(items[i]))) ->
               <<[items[i] EXCEPT !.alias = aliasAt(i)]>>
          [] OTHER -> <<>>
  IN  { Container("jks", password, LastOfAlias(FlattenSeq([i \in DOMAIN items |-> entryOf(i)]))) }

NoAliases(items) == [i \in DOMAIN items |-> None]
EncodeItems(items, fmt, password, aliases) ==
  CASE fmt = "pem" -> WritePEM(items)
    [] fmt = "der" -> WriteDER(items)
    [] fmt = "p12" -> WritePKCS12(items, password)
    [] fmt = "p7b" -> WritePKCS7(items)
    [] fmt = "jks" -> WriteJKS(items, password, aliases)

\* The answer of an operation that writes one file.
WriteOne(path, files, overwrite) ==
  IF files = {} THEN Error ELSE Go(<<Replace(path, CHOOSE f \in files : TRUE, overwrite)>>, "complete")

-------------------------------------------------------------------------------
(* Keys and certificates *)

\* Where a new key goes: <<error, path>>; a path the user did not name has to be free.
KeyDestination(cmd, out, disk) ==
  IF ~cmd.withKey \/ cmd.keyOut # None \/ out = None THEN <<FALSE, cmd.keyOut>>
  ELSE <<disk[DerivedKey[out]] # Absent, DerivedKey[out]>>

EncodeKey(cmd, key) ==
  IF cmd.fmt = "der" THEN Container("der", None, <<KeyEntry(key)>>)
  ELSE Container("pem", None, <<[KeyEntry(key) EXCEPT !.lock = cmd.encrypt]>>)
EncodeOne(cmd, item) == Container(IF cmd.fmt = "der" THEN "der" ELSE "pem", None, <<item>>)
\* EncryptKeyPassword: an encrypted DER key is refused before anything is made.
CannotEncrypt(cmd) == cmd.encrypt # None /\ (cmd.fmt = "der" \/ cmd.encrypt = Empty)

\* The result first, then the key that goes with it; without a path they are printed.
WriteWithKey(cmd, out, item, keyOut, key) ==
  Go((IF out = None THEN <<>> ELSE <<Replace(out, EncodeOne(cmd, item), cmd.overwrite)>>)
       \o (IF keyOut = None THEN <<>> ELSE <<Replace(keyOut, EncodeKey(cmd, key), cmd.overwrite)>>),
     "complete")
NewKeyOut(cmd) == IF cmd.withKey THEN cmd.keyOut ELSE None

\* What the commands refuse before an operation starts, and a run that only shows the
\* OpenSSL equivalent.
SignersClash(cmd) == cmd.autosign /\ (cmd.signCert # None \/ cmd.signKey # None)
Unless(refused, cmd, answer) ==
  IF refused THEN Error ELSE IF cmd.dryRun THEN Finished("dry") ELSE answer
KeyAt(cmd, dest) == [cmd EXCEPT !.keyOut = dest[2]]

GenerateKey(cmd) ==
  Go(IF cmd.out = None THEN <<>> ELSE <<Replace(cmd.out, EncodeKey(cmd, cmd.freshKey), cmd.overwrite)>>, "complete")
RunCreateKey(cmd) == Unless(CannotEncrypt(cmd), cmd, GenerateKey(cmd))

KeyFor(cmd, disk) == IF cmd.withKey THEN cmd.freshKey ELSE LoadPrivateKey(disk, cmd.keyFile, cmd.pws)

CreateCSR(cmd, disk) ==
  LET key == KeyFor(cmd, disk)
  IN  IF key = NoKey \/ cmd.withKey = (cmd.keyFile # None) THEN Error
      ELSE WriteWithKey(cmd, cmd.out, Entry("csr", [subject |-> cmd.subject, names |-> cmd.names], key),
                        NewKeyOut(cmd), key)
RunCSR(cmd, disk) ==
  LET dest == KeyDestination(cmd, cmd.out, disk)
  IN  Unless(CannotEncrypt(cmd) \/ dest[1], cmd, CreateCSR(KeyAt(cmd, dest), disk))

\* A signer is a certificate and its key, or nobody; the set is empty when there is none to be had.
Nobody == [cert |-> NoCert, key |-> NoKey]

AutosignSearchDirs(out) == IF out = None \/ DirOf[out] = Cwd THEN <<Cwd>> ELSE <<Cwd, DirOf[out]>>

IsCertSigningCA(cert) == cert.ca /\ (cert.marks \cap {"usage"} = {} \/ "certsign" \in cert.marks)
\* An intermediate rather than a root, then whichever lasts longest.
Better(c, best) ==
  LET root(x) == x.cert.subject = x.cert.issuer
  IN  IF root(c) = root(best) THEN c.cert.until > best.cert.until ELSE root(best)
FindCA(disk, dirs, pws) ==
  LET store == FlattenSeq([i \in DOMAIN dirs |-> ScanDir(disk, dirs[i], pws)])
      found == SelectSeq(KeyCertPairs(store), LAMBDA pair : IsCertSigningCA(pair.cert))
  IN  IF found = <<>> THEN {}
      ELSE { FoldLeft(LAMBDA best, c : IF Better(c, best) THEN c ELSE best, found[1], found) }

NamedSigner(cmd, disk) ==
  LET cert == LoadCertificate(disk, cmd.signCert, cmd.pws)
      key == LoadPrivateKey(disk, cmd.signKey, cmd.pws)
  IN  IF cert # NoCert /\ key # NoKey /\ KeyMatchesCert(key, cert) THEN {[cert |-> cert, key |-> key]} ELSE {}

\* create-cert and sign take the paths autosign found and read them again.
Signers(cmd, disk, dirs, alone) ==
  CASE cmd.autosign -> FindCA(disk, dirs, cmd.pws)
    [] cmd.signCert # None /\ cmd.signKey # None -> NamedSigner(cmd, disk)
    [] cmd.signCert = None /\ cmd.signKey = None -> alone
    [] OTHER -> {}

\* A certificate without names is held to its common name.
WithinConstraints(ca, subject, names) ==
  ca = NoCert \/ ca.permits = None \/ (IF names = {} THEN {subject} ELSE names) \subseteq ca.permits

\* CreateSelfSignedCert, CreateSignedCert and SignCSR over buildTemplate.
Issue(id, t, key, signer) ==
  LET self == signer = Nobody
  IN  [id |-> id, subject |-> t.subject, names |-> t.names, key |-> key, ca |-> t.ca, permits |-> t.permits,
       issuer |-> IF self THEN t.subject ELSE signer.cert.subject,
       signer |-> IF self THEN key ELSE signer.key, ski |-> key,
       aki |-> IF self \/ t.subject = signer.cert.subject THEN "" ELSE signer.cert.ski,
       from |-> 0, until |-> t.until, marks |-> IF t.ca THEN {"usage", "certsign"} ELSE {"usage"}]

CreateCert(cmd, disk, signers) ==
  LET key == KeyFor(cmd, disk)
      by == { s \in signers : WithinConstraints(s.cert, cmd.subject, cmd.names) }
      template == [subject |-> cmd.subject, names |-> cmd.names, ca |-> cmd.ca, until |-> cmd.until,
                   permits |-> IF cmd.ca THEN cmd.permits ELSE None]
  IN  IF key = NoKey \/ by = {} \/ cmd.withKey = (cmd.keyFile # None) THEN Error
      ELSE WriteWithKey(cmd, cmd.out, CertEntry(Issue(cmd.id, template, key, CHOOSE s \in by : TRUE)),
                        NewKeyOut(cmd), key)
RunCreateCert(cmd, disk) ==
  LET dest == KeyDestination(cmd, cmd.out, disk)
      signers == Signers(cmd, disk, AutosignSearchDirs(cmd.out), {Nobody})
      nobody == cmd.autosign /\ signers = {}
  IN  Unless(SignersClash(cmd) \/ CannotEncrypt(cmd) \/ nobody \/ dest[1], cmd, CreateCert(KeyAt(cmd, dest), disk, signers))

\* The request's own extensions are not taken over.
SignCSR(cmd, disk, signers) ==
  LET csr == LoadCSR(disk, cmd.input)
      by == { s \in signers : WithinConstraints(s.cert, csr.cert.subject, csr.cert.names) }
      template == [subject |-> csr.cert.subject, names |-> csr.cert.names, ca |-> cmd.ca, until |-> cmd.until, permits |-> None]
  IN  IF csr.type # "csr" \/ by = {} THEN Error
      ELSE WriteWithKey(cmd, cmd.out, CertEntry(Issue(cmd.id, template, csr.key, CHOOSE s \in by : TRUE)), None, NoKey)
RunSign(cmd, disk) ==
  LET dirs == AutosignSearchDirs(cmd.out) \o
                (IF DirOf[cmd.input] \in Range(AutosignSearchDirs(cmd.out)) THEN <<>> ELSE <<DirOf[cmd.input]>>)
      unsigned == ~cmd.autosign /\ (cmd.signCert = None \/ cmd.signKey = None)
      signers == Signers(cmd, disk, dirs, {})
      nobody == cmd.autosign /\ signers = {}
  IN  Unless(SignersClash(cmd) \/ unsigned \/ nobody, cmd, SignCSR(cmd, disk, signers))

\* A relation of the siblings may be about another certificate that is there.
FindSiblingKeyOfAny(disk, path, pws, cert) ==
  LET others == SelectSeq(PathOrder, LAMBDA q : q # path /\ DirOf[q] = DirOf[path] /\ disk[q] # Absent)
      store == ScanOf(disk, others, pws) \o <<[source |-> "file", items |-> <<CertEntry(cert)>>]>>
  IN  FirstOf(KeyCertPairs(store), LAMBDA pair : TRUE, Nobody).key
FindSiblingKey(disk, path, pws, cert) ==
  LET others == SelectSeq(PathOrder, LAMBDA q : q # path /\ DirOf[q] = DirOf[path] /\ disk[q] # Absent)
      store == ScanOf(disk, others, pws) \o <<[source |-> "file", items |-> <<CertEntry(cert)>>]>>
  IN  FirstOf(KeyCertPairs(store), LAMBDA pair : KeyMatchesCert(pair.key, cert), Nobody).key

\* The key asked for, or the one in the file, or one beside it.
RenewalKey(cmd, disk, items, orig) ==
  CASE cmd.withKey -> cmd.freshKey
    [] cmd.keyFile # None -> LoadPrivateKey(disk, cmd.keyFile, cmd.pws)
    [] FirstKey(items) # NoKey -> FirstKey(items)
    [] OTHER -> FindSiblingKey(disk, cmd.input, cmd.pws, orig)

\* The signer's constraints are not looked at.
Renew(cmd, disk) ==
  LET items == ReadFile(disk, cmd.input, cmd.pws).items
      orig == FirstCert(items)
      key == RenewalKey(cmd, disk, items, orig)
      alone == IF orig.subject = orig.issuer THEN {Nobody} ELSE {}
      found == Signers(cmd, disk, AutosignSearchDirs(cmd.out), alone)
      by == IF cmd.autosign /\ found = {} THEN alone ELSE found
  IN  IF orig = NoCert THEN Error
      ELSE IF key = NoKey \/ by = {} THEN Error
      ELSE WriteWithKey(cmd, cmd.out, CertEntry(Issue(cmd.id, [orig EXCEPT !.until = cmd.until], key, CHOOSE s \in by : TRUE)),
                        cmd.keyOut, key)
\* The renewed certificate goes beside the old one by default; nothing is shown instead.
RunRenew(cmd, disk) ==
  LET out == IF cmd.out = None THEN Renewed[cmd.input] ELSE cmd.out
      dest == KeyDestination(cmd, out, disk)
      half == (cmd.signCert = None) # (cmd.signKey = None)
  IN  IF SignersClash(cmd) \/ half \/ CannotEncrypt(cmd) \/ dest[1] THEN Error
      ELSE Renew([KeyAt(cmd, dest) EXCEPT !.out = out], disk)

-------------------------------------------------------------------------------
(* Rewriting *)

FilterItems(items, include) ==
  CASE include = "certs" -> Certs(items)
    [] include = "keys" -> OfType(items, {"key", "pub"})
    [] OTHER -> items

ApplyConversionMatrix(items, fmt) ==
  LET all == ExpandKeyChains(items)
  IN  CASE fmt = "p7b" -> Certs(all)
        [] fmt = "der" -> SubSeq(all, 1, Min({1, Len(all)}))
        [] OTHER -> all

Convert(cmd, disk) ==
  LET wanted == FilterItems(ReadFile(disk, cmd.input, cmd.pws).items, cmd.include)
      items == ApplyConversionMatrix(wanted, cmd.fmt)
      aliases == [i \in DOMAIN items |-> IF i = 1 THEN cmd.alias ELSE None]
  IN  IF wanted = <<>> \/ (cmd.fmt = "der" /\ Len(wanted) > 1) \/ LockedKeys(items) # <<>> THEN Error
      ELSE WriteOne(cmd.out, EncodeItems(items, cmd.fmt, cmd.newPassword, aliases), cmd.overwrite)

RunConvert(cmd, disk) == Unless(cmd.out = None, cmd, Convert(cmd, disk))

MatchesTypeFilter(it, filter) ==
  CASE filter = "certs" -> it.type = "cert"
    [] filter = "keys" -> it.type \in {"key", "pub"}
    [] OTHER -> TRUE

\* A file for each item that is asked for, until one cannot be made.  The naming pattern
\* gives the path of each.
Extract(cmd, disk) ==
  LET items == ReadFile(disk, cmd.input, cmd.pws).items
      asked == SelectSeq([i \in DOMAIN items |-> i],
                 LAMBDA i : /\ MatchesTypeFilter(items[i], cmd.include)
                            /\ cmd.index = 0 \/ cmd.index = i
                            /\ cmd.alias = None \/ cmd.alias = items[i].alias)
      \* The chain of a key goes to the files of its certificates.
      encoded(n) == LET it == [items[asked[n]] EXCEPT !.chain = <<>>]
                    IN  EncodeItems(<<it>>, cmd.fmt, cmd.newPassword, <<it.alias>>)
      good == { n \in 0..Len(asked) : \A k \in 1..n : encoded(k) # {} }
      pathOf(n) == IF cmd.out # None THEN cmd.out ELSE cmd.naming[asked[n]]
  IN  IF asked = <<>> \/ (cmd.out # None /\ Len(asked) > 1) THEN Error
      ELSE Go([n \in 1..Max(good) |-> Replace(pathOf(n), CHOOSE f \in encoded(n) : TRUE, cmd.overwrite)],
              IF Max(good) = Len(asked) THEN "complete" ELSE "stopped")

\* Entries that had the store's password get the new one, the others keep their own.
UpdateEntryPasswords(items, old, new) ==
  [i \in DOMAIN items |->
     IF items[i].type = "key" /\ items[i].lock = old THEN [items[i] EXCEPT !.lock = new] ELSE items[i]]

ReencryptEntry(cmd, file) ==
  LET hits == { i \in DOMAIN file.items : file.items[i].type = "key" /\ file.items[i].alias = cmd.alias }
      store == IF cmd.storePassword = None THEN file.lock ELSE cmd.storePassword
  IN  IF file.fmt # "jks" \/ LockedKeys(file.items) # <<>> \/ hits = {} THEN {}
      ELSE WriteJKS([file.items EXCEPT ![Min(hits)].lock = cmd.newPassword], store, NoAliases(file.items))

\* Every block that holds a key is written again, the others as they are.
ReencryptPEMKeys(items, new) ==
  IF Keys(items) = <<>> \/ LockedKeys(items) # <<>> THEN {}
  ELSE { Container("pem", None, [i \in DOMAIN items |->
           IF items[i].type = "key" /\ new # Empty THEN [items[i] EXCEPT !.lock = new] ELSE items[i]]) }

ReencryptStore(file, new) ==
  CASE file.fmt = "p12" -> WritePKCS12(file.items, new)
    [] file.fmt = "pem" -> ReencryptPEMKeys(file.items, new)
    [] file.fmt = "jks" /\ LockedKeys(file.items) = <<>> ->
         WriteJKS(UpdateEntryPasswords(file.items, file.lock, new), new, NoAliases(file.items))
    [] OTHER -> {}

\* The result of writeResult: the file itself may always be replaced.
Reencrypt(cmd, disk) ==
  LET file == ReadFile(disk, cmd.input, cmd.pws \cup {cmd.storePassword})
      out == IF cmd.out = None THEN cmd.input ELSE cmd.out
  IN  IF file.items = <<>> THEN Error
      ELSE WriteOne(out, IF cmd.alias # None THEN ReencryptEntry(cmd, file) ELSE ReencryptStore(file, cmd.newPassword),
                    cmd.overwrite \/ out = cmd.input)

RunReencrypt(cmd, disk) ==
  IF disk[cmd.input] = Absent \/ (cmd.storePassword # None /\ cmd.alias = None) THEN Error ELSE Reencrypt(cmd, disk)

\* The longest chain, and of those the first.
BestChain(store) ==
  LET chains == FirstChains(AssembleChainAlternatives(store))
      leaves == SetToSortSeq(DOMAIN chains, Earlier)
  IN  FoldLeft(LAMBDA best, leaf : IF Len(chains[leaf]) > Len(best) THEN chains[leaf] ELSE best, <<>>, leaves)

DropRoots(items, includeRoot) == SelectSeq(items, LAMBDA it : includeRoot \/ ~IsRoot(it))

AutoAssemble(store, includeRoot) ==
  LET best == BestChain(store)
      at(refs) == [i \in DOMAIN refs |-> Item(store, refs[i])]
      keys == SelectSeq(at(RefsOf(store, "key")), LAMBDA it : it.key # NoKey /\ KeyMatchesCert(it.key, CertAt(store, best[1])))
  IN  IF best = <<>> THEN DropRoots(SelectSeq(at(CertRefs(store)), HasCert), includeRoot)
      ELSE keys \o DropRoots(at(best), includeRoot)

\* Keys, then the chain, then the other certificates, then the rest.
AutoChainItems(items, includeRoot) ==
  LET certs == Certs(items)
      best == BestChain(<<[source |-> "file", items |-> certs]>>)
      used == { best[i][2] : i \in DOMAIN best }
      left == SelectSeq([i \in DOMAIN certs |-> i], LAMBDA i : i \notin used)
      ordered == [i \in DOMAIN best |-> certs[best[i][2]]] \o [i \in DOMAIN left |-> certs[left[i]]]
  IN  Keys(items) \o (IF Len(certs) < 2 THEN certs ELSE DropRoots(ordered, includeRoot))
        \o SelectSeq(items, LAMBDA it : it.type \notin {"cert", "key"})

RemoveRootCerts(items) == IF Certs(DropRoots(items, FALSE)) = <<>> THEN items ELSE DropRoots(items, FALSE)

\* Names that come again are numbered.
GenerateAliases(items) ==
  LET subjectOf(it) == FirstOf(items, LAMBDA c : HasCert(c) /\ it.key # NoKey /\ KeyMatchesCert(it.key, c.cert), CertEntry(NoCert))
      base(i) == CASE HasCert(items[i]) -> <<"cn", items[i].cert.subject>>
                   [] items[i].type = "key" /\ subjectOf(items[i]).cert # NoCert -> <<"key", subjectOf(items[i]).cert.subject>>
                   [] OTHER -> <<"entry", ToString(i)>>
  IN  [i \in DOMAIN items |-> Append(base(i), Cardinality({ j \in 1..i : base(j) = base(i) }))]

Bundle(cmd, disk) ==
  LET given == FlattenSeq([i \in DOMAIN cmd.inputs |-> ReadFile(disk, cmd.inputs[i], cmd.pws).items])
      taken == CASE cmd.autoDir # None -> AutoAssemble(ScanDir(disk, cmd.autoDir, cmd.pws), cmd.includeRoot)
                 [] cmd.autoChain -> AutoChainItems(given, cmd.includeRoot)
                 [] OTHER -> IF cmd.includeRoot THEN given ELSE RemoveRootCerts(given)
      items == ApplyConversionMatrix(taken, cmd.fmt)
      aliases == IF cmd.alias # None THEN [i \in DOMAIN items |-> IF i = 1 THEN cmd.alias ELSE None]
                 ELSE GenerateAliases(items)
      missing == IF cmd.autoDir # None THEN ScanDir(disk, cmd.autoDir, cmd.pws) = <<>>
                 ELSE given = <<>> \/ \E i \in DOMAIN cmd.inputs : disk[cmd.inputs[i]] = Absent
  IN  IF missing THEN Error
      ELSE WriteOne(cmd.out, EncodeItems(items, cmd.fmt, cmd.newPassword, aliases), cmd.overwrite)

RunBundle(cmd, disk) == IF (cmd.inputs = <<>>) = (cmd.autoDir = None) THEN Error ELSE Bundle(cmd, disk)

\* The selected certificate of the TUI.
ExportCertificate(cmd) ==
  LET item == CertEntry(cmd.certs[1])
  IN  IF cmd.certs = <<>> THEN Error
      ELSE WriteOne(cmd.out, EncodeItems(<<item>>, IF cmd.fmt \in {"der", "p7b"} THEN cmd.fmt ELSE "pem", None, <<None>>), cmd.overwrite)

\* certs, the chain a server sent: one file for all, one for the leaf, one for each.
SaveRemoteCerts(cmd) ==
  LET items == [i \in DOMAIN cmd.certs |-> CertEntry(cmd.certs[i])]
      parts == (IF "chain" \in cmd.parts THEN <<[path |-> cmd.out, items |-> items]>> ELSE <<>>)
                 \o (IF "leaf" \in cmd.parts THEN <<[path |-> cmd.keyOut, items |-> <<items[1]>>]>> ELSE <<>>)
                 \o (IF "all" \in cmd.parts THEN [i \in DOMAIN items |-> [path |-> cmd.naming[i], items |-> <<items[i]>>]] ELSE <<>>)
      good == { n \in 0..Len(parts) : \A k \in 1..n : cmd.fmt # "der" \/ Len(parts[k].items) = 1 }
  IN  IF cmd.certs = <<>> THEN Error
      ELSE Go([n \in 1..Max(good) |->
                 Replace(parts[n].path, CHOOSE f \in EncodeItems(parts[n].items, cmd.fmt, None, <<>>) : TRUE, cmd.overwrite)],
              IF Max(good) = Len(parts) THEN "complete" ELSE "stopped")

Plan(cmd, disk) ==
  CASE cmd.op = "key" -> RunCreateKey(cmd)
    [] cmd.op = "csr" -> RunCSR(cmd, disk)
    [] cmd.op = "create" -> RunCreateCert(cmd, disk)
    [] cmd.op = "sign" -> RunSign(cmd, disk)
    [] cmd.op = "renew" -> RunRenew(cmd, disk)
    [] cmd.op = "convert" -> RunConvert(cmd, disk)
    [] cmd.op = "extract" -> Extract(cmd, disk)
    [] cmd.op = "reencrypt" -> RunReencrypt(cmd, disk)
    [] cmd.op = "bundle" -> RunBundle(cmd, disk)
    [] cmd.op = "export" -> ExportCertificate(cmd)
    [] cmd.op = "save-remote" -> SaveRemoteCerts(cmd)

\* The writes come first; what could not be encoded is reported after them.
OperationTurn(cmd, turn, mem, disk) ==
  CASE turn = 0 -> Plan(cmd, disk)
    [] mem = "stopped" -> Error
    [] OTHER -> Finished(mem)
===============================================================================
