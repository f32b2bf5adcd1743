-------------------------------- MODULE Reader --------------------------------
(***************************************************************************)
(* internal/certlib/reader.go, detect.go and internal/password: what a     *)
(* file holds once it was read with a list of passwords.  A file is its    *)
(* real format, the lock of its store and the items in it, each with the   *)
(* lock of its own; what was parsed of it is a Container.                  *)
(***************************************************************************)
EXTENDS Naturals, Sequences, SequencesExt, FiniteSetsExt

CONSTANTS
  Empty,       \* the empty password, always tried last
  Plain,       \* the "lock" of an item that is not encrypted
  Provided     \* the configured passwords: source -> sequence of passwords

Sources == {"by_filename", "arg", "password file", "common plaintext",
            "common encrypted", "env var", "built-in"}
ASSUME ProvidedAssumption == \A s \in Sources : Provided[s] \in Seq(Range(Provided[s]))

CertExtensions == {"pem", "crt", "der", "p12", "p7b", "jks", "csr"}

\* A read that returned an error, and a container in which nothing could be opened.
Failed == [ok |-> FALSE, items |-> <<>>, password |-> Plain, locked |-> FALSE]
Locked == [ok |-> TRUE, items |-> <<>>, password |-> Plain, locked |-> TRUE]

FormatFromExtension(ext) ==
  CASE ext \in {"pem", "crt"} -> "PEM"
    [] ext = "der" -> "DER"
    [] ext = "p12" -> "PKCS12"
    [] ext = "p7b" -> "PKCS7"
    [] ext = "jks" -> "JKS"
    [] OTHER -> "none"

\* PasswordManager.PasswordsForFile: the passwords bound to the file first, then, unless
\* told not to try them all, every other source in a fixed order.
PasswordsForFile(named, noTryAll) ==
  LET of(s) == [i \in DOMAIN Provided[s] |-> [password |-> Provided[s][i], source |-> s]]
      own == IF named THEN of("by_filename") ELSE <<>>
  IN  IF noTryAll THEN own
      ELSE own \o of("arg") \o of("password file") \o of("common plaintext")
               \o of("common encrypted") \o of("env var") \o of("built-in")

RawPasswords(tagged) == [i \in DOMAIN tagged |-> tagged[i].password]

PasswordsWithEmpty(pws) == IF Empty \in Range(pws) THEN pws ELSE Append(pws, Empty)

\* The password of the list that opens a lock, and Plain when none does.
Opening(lock, pws) == IF lock \in Range(pws) THEN lock ELSE Plain

\* What a parser makes of the items: PEM blocks of other types are ignored, and blocks
\* that do not parse leave an error and no item.
Parsed(content) ==
  IF content.fmt = "PEM" THEN SelectSeq(content.items, LAMBDA it : it.kind \notin {"ignored", "malformed"})
  ELSE content.items

\* readPEM and decryptLegacyPEMKey: every block on its own; the container keeps the
\* password of the last key it opened.
ReadPEM(content, pws) ==
  LET good == Parsed(content)
      read == [i \in DOMAIN good |-> [kind |-> good[i].kind,
                 open |-> good[i].lock = Plain \/ Opening(good[i].lock, PasswordsWithEmpty(pws)) # Plain]]
      used == SelectSeq(good, LAMBDA it : it.lock # Plain
                                          /\ Opening(it.lock, PasswordsWithEmpty(pws)) # Plain)
  IN  IF content.fmt # "PEM" \/ \A i \in DOMAIN content.items : content.items[i].kind = "ignored" THEN Failed
      ELSE [ok |-> TRUE, items |-> read,
            password |-> IF used = <<>> THEN Plain ELSE Last(used).lock,
            locked |-> \E i \in DOMAIN read : ~read[i].open]

\* readDER and readPKCS7: nothing in them is encrypted.
ReadBare(content, fmt) ==
  IF content.fmt # fmt THEN Failed
  ELSE [ok |-> TRUE, items |-> [i \in DOMAIN content.items |-> [kind |-> content.items[i].kind, open |-> TRUE]],
        password |-> Plain, locked |-> FALSE]

\* readPKCS12: one password for everything, and never an error.
ReadPKCS12(content, pws) ==
  LET pw == Opening(content.lock, PasswordsWithEmpty(pws))
  IN  IF content.fmt # "PKCS12" \/ pw = Plain THEN Locked
      ELSE [ok |-> TRUE, items |-> [i \in DOMAIN content.items |-> [kind |-> content.items[i].kind, open |-> TRUE]],
            password |-> pw, locked |-> FALSE]

\* readKeyStorePrivateEntry: the store's password first, then the others.
EntryOpens(entry, storePw, pws) == entry.lock \in {Plain, storePw} \cup Range(pws)

\* readKeyStore: the store has a password, each key entry may have another; an entry
\* that stays closed is listed encrypted and leaves no parse error.
ReadJKS(content, pws) ==
  LET all == PasswordsWithEmpty(pws)
      pw == Opening(content.lock, all)
  IN  IF content.fmt # "JKS" \/ pw = Plain THEN Locked
      ELSE [ok |-> TRUE, password |-> pw, locked |-> FALSE,
            items |-> [i \in DOMAIN content.items |->
                        [kind |-> content.items[i].kind, open |-> EntryOpens(content.items[i], pw, all)]]]

\* The first guess of what starts as ASN.1 kept because its parser returned no error.
ReadFirstGuess(content, pws) ==
  CASE content.fmt = "PEM" -> ReadPEM(content, pws)
    [] content.fmt = "JKS" -> ReadJKS(content, pws)
    [] content.fmt \in {"PKCS12", "PKCS7", "DER"} -> ReadPKCS12(content, pws)
    [] OTHER -> Failed

\* DetectFormat and readFileBySignatureCore: PKCS#12, PKCS#7 and DER all start as ASN.1
\* and are tried in this order; the first is kept when it opened or is really locked.
ReadBySignature(content, pws) ==
  CASE content.fmt = "PEM" -> ReadPEM(content, pws)
    [] content.fmt = "JKS" -> ReadJKS(content, pws)
    [] content.fmt = "PKCS12" -> ReadPKCS12(content, pws)
    [] content.fmt \in {"PKCS7", "DER"} -> ReadBare(content, content.fmt)
    [] OTHER -> Failed

ReadAs(format, content, pws) ==
  CASE format = "PEM" -> ReadPEM(content, pws)
    [] format = "PKCS12" -> ReadPKCS12(content, pws)
    [] format = "JKS" -> ReadJKS(content, pws)
    [] format \in {"DER", "PKCS7"} -> ReadBare(content, format)
    [] OTHER -> IF content.fmt = "PEM" THEN ReadPEM(content, pws) ELSE Failed

\* readFileCore: the extension chooses the parser; a certificate extension whose parser
\* returned an error is read again by content.
ReadFileCore(ext, content, pws) ==
  LET byExt == ReadAs(FormatFromExtension(ext), content, pws)
      bySig == ReadBySignature(content, pws)
  IN  IF ~byExt.ok /\ ext \in CertExtensions /\ bySig.ok /\ bySig.items # <<>> THEN bySig ELSE byExt

\* readNamedFile: a file named by the caller is read by content whatever its extension.
ReadNamedFile(ext, content, pws) ==
  LET core == ReadFileCore(ext, content, pws)
      bySig == ReadBySignature(content, pws)
  IN  IF ~core.ok /\ bySig.ok /\ bySig.items # <<>> THEN bySig ELSE core

\* HasPasswordErrors: only these are offered to the user.
HasPasswordErrors(container) == container.locked
===============================================================================
