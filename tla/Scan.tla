--------------------------------- MODULE Scan ---------------------------------
(***************************************************************************)
(* internal/certlib/scanner.go under internal/certops/scan.go: a walk over *)
(* a tree that reads what looks like a certificate, asks the user for the  *)
(* passwords it lacks, says why it left a file out, and, for files named   *)
(* one by one, looks at their siblings.                                    *)
(***************************************************************************)
EXTENDS Reader

CONSTANTS
  Trees,       \* the trees that may be scanned: sequences of entries in walk order
  Settings,    \* [named, signature, recursive, maxDepth, noTryAll, interactive]
  Typed,       \* what the user may type at a prompt
  MaxTries     \* bound: prompts answered for one file

EntryKinds == {"file", "link", "dir", "special", "unreadable", "broken", "linkdir"}
StoreFormats == {"JKS", "PKCS12"}
\* A key store and a PKCS#12 bundle have a password of their own, be it the empty one, and
\* no other file has; only PEM blocks and the entries of a key store may have locks too.
LocksPlaced(content) ==
  /\ content.fmt \in StoreFormats <=> content.lock # Plain
  /\ content.fmt \notin {"JKS", "PEM"} => \A k \in DOMAIN content.items : content.items[k].lock = Plain
ASSUME ScanAssumption ==
  \A t \in Trees : /\ t \in Seq(Range(t))
                    /\ \A i \in DOMAIN t : t[i].kind \in EntryKinds /\ LocksPlaced(t[i].content)

VARIABLES
  tree, opts,
  pos,         \* the entry the walk is at
  phase,       \* "walk", "prompt", "menu", "done", "failed", "quit"
  tried,       \* the passwords tryInteractive has for the file, the typed ones last
  store,       \* CertStore.Containers: [entry, container, relationsOnly, tried]
  skipped,     \* CertStore.Skipped, the entries only
  cancelled,   \* the context was cancelled
  skipAll,     \* PasswordManager.skipAllInteractive
  asked        \* entries a prompt was opened for, in order

scanVars == <<tree, opts, pos, phase, tried, store, skipped, cancelled, skipAll, asked>>

ScanInit ==
  /\ tree \in Trees /\ opts \in Settings
  /\ pos = 1 /\ phase = "walk" /\ tried = <<>>
  /\ store = <<>> /\ skipped = <<>> /\ asked = <<>>
  /\ cancelled = FALSE /\ skipAll = FALSE

Here == tree[pos]
Sibling == opts.named /\ pos > 1

\* filepath.WalkDir does not enter a directory the callback returned SkipDir for, and
\* os.ReadDir (the siblings) stays in one directory.
Visited(e) ==
  /\ e.depth = 0 \/ (opts.recursive /\ ~opts.named)
  /\ opts.maxDepth = 0 \/ e.depth < opts.maxDepth
CandidateByParser(e) == opts.signature \/ FormatFromExtension(e.ext) # "none"
Candidate(e) == opts.signature \/ e.ext \in CertExtensions

\* Entries the walk does not even try to read, and tells the user about.
Unreadable(e) == e.kind = "unreadable"
NotAFile(e) == e.kind \in {"broken", "linkdir"}
TooBig(e) == e.kind \in {"file", "link"} /\ e.big

ReadHere(pws) ==
  IF opts.signature THEN ReadBySignature(Here.content, pws)
  ELSE IF opts.named /\ pos = 1 THEN ReadNamedFile(Here.ext, Here.content, pws)
  ELSE ReadFileCore(Here.ext, Here.content, pws)

Known(e) == PasswordsForFile(e.bound, opts.noTryAll)

Advance == pos' = pos + 1 /\ phase' = "walk" /\ tried' = <<>>
Add(container, pws) ==
  store' = Append(store, [entry |-> pos, container |-> container, relationsOnly |-> Sibling, tried |-> pws])

\* An entry that is left out: a directory or device without a word, anything that
\* looked like a certificate with a reason (the siblings of a named file never).
Leave ==
  /\ phase = "walk" /\ ~cancelled /\ pos <= Len(tree) /\ (opts.named => pos > 1)
  /\ \/ ~Visited(Here) \/ Here.kind \in {"dir", "special"}
        \/ Unreadable(Here) \/ NotAFile(Here) \/ TooBig(Here) \/ ~ReadHere(RawPasswords(Known(Here))).ok
     \/ Sibling /\ ~Candidate(Here)
  /\ LET told == /\ Visited(Here) /\ ~Sibling
                 /\ \/ Unreadable(Here)
                    \/ Candidate(Here) /\ (NotAFile(Here) \/ TooBig(Here))
                    \/ /\ Candidate(Here) /\ ~opts.signature
                       /\ Here.kind \in {"file", "link"} /\ ~TooBig(Here)
     IN  skipped' = IF told THEN Append(skipped, pos) ELSE skipped
  /\ Advance /\ UNCHANGED <<tree, opts, store, cancelled, skipAll, asked>>

\* A file that reads is kept; one that stays locked goes to the user first, if there is one.
Readable ==
  /\ phase = "walk" /\ pos <= Len(tree) /\ (~cancelled \/ (opts.named /\ pos = 1))
  /\ \/ opts.named /\ pos = 1
     \/ Visited(Here) /\ Here.kind \in {"file", "link"} /\ ~Here.big /\ (Sibling => Candidate(Here))
  /\ ReadHere(RawPasswords(Known(Here))).ok

OffersPromptAlways(container) == HasPasswordErrors(container) /\ opts.interactive
OffersPrompt(container) == HasPasswordErrors(container) /\ opts.interactive /\ ~skipAll

Keep ==
  /\ Readable
  /\ LET c == ReadHere(RawPasswords(Known(Here)))
     IN  ~OffersPrompt(c) /\ Add(c, RawPasswords(Known(Here)))
  /\ Advance /\ UNCHANGED <<tree, opts, skipped, cancelled, skipAll, asked>>

Ask ==
  /\ Readable /\ OffersPrompt(ReadHere(RawPasswords(Known(Here))))
  /\ phase' = "prompt" /\ tried' = RawPasswords(Known(Here)) /\ asked' = Append(asked, pos)
  /\ UNCHANGED <<tree, opts, pos, store, skipped, cancelled, skipAll>>

\* tryInteractive's retryFn: the typed password joins those already tried and the whole
\* file is read again; only a file without password errors replaces the locked one.
Type(pw) ==
  /\ phase = "prompt" /\ Len(tried) < Len(Known(Here)) + MaxTries
  /\ LET now == IF pw \in Range(tried) THEN tried ELSE Append(tried, pw)
         c == ReadHere(now)
     IN  IF c.ok /\ ~HasPasswordErrors(c)
         THEN Add(c, now) /\ Advance
         ELSE phase' = "menu" /\ tried' = now /\ UNCHANGED <<pos, store>>
  /\ UNCHANGED <<tree, opts, skipped, cancelled, skipAll, asked>>

\* Skip, an unreadable prompt, or Skip all: the locked container is kept as it was.
GiveUp(all) ==
  /\ phase = "menu" \/ (phase = "prompt" /\ ~all)
  /\ skipAll' = (skipAll \/ all)
  /\ Add(ReadHere(RawPasswords(Known(Here))), RawPasswords(Known(Here))) /\ Advance
  /\ UNCHANGED <<tree, opts, skipped, cancelled, asked>>

Retry ==
  /\ phase = "menu" /\ phase' = "prompt"
  /\ UNCHANGED <<tree, opts, pos, tried, store, skipped, cancelled, skipAll, asked>>

Quit ==
  /\ phase = "menu" /\ phase' = "quit"
  /\ UNCHANGED <<tree, opts, pos, tried, store, skipped, cancelled, skipAll, asked>>

\* A named file that cannot be read ends the scan of its path with an error.
Fail ==
  /\ phase = "walk" /\ opts.named /\ pos = 1
  /\ ~ReadHere(RawPasswords(Known(Here))).ok
  /\ phase' = "failed"
  /\ UNCHANGED <<tree, opts, pos, tried, store, skipped, cancelled, skipAll, asked>>

\* The context is looked at between two entries.
Cancel ==
  /\ phase = "walk" /\ ~cancelled /\ cancelled' = TRUE
  /\ UNCHANGED <<tree, opts, pos, phase, tried, store, skipped, skipAll, asked>>

EndWalk ==
  /\ phase = "walk" /\ ((cancelled /\ (opts.named => pos > 1)) \/ pos > Len(tree)) /\ phase' = "done"
  /\ UNCHANGED <<tree, opts, pos, tried, store, skipped, cancelled, skipAll, asked>>

ScanNext ==
  \/ Leave \/ Keep \/ Ask \/ Retry \/ Quit \/ Fail \/ Cancel \/ EndWalk
  \/ \E pw \in Typed : Type(pw)
  \/ \E all \in BOOLEAN : GiveUp(all)

ScanSpec == ScanInit /\ [][ScanNext]_scanVars

-------------------------------------------------------------------------------
(* Properties *)

ScanTypeOK ==
  /\ pos \in 1..Len(tree) + 1 /\ phase \in {"walk", "prompt", "menu", "done", "failed", "quit"}
  /\ Range(asked) \subseteq 1..Len(tree) /\ Range(skipped) \subseteq 1..Len(tree)
  /\ \A i \in DOMAIN store : store[i].entry \in 1..Len(tree)

\* A scan that ended leaves nothing unexplained: of the entries it walked past, every
\* file that looks like a certificate is either in the store or among the skipped, once
\* (scanner.go:56; the siblings of named files, which the user did not ask for, may be
\* left out silently).
Accounted ==
  LET kept == [i \in DOMAIN store |-> store[i].entry]
      seen == 1..(pos - 1)
  IN  /\ ScanTypeOK
      /\ \A e \in DOMAIN tree : Cardinality({i \in DOMAIN store : kept[i] = e})
                                 + Cardinality({i \in DOMAIN skipped : skipped[i] = e}) <= 1
      /\ \A e \in seen :
           /\ tree[e].kind \notin {"dir", "special"} /\ tree[e].ext \in CertExtensions
           /\ ~opts.signature /\ ~opts.named /\ Visited(tree[e])
           => e \in Range(kept) \cup Range(skipped)
      /\ \A i \in DOMAIN store : store[i].relationsOnly <=> (opts.named /\ store[i].entry > 1)

\* A file with the extension of a key store that is something else: the parsers of key
\* stores answer "password required" to it and never an error, so that no other is tried
\* (reader.go:122-129; what ExtensionIsAHint says of it below).
Misnamed(e) ==
  LET format == FormatFromExtension(e.ext)
  IN  ~opts.signature /\ format \in StoreFormats /\ format # e.content.fmt

\* What the passwords pws let a user see of entry e.
ShowsWhatOpens(c, e, pws) ==
  LET opens == {Plain, Empty} \cup Range(pws)
      shown == Parsed(e.content)
  IN  IF Misnamed(e) \/ e.content.lock \notin opens
      THEN HasPasswordErrors(c) /\ c.items = <<>>
      ELSE /\ DOMAIN c.items = DOMAIN shown
           /\ \A k \in DOMAIN shown : c.items[k].open <=> shown[k].lock \in opens

\* What is open in a container is what the passwords tried for it open, whatever their
\* order and whichever parser was guessed first: a store is open exactly when its password
\* is among them (the empty one included), then everything in it is listed, each item
\* readable exactly when its own is; a store that is not open shows nothing and asks for a
\* password.  The one exception are the files Misnamed.  A file the user unlocked has no
\* password error left, and one that keeps an error was offered to the user, if there is
\* one (password.go:154).
ContainersTrue ==
  \A i \in DOMAIN store :
    LET e == tree[store[i].entry]
        c == store[i].container
    IN  /\ ShowsWhatOpens(c, e, store[i].tried)
        /\ HasPasswordErrors(c) /\ opts.interactive => store[i].entry \in Range(asked) \/ skipAll
        /\ store[i].tried # RawPasswords(Known(e)) => ~HasPasswordErrors(c)

\* The user is asked about a file once, and about no further file after Skip all
\* (password.go:154, 170): Retry stays in the file's own prompt.
AskedOnce == [][asked' # asked => ~skipAll /\ pos \notin Range(asked)]_scanVars

\* reader.go says that a certificate extension is only a hint about which parser to try
\* first and that a readable file is not rejected for it.
ExtensionIsAHint ==
  \A i \in DOMAIN store :
    LET content == tree[store[i].entry].content
    IN  (\A k \in DOMAIN content.items : content.items[k].lock = Plain) /\ content.lock = Plain
        => ~HasPasswordErrors(store[i].container)
===============================================================================
