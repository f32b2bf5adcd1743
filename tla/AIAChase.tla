------------------------------- MODULE AIAChase -------------------------------
(***************************************************************************)
(* internal/certlib/aia.go, ChaseAIA: the issuers missing from a scan are  *)
(* fetched from the CA Issuers URLs of its certificates, level by level,   *)
(* with internal/certops/aia_cache.go between the chase and the network.   *)
(* Several invocations share the cache directory: an index file with one   *)
(* entry per URL and a file per certificate, each written by truncating it *)
(* first.  The order in which one level is worked off is left open, and so *)
(* is whether a cache entry is still within its lifetime.                  *)
(***************************************************************************)
EXTENDS Naturals, FiniteSets

CONSTANTS
  Procs,       \* invocations of the program
  Caching,     \* those with the cache turned on (AIAOptions.Cache)
  Certs, URLs,
  Signed,      \* pairs <<issuer, cert>> for which CheckSignatureFrom succeeds
  SelfSigned,  \* IsSelfSigned
  AIA,         \* [Certs -> SUBSET URLs]: IssuingCertificateURL
  Published,   \* [URLs -> SUBSET Certs]: what a server sends when it answers
  Scans,       \* sets of certificates a chase may start from
  MaxDepth,    \* AIAOptions.MaxDepth, or its default
  MaxFaults,   \* bound: file operations that fail, crashes, and clearings of the cache
  None

Question == [cert : Certs, url : URLs]
Index    == [URLs -> Certs \cup {None}]

ASSUME AIAAssumption ==
  /\ Caching \subseteq Procs
  /\ Signed \subseteq Certs \X Certs
  /\ SelfSigned \subseteq Certs
  /\ AIA \in [Certs -> SUBSET URLs] /\ Published \in [URLs -> SUBSET Certs]
  /\ Scans \subseteq SUBSET Certs
  /\ MaxDepth \in Nat \ {0} /\ MaxFaults \in Nat
  /\ None \notin Certs /\ None \notin Question /\ None \notin Index

VARIABLES
  pc,      \* progress of each invocation
  run,     \* its chase, see Chase
  mem,     \* its FileAIACache.index once loaded
  index,   \* index.yaml: a truncated file reads as an index without entries
  der,     \* certificates with a whole .der file
  faults

vars == <<pc, run, mem, index, der, faults>>

Empty == [u \in URLs |-> None]

Sources  == {"fetched", "cached"}
Fetched  == [cert : Certs, url : URLs, for : Certs, source : Sources]

Chase == [scan : SUBSET Certs, level : 0..(MaxDepth - 1),
          todo : SUBSET Question,      \* what is left of the frontier
          now : Question \cup {None},  \* the URL being resolved
          out : SUBSET Certs,          \* what resolveAIAURL returns for it
          put : SUBSET Certs,          \* of that, not offered to the cache yet
          file : Certs \cup {None},    \* the one being written to the cache
          seenURL : SUBSET URLs, seenCert : SUBSET Certs, next : SUBSET Certs,
          fetched : SUBSET Fetched, failed : SUBSET Question]

TypeOK ==
  /\ pc \in [Procs -> {"idle", "chase", "fetch", "put", "file", "filed", "index", "hit", "done", "dead"}]
  /\ run \in [Procs -> Chase]
  /\ mem \in [Procs -> Index \cup {None}]
  /\ index \in Index /\ der \subseteq Certs
  /\ faults \in 0..MaxFaults
  /\ \A p \in Procs :
       /\ pc[p] \in {"fetch", "put", "file", "filed", "index", "hit"} => run[p].now # None
       /\ pc[p] \in {"file", "filed", "index"} => run[p].file # None /\ mem[p] # None

Questions(certs) == {q \in Question : q.cert \in certs \ SelfSigned /\ q.url \in AIA[q.cert]}

NewChase(certs) ==
  [scan |-> certs, level |-> 0, todo |-> Questions(certs), now |-> None, out |-> {}, put |-> {}, file |-> None,
   seenURL |-> {}, seenCert |-> certs, next |-> {}, fetched |-> {}, failed |-> {}]

Init ==
  /\ pc = [p \in Procs |-> "idle"]
  /\ run = [p \in Procs |-> NewChase({})]
  /\ mem = [p \in Procs |-> None]
  /\ index = Empty /\ der = {} /\ faults = 0

To(p, from, to) == pc[p] = from /\ pc' = [pc EXCEPT ![p] = to]
Fault == faults < MaxFaults /\ faults' = faults + 1

-----------------------------------------------------------------------------
(* The chase.                                                              *)

Start(p) ==
  /\ To(p, "idle", "chase")
  /\ \E certs \in Scans : run' = [run EXCEPT ![p] = NewChase(certs)]
  /\ UNCHANGED <<mem, index, der, faults>>

Candidates(u, c) == {i \in Published[u] : <<i, c>> \in Signed}

\* A URL asked before in this chase is passed over.
Skip(p) ==
  /\ pc[p] = "chase"
  /\ \E q \in run[p].todo :
       q.url \in run[p].seenURL /\ run' = [run EXCEPT ![p].todo = @ \ {q}]
  /\ UNCHANGED <<pc, mem, index, der, faults>>

\* FileAIACache.load reads the index on the first use and keeps it.
Loaded(p) == IF mem[p] = None THEN index ELSE mem[p]

\* Get: the entry's file must be whole, and resolveAIAURL has the signature of
\* the requester checked against the cached certificate.
HitUnchecked(q, c) == c # None /\ c \in der
Hit(q, c)          == c # None /\ c \in der /\ <<c, q.cert>> \in Signed

Ask(p, q, out, to) ==
  /\ To(p, "chase", to)
  /\ q \in run[p].todo /\ q.url \notin run[p].seenURL
  /\ mem' = [mem EXCEPT ![p] = Loaded(p)]
  /\ run' = [run EXCEPT ![p] = [run[p] EXCEPT !.todo = @ \ {q}, !.seenURL = @ \cup {q.url},
                                            !.now = q, !.out = out]]
  /\ UNCHANGED <<index, der, faults>>

AskCache(p) ==
  /\ p \in Caching
  /\ \E q \in run[p].todo :
       LET c == Loaded(p)[q.url] IN Hit(q, c) /\ Ask(p, q, {c}, "hit")

\* There is no usable entry, or its lifetime is over.
AskServer(p) == \E q \in run[p].todo : Ask(p, q, {}, "fetch")

\* Every certificate in the answer that signed the requester is a candidate.
FirstCandidate(u, c) == IF Candidates(u, c) = {} THEN {} ELSE {CHOOSE i \in Candidates(u, c) : TRUE}
Usable(u, c)         == Candidates(u, c)

\* The server does not answer, not with a certificate, or with the wrong one.
Swallow(p) ==
  To(p, "fetch", "chase") /\ run' = [run EXCEPT ![p].now = None] /\ UNCHANGED <<mem, index, der, faults>>
FetchFails(p) ==
  /\ To(p, "fetch", "chase")
  /\ run' = [run EXCEPT ![p].failed = @ \cup {run[p].now}, ![p].now = None]
  /\ UNCHANGED <<mem, index, der, faults>>

Fetch(p) ==
  /\ To(p, "fetch", "put")
  /\ LET usable == Usable(run[p].now.url, run[p].now.cert)
     IN usable # {} /\ run' = [run EXCEPT ![p].out = usable, ![p].put = IF p \in Caching THEN usable ELSE {}]
  /\ UNCHANGED <<mem, index, der, faults>>

\* Candidates not seen before are kept and make up the next frontier.
Resolved(r) == r.out
Unseen(r)   == r.out \ r.seenCert

Found(r, source) ==
  {[cert |-> c, url |-> r.now.url, for |-> r.now.cert, source |-> source] : c \in Unseen(r)}

Keep(p, from, source) ==
  /\ To(p, from, "chase") /\ run[p].put = {}
  /\ run' = [run EXCEPT ![p] = [run[p] EXCEPT !.fetched = @ \cup Found(run[p], source),
       !.seenCert = @ \cup Unseen(run[p]), !.next = @ \cup Unseen(run[p]), !.out = {}, !.now = None]]
  /\ UNCHANGED <<mem, index, der, faults>>

KeepCached(p)  == Keep(p, "hit", "cached")
KeepFetched(p) == Keep(p, "put", "fetched")

OneTooDeep(r) == r.next # {} /\ r.level < MaxDepth
Deeper(r)     == r.next # {} /\ r.level + 1 < MaxDepth

NextLevel(p) ==
  /\ pc[p] = "chase" /\ run[p].todo = {} /\ Deeper(run[p])
  /\ run' = [run EXCEPT ![p].level = @ + 1, ![p].todo = Questions(run[p].next), ![p].next = {}]
  /\ UNCHANGED <<pc, mem, index, der, faults>>

Finish(p) ==
  /\ To(p, "chase", "done") /\ run[p].todo = {} /\ ~Deeper(run[p])
  /\ UNCHANGED <<run, mem, index, der, faults>>

-----------------------------------------------------------------------------
(* Put, for one candidate after the other: the certificate's file, then    *)
(* the whole index as this invocation knows it.  Its errors are ignored.   *)

OpenFile(p) ==
  /\ To(p, "put", "file")
  /\ \E c \in run[p].put :
       der' = der \ {c} /\ run' = [run EXCEPT ![p].put = @ \ {c}, ![p].file = c]
  /\ UNCHANGED <<mem, index, faults>>

WriteFile(p) ==
  /\ To(p, "file", "filed")
  /\ der' = der \cup {run[p].file}
  /\ mem' = [mem EXCEPT ![p][run[p].now.url] = run[p].file]
  /\ UNCHANGED <<run, index, faults>>

OpenIndex(p)  == To(p, "filed", "index") /\ index' = Empty /\ UNCHANGED <<run, mem, der, faults>>
WriteIndex(p) == To(p, "index", "put") /\ index' = mem[p] /\ UNCHANGED <<run, mem, der, faults>>

\* Opening or writing fails; a truncated file stays truncated.
PutFails(p) ==
  /\ Fault
  /\ \/ /\ pc[p] = "put" /\ pc' = pc
        /\ \E c \in run[p].put : run' = [run EXCEPT ![p].put = @ \ {c}]
     \/ /\ pc[p] \in {"file", "filed", "index"} /\ pc' = [pc EXCEPT ![p] = "put"]
        /\ run' = run
  /\ UNCHANGED <<mem, index, der>>

Crash(p) ==
  /\ Fault /\ pc[p] \notin {"idle", "done", "dead"} /\ pc' = [pc EXCEPT ![p] = "dead"]
  /\ UNCHANGED <<run, mem, index, der>>

\* "aia cache clear", as far as it gets, while no file is being written.
Clear ==
  /\ Fault
  /\ \A p \in Procs : pc[p] \notin {"file", "index"}
  /\ der' \in SUBSET der /\ index' \in {index, Empty}
  /\ UNCHANGED <<pc, run, mem>>

Next ==
  \/ \E p \in Procs :
       \/ Start(p) \/ Skip(p) \/ AskCache(p) \/ AskServer(p) \/ FetchFails(p) \/ Fetch(p) \/ KeepCached(p) \/ KeepFetched(p)
       \/ NextLevel(p) \/ Finish(p)
       \/ OpenFile(p) \/ WriteFile(p) \/ OpenIndex(p) \/ WriteIndex(p) \/ PutFails(p) \/ Crash(p)
  \/ Clear

Spec == Init /\ [][Next]_vars

-----------------------------------------------------------------------------
(* Properties.                                                             *)

\* Whatever the cache directory went through, every certificate a chase returns
\* was published at the URL it is attributed to and signed the certificate it is
\* attributed to, which the scan held or the chase found.
Sound ==
  \A p \in Procs : \A f \in run[p].fetched :
    /\ f.url \in AIA[f.for] /\ f.cert \in Candidates(f.url, f.for)
    /\ f.for \in run[p].scan \cup {g.cert : g \in run[p].fetched}

\* No certificate is returned twice, or beside the copy the scan already has.
NoDuplicates ==
  \A p \in Procs : \A f \in run[p].fetched :
    /\ f.cert \notin run[p].scan
    /\ \A g \in run[p].fetched : f.cert = g.cert => f = g

\* "Every candidate at a hop is kept, not just the first that verifies": of an
\* answer that was fetched, all are known afterwards.
CandidatesKept ==
  \A p \in Procs : \A f \in run[p].fetched :
    f.source = "fetched" => Candidates(f.url, f.for) \subseteq run[p].seenCert

\* What a chase returns can be relied on, whatever the cache went through.
FetchedIsTrue == TypeOK /\ Sound /\ NoDuplicates /\ CandidatesKept

\* No certificate is further above the scan than the depth allows.
Levels(certs) ==
  LET up[n \in 0..MaxDepth] ==
        IF n = 0 THEN certs ELSE up[n - 1] \cup {i \in Certs : \E c \in up[n - 1] : <<i, c>> \in Signed}
  IN up
Above(certs) == Levels(certs)[MaxDepth]
DepthBound == \A p \in Procs : run[p].seenCert \subseteq Above(run[p].scan)

\* A chase that stops before the depth limit leaves no question open: for each
\* URL of a certificate it knows, some issuer it published is known or the URL is
\* reported as failed.  Certificates that share a URL must have the same issuers
\* there: the URL is asked for the first of them only.
Agree(q) == \A c \in Certs : q.url \in AIA[c] => Candidates(q.url, c) = Candidates(q.url, q.cert)
Settled(r, q) ==
  \/ Candidates(q.url, q.cert) \cap r.seenCert # {}
  \/ \E f \in r.failed : f.url = q.url
NothingLeftOpen ==
  \A p \in Procs :
    pc[p] = "done" /\ run[p].next = {} =>
      \A q \in Questions(run[p].seenCert) : Agree(q) => Settled(run[p], q)

\* A chase goes as far as it may and no further (ChaseAIA).
AsFarAsItMay == DepthBound /\ NothingLeftOpen
=============================================================================
