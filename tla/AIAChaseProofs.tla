---------------------------- MODULE AIAChaseProofs ----------------------------
(***************************************************************************)
(* Proofs about AIAChase, for any certificates, signatures, URLs, scans,   *)
(* depth, number of invocations and faults.  Soundness rests on what lies  *)
(* between a question and its answer: a pending question belongs to a      *)
(* known certificate, the candidates in hand signed the requester and were *)
(* published at its URL, and so was every certificate the index names for  *)
(* a URL, in memory and on disk.  How far a chase goes rests on where each *)
(* question of a known certificate is, and how high above the scan.        *)
(***************************************************************************)
EXTENDS AIAChase, WellFoundedInduction, TLAPS

Honest(x) == \A u \in URLs : x[u] # None => x[u] \in Published[u]

Attributed(r) ==
  \A f \in r.fetched : f.url \in AIA[f.for] /\ f.cert \in Candidates(f.url, f.for) /\ f.for \in r.seenCert
Distinct(r) ==
  \A f \in r.fetched : f.cert \notin r.scan /\ \A g \in r.fetched : f.cert = g.cert => f = g

AllKept(r) ==
  \A f \in r.fetched : f.source = "fetched" => Candidates(f.url, f.for) \subseteq r.seenCert

RunInv(r) ==
  /\ r.seenCert = r.scan \cup {f.cert : f \in r.fetched}
  /\ r.next \subseteq r.seenCert
  /\ \A q \in r.todo : q.cert \in r.seenCert /\ q.url \in AIA[q.cert]
  /\ r.now # None => r.now.cert \in r.seenCert /\ r.now.url \in AIA[r.now.cert]
  /\ r.now # None => r.out \subseteq Candidates(r.now.url, r.now.cert)
  /\ r.put \subseteq r.out
  /\ Attributed(r) /\ Distinct(r) /\ AllKept(r)

CacheInv(p) ==
  /\ mem[p] # None => Honest(mem[p])
  /\ pc[p] \in {"idle", "chase", "fetch", "hit"} => run[p].put = {}
  /\ pc[p] \in {"fetch", "put"} => mem[p] # None
  /\ pc[p] \in {"put", "file", "filed", "index"} => run[p].out = Candidates(run[p].now.url, run[p].now.cert)
  /\ pc[p] \in {"file", "filed", "index"} => run[p].file \in Published[run[p].now.url]

IInv == TypeOK /\ Honest(index) /\ \A p \in Procs : RunInv(run[p]) /\ CacheInv(p)

-----------------------------------------------------------------------------

\* A step of one invocation keeps the invariant if it does so where it acts.
LEMMA Local ==
  ASSUME IInv, NEW p \in Procs, TypeOK', Honest(index'), RunInv(run'[p]), CacheInv(p)',
         \A q \in Procs \ {p} : run'[q] = run[q] /\ pc'[q] = pc[q] /\ mem'[q] = mem[q]
  PROVE  IInv'
  BY DEF IInv, CacheInv

\* Question are pairs, so their parts are in their types.
LEMMA ChaseParts ==
  ASSUME NEW r \in Chase
  PROVE  /\ r.scan \subseteq Certs /\ r.level \in 0..(MaxDepth - 1) /\ r.todo \subseteq Question
         /\ r.now \in Question \cup {None} /\ r.out \subseteq Certs /\ r.put \subseteq Certs
         /\ r.file \in Certs \cup {None} /\ r.seenURL \subseteq URLs /\ r.seenCert \subseteq Certs
         /\ r.next \subseteq Certs /\ r.fetched \subseteq Fetched /\ r.failed \subseteq Question
  BY DEF Chase

LEMMA StartPreserves == ASSUME IInv, NEW p \in Procs, Start(p) PROVE IInv'
<1>1. PICK certs \in Scans : run' = [run EXCEPT ![p] = NewChase(certs)]
  BY DEF Start
<1>2. certs \subseteq Certs
  BY AIAAssumption
<1>3. NewChase(certs) \in Chase
  BY <1>2, AIAAssumption DEF NewChase, Chase, Questions, Question
<1>4. pc' = [pc EXCEPT ![p] = "chase"] /\ pc[p] = "idle" /\ UNCHANGED <<mem, index, der, faults>>
  BY DEF Start, To
<1>5. TypeOK'
  BY <1>1, <1>3, <1>4 DEF IInv, TypeOK
<1>6. run'[p] = NewChase(certs) /\ pc'[p] = "chase"
  BY <1>1, <1>4 DEF IInv, TypeOK
<1>7. RunInv(run'[p])
  BY <1>6, AIAAssumption DEF RunInv, NewChase, Questions, Attributed, Distinct, AllKept
<1>8. CacheInv(p)'
  BY <1>4, <1>6 DEF IInv, CacheInv, NewChase
<1>. QED
  BY <1>1, <1>4, <1>5, <1>7, <1>8, Local DEF IInv, TypeOK

LEMMA SkipPreserves == ASSUME IInv, NEW p \in Procs, Skip(p) PROVE IInv'
<1>1. PICK q \in run[p].todo : run' = [run EXCEPT ![p].todo = @ \ {q}]
  BY DEF Skip
<1>2. UNCHANGED <<pc, mem, index, der, faults>>
  BY DEF Skip
<1>3. run[p] \in Chase /\ run'[p] = [run[p] EXCEPT !.todo = @ \ {q}]
  BY <1>1 DEF IInv, TypeOK
<1>4. run'[p] \in Chase
  BY <1>3 DEF Chase
<1>5. TypeOK'
  BY <1>1, <1>2, <1>3, <1>4 DEF IInv, TypeOK, Chase
<1>6. RunInv(run'[p])
  BY <1>3 DEF IInv, RunInv, Attributed, Distinct, AllKept, Chase
<1>7. CacheInv(p)'
  BY <1>2, <1>3 DEF IInv, CacheInv, Chase
<1>. QED
  BY <1>1, <1>2, <1>5, <1>6, <1>7, Local DEF IInv, TypeOK

LEMMA AskPreserves ==
  ASSUME IInv, NEW p \in Procs, NEW q \in run[p].todo, NEW out \in SUBSET Candidates(q.url, q.cert),
         NEW to \in {"hit", "fetch"}, Ask(p, q, out, to)
  PROVE  IInv'
<1>. DEFINE r == run[p]
            s == [r EXCEPT !.todo = @ \ {q}, !.seenURL = @ \cup {q.url}, !.now = q, !.out = out]
<1>1. r \in Chase /\ q \in Question /\ q # None /\ q.url \in URLs /\ out \subseteq Certs
  <2>1. r \in Chase
    BY DEF IInv, TypeOK
  <2>2. q \in Question
    BY <2>1, ChaseParts
  <2>3. q # None /\ q.url \in URLs
    BY <2>2, AIAAssumption DEF Question
  <2>4. out \subseteq Certs
    BY <2>3, AIAAssumption DEF Candidates
  <2>. QED
    BY <2>1, <2>2, <2>3, <2>4
<1>2. run' = [run EXCEPT ![p] = s] /\ run'[p] = s
  <2>1. run' = [run EXCEPT ![p] = s]
    BY DEF Ask
  <2>. QED
    BY <2>1 DEF IInv, TypeOK
<1>3. s \in Chase
  BY <1>1 DEF Chase
<1>4. pc' = [pc EXCEPT ![p] = to] /\ pc[p] = "chase" /\ pc'[p] = to
  BY DEF Ask, To, IInv, TypeOK
<1>5. mem' = [mem EXCEPT ![p] = Loaded(p)] /\ UNCHANGED <<index, der, faults>>
  BY DEF Ask
<1>6. Loaded(p) \in Index /\ Honest(Loaded(p))
  BY DEF IInv, TypeOK, CacheInv, Loaded
<1>7. s.now # None
  BY <1>1 DEF Chase
<1>8. TypeOK'
  BY <1>2, <1>3, <1>4, <1>5, <1>6, <1>7 DEF IInv, TypeOK
<1>9. r.put = {} /\ s.put = {}
  BY <1>1, <1>4 DEF IInv, CacheInv, Chase
<1>11. RunInv(s)
  <2>1. /\ s.now = q /\ s.out = out /\ s.todo = r.todo \ {q} /\ s.scan = r.scan
        /\ s.seenCert = r.seenCert /\ s.next = r.next /\ s.fetched = r.fetched
    BY <1>1 DEF Chase
  <2>2. RunInv(r)
    BY DEF IInv
  <2>. QED
    BY <1>9, <2>1, <2>2 DEF RunInv, Attributed, Distinct, AllKept
<1>10. CacheInv(p)'
  BY <1>2, <1>4, <1>5, <1>6, <1>9, AIAAssumption DEF CacheInv, IInv, TypeOK
<1>. QED
  BY <1>2, <1>4, <1>5, <1>8, <1>10, <1>11, Local DEF IInv, TypeOK

\* A step that touches only the chase.
LEMMA ChaseStep ==
  ASSUME IInv, NEW p \in Procs, NEW s \in Chase, NEW to \in {"chase", "put"}, RunInv(s),
         to = "chase" => s.put = {}, to = "put" => s.now # None /\ mem[p] # None /\ s.out = Candidates(s.now.url, s.now.cert),
         run' = [run EXCEPT ![p] = s], pc' = [pc EXCEPT ![p] = to], UNCHANGED <<mem, index, der, faults>>
  PROVE  IInv'
<1>1. run'[p] = s /\ pc'[p] = to
  BY DEF IInv, TypeOK
<1>2. TypeOK'
  BY <1>1 DEF IInv, TypeOK
<1>3. CacheInv(p)'
  BY <1>1 DEF IInv, CacheInv
<1>. QED
  BY <1>1, <1>2, <1>3, Local DEF IInv, TypeOK

LEMMA FetchFailsPreserves == ASSUME IInv, NEW p \in Procs, FetchFails(p) PROVE IInv'
<1>. DEFINE r == run[p]
            s == [r EXCEPT !.failed = @ \cup {r.now}, !.now = None]
<1>1. r \in Chase /\ r.now # None /\ r.put = {} /\ RunInv(r)
  BY DEF FetchFails, To, IInv, TypeOK, CacheInv
<1>2. r.now \in Question
  BY <1>1, ChaseParts
<1>3. s \in Chase
  BY <1>1, <1>2 DEF Chase
<1>4. run' = [run EXCEPT ![p] = s]
  <2>1. run' = [run EXCEPT ![p].failed = @ \cup {r.now}, ![p].now = None]
    BY DEF FetchFails
  <2>. QED
    BY <1>1, <2>1 DEF IInv, TypeOK, Chase
<1>5. RunInv(s) /\ s.put = {}
  <2>1. /\ s.now = None /\ s.out = r.out /\ s.put = r.put /\ s.todo = r.todo /\ s.scan = r.scan
        /\ s.seenCert = r.seenCert /\ s.next = r.next /\ s.fetched = r.fetched
    BY <1>1 DEF Chase
  <2>. QED
    BY <1>1, <2>1 DEF RunInv, Attributed, Distinct, AllKept
<1>. QED
  BY <1>3, <1>4, <1>5, ChaseStep DEF FetchFails, To

LEMMA FetchPreserves == ASSUME IInv, NEW p \in Procs, Fetch(p) PROVE IInv'
<1>. DEFINE r == run[p]
            usable == Usable(r.now.url, r.now.cert)
            s == [r EXCEPT !.out = usable, !.put = IF p \in Caching THEN usable ELSE {}]
<1>1. r \in Chase /\ r.now # None /\ RunInv(r) /\ mem[p] # None
  BY DEF Fetch, To, IInv, TypeOK, CacheInv
<1>2. r.now \in Question
  BY <1>1, ChaseParts
<1>3. usable \subseteq Certs /\ usable = Candidates(r.now.url, r.now.cert)
  BY <1>2, AIAAssumption DEF Question, Usable, Candidates
<1>4. s \in Chase
  BY <1>1, <1>3 DEF Chase
<1>5. run' = [run EXCEPT ![p] = s]
  BY <1>1 DEF Fetch, IInv, TypeOK, Chase
<1>6. /\ s.now = r.now /\ s.out = usable /\ s.put \subseteq usable /\ s.todo = r.todo /\ s.scan = r.scan
      /\ s.seenCert = r.seenCert /\ s.next = r.next /\ s.fetched = r.fetched
  BY <1>1 DEF Chase
<1>7. RunInv(s)
  BY <1>1, <1>3, <1>6 DEF RunInv, Attributed, Distinct, AllKept
<1>. QED
  <2>1. pc' = [pc EXCEPT ![p] = "put"] /\ UNCHANGED <<mem, index, der, faults>>
    BY DEF Fetch, To
  <2>2. s.now # None /\ s.out = Candidates(s.now.url, s.now.cert)
    BY <1>1, <1>3, <1>6
  <2>. HIDE DEF s
  <2>. QED
    BY <1>1, <1>4, <1>5, <1>7, <2>1, <2>2, ChaseStep

LEMMA KeepPreserves ==
  ASSUME IInv, NEW p \in Procs, NEW from \in {"hit", "put"}, NEW source \in Sources, Keep(p, from, source),
         source = "fetched" => from = "put"
  PROVE  IInv'
<1>. DEFINE r == run[p]
            certs == Unseen(r)
            new == Found(r, source)
            s == [r EXCEPT !.fetched = @ \cup new, !.seenCert = @ \cup certs, !.next = @ \cup certs,
                           !.out = {}, !.now = None]
<1>1. r \in Chase /\ r.now # None /\ RunInv(r) /\ r.put = {}
  <2>1. pc[p] = from /\ r.put = {}
    BY DEF Keep, To
  <2>. QED
    BY <2>1 DEF IInv, TypeOK
<1>2. r.now.url \in URLs /\ r.now.cert \in Certs /\ r.out \subseteq Certs
  BY <1>1, ChaseParts DEF Question
<1>3. certs \subseteq Certs /\ certs \subseteq Candidates(r.now.url, r.now.cert) /\ certs \cap r.seenCert = {}
  BY <1>1, <1>2 DEF Unseen, RunInv
<1>4. new \subseteq Fetched
  BY <1>2, <1>3 DEF Fetched, Found
<1>5. s \in Chase
  <2>. HIDE DEF certs
  <2>. QED
    BY <1>1, <1>3, <1>4 DEF Chase
<1>6. run' = [run EXCEPT ![p] = s]
  BY DEF Keep
<1>7. /\ s.now = None /\ s.put = {} /\ s.out = {} /\ s.todo = r.todo /\ s.scan = r.scan
      /\ s.seenCert = r.seenCert \cup certs /\ s.next = r.next \cup certs /\ s.fetched = r.fetched \cup new
  BY <1>1 DEF Chase
<1>8. \A f \in new : f.cert \in certs /\ f.url = r.now.url /\ f.for = r.now.cert /\ f.source = source
  BY DEF Found
<1>9. r.scan \subseteq r.seenCert /\ \A f \in r.fetched : f.cert \in r.seenCert
  BY <1>1 DEF RunInv
<1>10. Attributed(s)
  BY <1>1, <1>3, <1>7, <1>8 DEF RunInv, Attributed
<1>11. \A f, g \in new : f.cert = g.cert => f = g
  BY DEF Found
<1>12. Distinct(s)
  <2>1. \A f \in s.fetched : f.cert \notin s.scan
    BY <1>1, <1>3, <1>7, <1>8, <1>9 DEF RunInv, Distinct
  <2>2. \A f, g \in s.fetched : f.cert = g.cert => f = g
    BY <1>1, <1>3, <1>7, <1>8, <1>9, <1>11 DEF RunInv, Distinct
  <2>. QED
    BY <2>1, <2>2 DEF Distinct
<1>13. AllKept(s)
  <2>1. source = "fetched" => r.out = Candidates(r.now.url, r.now.cert)
    BY DEF Keep, To, IInv, CacheInv
  <2>2. source = "fetched" => Candidates(r.now.url, r.now.cert) \subseteq s.seenCert
    BY <1>7, <2>1 DEF Unseen
  <2>. HIDE DEF certs, new
  <2>. QED
    BY <1>1, <1>7, <1>8, <2>2 DEF RunInv, AllKept
<1>14. s.seenCert = s.scan \cup {f.cert : f \in s.fetched}
  <2>1. \A c \in certs : \E f \in new : f.cert = c
    <3>1. ASSUME NEW c \in certs
          PROVE  [cert |-> c, url |-> r.now.url, for |-> r.now.cert, source |-> source] \in new
      BY DEF Found
    <3>. QED
      BY <3>1
  <2>2. \A f \in new : f.cert \in certs
    BY <1>8
  <2>. HIDE DEF certs
  <2>. QED
    BY <1>1, <1>7, <2>1, <2>2 DEF RunInv
<1>15. RunInv(s)
  BY <1>1, <1>7, <1>10, <1>12, <1>13, <1>14 DEF RunInv
<1>. QED
  <2>1. pc' = [pc EXCEPT ![p] = "chase"] /\ UNCHANGED <<mem, index, der, faults>>
    BY DEF Keep, To
  <2>. HIDE DEF s
  <2>. QED
    BY <1>5, <1>6, <1>7, <1>15, <2>1, ChaseStep

LEMMA NextLevelPreserves == ASSUME IInv, NEW p \in Procs, NextLevel(p) PROVE IInv'
<1>. DEFINE r == run[p]
            s == [r EXCEPT !.level = @ + 1, !.todo = Questions(r.next), !.next = {}]
<1>1. r \in Chase /\ RunInv(r) /\ r.put = {} /\ pc[p] = "chase"
  BY DEF NextLevel, IInv, TypeOK, CacheInv
<1>2. r.level + 1 \in 0..(MaxDepth - 1)
  <2>1. r.level \in 0..(MaxDepth - 1) /\ r.level + 1 < MaxDepth
    BY <1>1, ChaseParts DEF NextLevel, Deeper
  <2>. QED
    BY <2>1, AIAAssumption
<1>3. s \in Chase
  <2>1. Questions(r.next) \in SUBSET Question
    BY DEF Questions
  <2>. QED
    BY <1>1, <1>2, <2>1 DEF Chase
<1>4. run' = [run EXCEPT ![p] = s] /\ pc' = [pc EXCEPT ![p] = "chase"]
  BY <1>1 DEF NextLevel, IInv, TypeOK, Chase
<1>5. /\ s.now = r.now /\ s.put = {} /\ s.out = r.out /\ s.todo = Questions(r.next) /\ s.scan = r.scan
      /\ s.seenCert = r.seenCert /\ s.next = {} /\ s.fetched = r.fetched
  BY <1>1 DEF Chase
<1>6. RunInv(s)
  BY <1>1, <1>5 DEF RunInv, Attributed, Distinct, AllKept, Questions
<1>. QED
  BY <1>3, <1>4, <1>5, <1>6, ChaseStep DEF NextLevel

\* A step that leaves the chases alone, and the index honest.
LEMMA CacheStep ==
  ASSUME IInv, NEW p \in Procs, run' = run, TypeOK', Honest(index'), CacheInv(p)',
         \A q \in Procs \ {p} : pc'[q] = pc[q] /\ mem'[q] = mem[q]
  PROVE  IInv'
  BY Local DEF IInv

LEMMA OpenFilePreserves == ASSUME IInv, NEW p \in Procs, OpenFile(p) PROVE IInv'
<1>1. PICK c \in run[p].put : der' = der \ {c} /\ run' = [run EXCEPT ![p].put = @ \ {c}, ![p].file = c]
  BY DEF OpenFile
<1>. DEFINE r == run[p]
            s == [r EXCEPT !.put = @ \ {c}, !.file = c]
<1>2. r \in Chase /\ r.now # None /\ RunInv(r)
  BY DEF OpenFile, To, IInv, TypeOK
<1>3. c \in Certs /\ c # None /\ c \in Published[r.now.url]
  <2>1. c \in Certs
    BY <1>2, ChaseParts
  <2>. QED
    BY <1>2, <2>1, AIAAssumption DEF RunInv, Candidates
<1>4. s \in Chase
  BY <1>2, <1>3 DEF Chase
<1>5. run' = [run EXCEPT ![p] = s] /\ run'[p] = s
  BY <1>1, <1>2 DEF IInv, TypeOK, Chase
<1>6. /\ s.now = r.now /\ s.put = r.put \ {c} /\ s.file = c /\ s.out = r.out /\ s.todo = r.todo
      /\ s.scan = r.scan /\ s.seenCert = r.seenCert /\ s.next = r.next /\ s.fetched = r.fetched
  BY <1>2 DEF Chase
<1>7. pc' = [pc EXCEPT ![p] = "file"] /\ pc[p] = "put" /\ UNCHANGED <<mem, index, faults>>
  BY DEF OpenFile, To
<1>8. mem[p] # None
  BY <1>7 DEF IInv, CacheInv
<1>9. TypeOK'
  BY <1>1, <1>2, <1>3, <1>4, <1>5, <1>6, <1>7, <1>8 DEF IInv, TypeOK
<1>10. RunInv(s)
  BY <1>2, <1>6 DEF RunInv, Attributed, Distinct, AllKept
<1>11. CacheInv(p)'
  BY <1>3, <1>5, <1>6, <1>7 DEF IInv, TypeOK, CacheInv
<1>. QED
  BY <1>5, <1>7, <1>9, <1>10, <1>11, Local DEF IInv, TypeOK

LEMMA WriteFilePreserves == ASSUME IInv, NEW p \in Procs, WriteFile(p) PROVE IInv'
<1>. DEFINE r == run[p]
            x == [mem[p] EXCEPT ![r.now.url] = r.file]
<1>1. /\ pc[p] = "file" /\ pc' = [pc EXCEPT ![p] = "filed"] /\ der' = der \cup {r.file}
      /\ UNCHANGED <<run, index, faults>>
  BY DEF WriteFile, To
<1>2. mem' = [mem EXCEPT ![p] = x]
  BY DEF WriteFile
<1>3. r \in Chase /\ r.now # None /\ r.file # None /\ mem[p] # None /\ r.file \in Published[r.now.url]
  BY <1>1 DEF IInv, TypeOK, CacheInv
<1>4. r.file \in Certs /\ r.now.url \in URLs
  BY <1>3, ChaseParts DEF Question
<1>5. mem[p] \in Index /\ Honest(mem[p])
  BY <1>3 DEF IInv, TypeOK, CacheInv
<1>6. x \in Index /\ x # None /\ Honest(x)
  BY <1>3, <1>4, <1>5, AIAAssumption DEF Index, Honest
<1>7. TypeOK'
  BY <1>1, <1>2, <1>4, <1>6 DEF IInv, TypeOK
<1>8. CacheInv(p)'
  BY <1>1, <1>2, <1>3, <1>6 DEF IInv, TypeOK, CacheInv
<1>. QED
  BY <1>1, <1>2, <1>7, <1>8, CacheStep DEF IInv, TypeOK

LEMMA EmptyHonest == Empty \in Index /\ Honest(Empty)
  BY DEF Empty, Index, Honest

LEMMA OpenIndexPreserves == ASSUME IInv, NEW p \in Procs, OpenIndex(p) PROVE IInv'
<1>1. /\ pc[p] = "filed" /\ pc' = [pc EXCEPT ![p] = "index"] /\ index' = Empty
      /\ UNCHANGED <<run, mem, der, faults>>
  BY DEF OpenIndex, To
<1>2. TypeOK'
  BY <1>1, EmptyHonest DEF IInv, TypeOK
<1>3. CacheInv(p)'
  BY <1>1 DEF IInv, TypeOK, CacheInv
<1>. QED
  BY <1>1, <1>2, <1>3, EmptyHonest, CacheStep DEF IInv, TypeOK

LEMMA WriteIndexPreserves == ASSUME IInv, NEW p \in Procs, WriteIndex(p) PROVE IInv'
<1>1. /\ pc[p] = "index" /\ pc' = [pc EXCEPT ![p] = "put"] /\ index' = mem[p]
      /\ UNCHANGED <<run, mem, der, faults>>
  BY DEF WriteIndex, To
<1>2. mem[p] \in Index /\ Honest(mem[p]) /\ mem[p] # None
  BY <1>1 DEF IInv, TypeOK, CacheInv
<1>3. TypeOK'
  BY <1>1, <1>2 DEF IInv, TypeOK
<1>4. CacheInv(p)'
  BY <1>1, <1>2 DEF IInv, TypeOK, CacheInv
<1>. QED
  BY <1>1, <1>2, <1>3, <1>4, CacheStep DEF IInv, TypeOK

LEMMA FaultTyped == ASSUME IInv, Fault PROVE faults' \in 0..MaxFaults
  BY AIAAssumption DEF IInv, TypeOK, Fault

LEMMA PutFailsPreserves == ASSUME IInv, NEW p \in Procs, PutFails(p) PROVE IInv'
<1>1. UNCHANGED <<mem, index, der>> /\ faults' \in 0..MaxFaults
  BY FaultTyped DEF PutFails
<1>2. CASE pc[p] = "put" /\ pc' = pc /\ \E c \in run[p].put : run' = [run EXCEPT ![p].put = @ \ {c}]
  <2>1. PICK c \in run[p].put : run' = [run EXCEPT ![p].put = @ \ {c}]
    BY <1>2
  <2>. DEFINE r == run[p]
              s == [r EXCEPT !.put = @ \ {c}]
  <2>2. r \in Chase /\ r.now # None /\ RunInv(r)
    BY <1>2 DEF IInv, TypeOK
  <2>3. s \in Chase
    BY <2>2 DEF Chase
  <2>4. run' = [run EXCEPT ![p] = s] /\ run'[p] = s
    BY <2>1, <2>2 DEF IInv, TypeOK, Chase
  <2>5. /\ s.now = r.now /\ s.put = r.put \ {c} /\ s.out = r.out /\ s.todo = r.todo
        /\ s.scan = r.scan /\ s.seenCert = r.seenCert /\ s.next = r.next /\ s.fetched = r.fetched
    BY <2>2 DEF Chase
  <2>6. TypeOK'
    BY <1>1, <1>2, <2>2, <2>3, <2>4, <2>5 DEF IInv, TypeOK
  <2>7. RunInv(s)
    BY <2>2, <2>5 DEF RunInv, Attributed, Distinct, AllKept
  <2>8. CacheInv(p)'
    BY <1>1, <1>2, <2>4, <2>5 DEF IInv, TypeOK, CacheInv
  <2>. QED
    BY <1>1, <1>2, <2>4, <2>6, <2>7, <2>8, Local DEF IInv, TypeOK
<1>3. CASE pc[p] \in {"file", "filed", "index"} /\ pc' = [pc EXCEPT ![p] = "put"] /\ run' = run
  <2>1. TypeOK'
    BY <1>1, <1>3 DEF IInv, TypeOK
  <2>2. CacheInv(p)'
    BY <1>1, <1>3 DEF IInv, TypeOK, CacheInv
  <2>. QED
    BY <1>1, <1>3, <2>1, <2>2, CacheStep DEF IInv, TypeOK
<1>. QED
  BY <1>2, <1>3 DEF PutFails

LEMMA CrashPreserves == ASSUME IInv, NEW p \in Procs, Crash(p) PROVE IInv'
<1>1. pc' = [pc EXCEPT ![p] = "dead"] /\ UNCHANGED <<run, mem, index, der>> /\ faults' \in 0..MaxFaults
  BY FaultTyped DEF Crash
<1>2. TypeOK'
  BY <1>1 DEF IInv, TypeOK
<1>3. CacheInv(p)'
  BY <1>1 DEF IInv, TypeOK, CacheInv
<1>. QED
  BY <1>1, <1>2, <1>3, CacheStep DEF IInv, TypeOK

LEMMA FinishPreserves == ASSUME IInv, NEW p \in Procs, Finish(p) PROVE IInv'
<1>1. pc' = [pc EXCEPT ![p] = "done"] /\ UNCHANGED <<run, mem, index, der, faults>>
  BY DEF Finish, To
<1>2. TypeOK'
  BY <1>1 DEF IInv, TypeOK
<1>3. CacheInv(p)'
  BY <1>1 DEF IInv, TypeOK, CacheInv
<1>. QED
  BY <1>1, <1>2, <1>3, CacheStep DEF IInv, TypeOK

LEMMA ClearPreserves == ASSUME IInv, Clear PROVE IInv'
<1>1. /\ der' \subseteq der /\ index' \in {index, Empty} /\ UNCHANGED <<pc, run, mem>>
      /\ faults' \in 0..MaxFaults
  BY FaultTyped DEF Clear
<1>2. TypeOK' /\ Honest(index')
  BY <1>1, EmptyHonest DEF IInv, TypeOK
<1>. QED
  BY <1>1, <1>2 DEF IInv, CacheInv

-----------------------------------------------------------------------------

LEMMA InitEstablishes == Init => IInv
<1> SUFFICES ASSUME Init PROVE IInv
  OBVIOUS
<1>1. NewChase({}) \in Chase /\ RunInv(NewChase({}))
  <2>1. Questions({}) = {}
    BY DEF Questions
  <2>. QED
    BY <2>1, AIAAssumption DEF NewChase, Chase, RunInv, Attributed, Distinct, AllKept
<1>2. TypeOK
  BY <1>1, EmptyHonest, AIAAssumption DEF Init, TypeOK
<1>3. \A p \in Procs : RunInv(run[p]) /\ CacheInv(p)
  BY <1>1 DEF Init, CacheInv, NewChase
<1>. QED
  BY <1>2, <1>3, EmptyHonest DEF Init, IInv

LEMMA StepPreserves == IInv /\ [Next]_vars => IInv'
<1> SUFFICES ASSUME IInv, [Next]_vars PROVE IInv'
  OBVIOUS
<1>1. ASSUME NEW p \in Procs, AskCache(p) PROVE IInv'
  <2>1. PICK q \in run[p].todo : Hit(q, Loaded(p)[q.url]) /\ Ask(p, q, {Loaded(p)[q.url]}, "hit")
    BY <1>1 DEF AskCache
  <2>. DEFINE c == Loaded(p)[q.url]
  <2>2. q \in Question
    <3>1. run[p] \in Chase
      BY DEF IInv, TypeOK
    <3>. QED
      BY <3>1, ChaseParts
  <2>3. Honest(Loaded(p))
    BY DEF IInv, CacheInv, Loaded
  <2>4. c \in Candidates(q.url, q.cert)
    BY <2>1, <2>2, <2>3 DEF Hit, Honest, Candidates, Question
  <2>. QED
    BY <2>1, <2>4, AskPreserves
<1>2. ASSUME NEW p \in Procs, AskServer(p) PROVE IInv'
  BY <1>2, AskPreserves DEF AskServer
<1>3. ASSUME NEW p \in Procs, KeepCached(p) \/ KeepFetched(p) PROVE IInv'
  BY <1>3, KeepPreserves DEF KeepCached, KeepFetched, Sources
<1>4. CASE UNCHANGED vars
  BY <1>4 DEF vars, IInv, TypeOK, CacheInv
<1>. QED
  BY <1>1, <1>2, <1>3, <1>4, StartPreserves, SkipPreserves, FetchFailsPreserves, FetchPreserves,
     NextLevelPreserves, FinishPreserves, OpenFilePreserves, WriteFilePreserves, OpenIndexPreserves,
     WriteIndexPreserves, PutFailsPreserves, CrashPreserves, ClearPreserves DEF Next

\* The invariant holds of every behaviour.
THEOREM Invariant == Spec => []IInv
  BY InitEstablishes, StepPreserves, PTL DEF Spec

\* Every variable stays in its type; in particular no level beyond MaxDepth is
\* begun, and an answer in hand always has its question (ChaseAIA, Put).
THEOREM TypeCorrect == Spec => []TypeOK
  BY Invariant, PTL DEF IInv

\* resolveAIAURL and FileAIACache: what a chase returns was published where it
\* says and signed what it says, for any cache contents that crashes, overlapping
\* invocations and clearings can lead to.
THEOREM AlwaysSound == Spec => []Sound
<1>1. IInv => Sound
  BY DEF IInv, RunInv, Attributed, Sound
<1>. QED
  BY <1>1, Invariant, PTL

\* seenCert: nothing is returned twice or beside a copy in the scan.
THEOREM AlwaysDistinct == Spec => []NoDuplicates
<1>1. IInv => NoDuplicates
  BY DEF IInv, RunInv, Distinct, NoDuplicates
<1>. QED
  BY <1>1, Invariant, PTL

\* "Every candidate at a hop is kept": of an answer that came from the server
\* nothing that signed the requester is dropped, whatever the cache does with it.
THEOREM AlwaysKept == Spec => []CandidatesKept
<1>1. IInv => CandidatesKept
  BY DEF IInv, RunInv, AllKept, CandidatesKept
<1>. QED
  BY <1>1, Invariant, PTL

\* The three, with the types: what a chase returns can be relied on.
THEOREM AlwaysTrue == Spec => []FetchedIsTrue
  BY TypeCorrect, AlwaysSound, AlwaysDistinct, AlwaysKept, PTL DEF FetchedIsTrue
-----------------------------------------------------------------------------
(* How far a chase goes.                                                   *)

\* Every nonempty set of numbers has a least one: induction by least counterexample.
LEMMA Least == ASSUME NEW T, T \subseteq Nat, T # {} PROVE \E n \in T : \A k \in T : n <= k
<1> DEFINE R == OpToRel(<, Nat)
<1>1. IsWellFoundedOn(R, Nat)
  BY NatLessThanWellFounded
<1>2. \A x, y \in Nat : <<y, x>> \in R <=> y < x
  BY DEF OpToRel
<1> HIDE DEF R
<1>3. \E x \in T : \A y \in T : ~ (<<y, x>> \in R)
  BY <1>1, WFMin, Zenon
<1>4. \A x, y \in T : <<y, x>> \in R <=> y < x
  BY <1>2
<1>5. PICK x \in T : \A y \in T : ~ (y < x)
  BY <1>3, <1>4
<1>6. \A y \in T : x <= y
  BY <1>5
<1> QED
  BY <1>6

Signers(certs) == {i \in Certs : \E c \in certs : <<i, c>> \in Signed}
Climbs(up, certs, N) == \A n \in 0..N : up[n] = IF n = 0 THEN certs ELSE up[n - 1] \cup Signers(up[n - 1])

LEMMA ClimbExists == ASSUME NEW certs, NEW N \in Nat PROVE \E up : up = [n \in 0..N |-> up[n]] /\ Climbs(up, certs, N)
<1> DEFINE Fine(up, n) == up = [m \in 0..n |-> up[m]] /\ Climbs(up, certs, n)
           T == {n \in Nat : ~ \E up : Fine(up, n)}
<1> SUFFICES ASSUME T # {} PROVE FALSE
  OBVIOUS
<1>1. PICK n \in T : \A m \in T : n <= m
  <2>1. T \subseteq Nat
    OBVIOUS
  <2> HIDE DEF T
  <2> QED
    BY <2>1, Least
<1>2. CASE n = 0
  <2> DEFINE up == [m \in 0..0 |-> certs]
  <2>1. Fine(up, 0)
    BY DEF Climbs
  <2> QED
    BY <1>2, <2>1
<1>3. CASE n # 0
  <2>1. n \in Nat /\ n - 1 \in Nat /\ n - 1 \notin T
    BY <1>1, <1>3
  <2>2. PICK up : Fine(up, n - 1)
    BY <2>1
  <2> DEFINE higher == [m \in 0..n |-> IF m = n THEN up[n - 1] \cup Signers(up[n - 1]) ELSE up[m]]
  <2>3. \A m \in 0..(n - 1) : higher[m] = up[m] /\ (m # 0 => higher[m - 1] = up[m - 1])
    BY <2>1
  <2>4. higher[n] = up[n - 1] \cup Signers(up[n - 1]) /\ higher[n - 1] = up[n - 1] /\ higher = [m \in 0..n |-> higher[m]]
    BY <2>1
  <2> HIDE DEF higher
  <2>5. \A m \in 0..n : m = n \/ m \in 0..(n - 1)
    BY <2>1
  <2>6. Climbs(higher, certs, n)
    BY <1>3, <2>1, <2>2, <2>3, <2>4, <2>5 DEF Climbs
  <2>7. Fine(higher, n)
    BY <2>4, <2>6
  <2> QED
    BY <2>7
<1> QED
  BY <1>2, <1>3

LEMMA LevelsClimb == ASSUME NEW certs PROVE Climbs(Levels(certs), certs, MaxDepth)
<1> DEFINE Def(up) == [n \in 0..MaxDepth |-> IF n = 0 THEN certs
                                              ELSE up[n - 1] \cup {i \in Certs : \E c \in up[n - 1] : <<i, c>> \in Signed}]
           levels == CHOOSE up : up = Def(up)
<1>1. MaxDepth \in Nat
  BY AIAAssumption
<1>2. \E up : up = Def(up)
  <2>1. PICK up : up = [n \in 0..MaxDepth |-> up[n]] /\ Climbs(up, certs, MaxDepth)
    BY <1>1, ClimbExists
  <2>2. up = Def(up)
    BY <2>1 DEF Climbs, Signers
  <2> QED
    BY <2>2
<1>3. levels = Def(levels)
  BY <1>2, Zenon
<1>4. Levels(certs) = levels
  BY Zenon DEF Levels
<1> HIDE DEF levels
<1>5. Climbs(levels, certs, MaxDepth)
  BY <1>3 DEF Climbs, Signers
<1> QED
  BY <1>4, <1>5

LEMMA LevelUp ==
  ASSUME NEW certs
  PROVE  /\ Levels(certs)[0] = certs
         /\ \A n \in 0..(MaxDepth - 1) : Levels(certs)[n + 1] = Levels(certs)[n] \cup Signers(Levels(certs)[n])
<1> DEFINE up == Levels(certs)
<1>1. Climbs(up, certs, MaxDepth) /\ MaxDepth \in Nat
  BY LevelsClimb, AIAAssumption
<1> HIDE DEF up
<1>2. up[0] = certs
  <2>1. 0 \in 0..MaxDepth
    BY <1>1
  <2> QED
    BY <1>1, <2>1 DEF Climbs
<1>3. ASSUME NEW n \in 0..(MaxDepth - 1) PROVE up[n + 1] = up[n] \cup Signers(up[n])
  <2>1. n + 1 \in 0..MaxDepth /\ n + 1 # 0 /\ (n + 1) - 1 = n
    BY <1>1
  <2> QED
    BY <1>1, <2>1 DEF Climbs
<1> QED
  BY <1>2, <1>3 DEF up

LEMMA LevelsWithin ==
  ASSUME NEW certs, NEW n \in 0..MaxDepth
  PROVE  Levels(certs)[n] \subseteq Above(certs)
<1> DEFINE up == Levels(certs)
           T == {k \in Nat : k <= MaxDepth /\ ~(up[MaxDepth - k] \subseteq up[MaxDepth])}
<1>1. MaxDepth \in Nat
  BY AIAAssumption
<1>2. T = {}
  <2> SUFFICES ASSUME T # {} PROVE FALSE
    OBVIOUS
  <2>1. PICK k \in T : \A m \in T : k <= m
    <3>1. T \subseteq Nat
      OBVIOUS
    <3> HIDE DEF T
    <3> QED
      BY <3>1, Least
  <2>2. k \in Nat /\ k <= MaxDepth /\ ~(up[MaxDepth - k] \subseteq up[MaxDepth])
    OBVIOUS
  <2>3. k # 0
    BY <1>1, <2>2
  <2>4. k - 1 \in Nat /\ k - 1 <= MaxDepth /\ k - 1 \notin T
    BY <1>1, <2>1, <2>2, <2>3
  <2>5. up[MaxDepth - (k - 1)] \subseteq up[MaxDepth]
    BY <2>4
  <2>6. MaxDepth - k \in 0..(MaxDepth - 1) /\ MaxDepth - (k - 1) = (MaxDepth - k) + 1
    BY <1>1, <2>2, <2>3
  <2> HIDE DEF up
  <2>7. up[MaxDepth - k] \subseteq up[(MaxDepth - k) + 1]
    BY <2>6, LevelUp DEF up
  <2> QED
    BY <2>2, <2>5, <2>6, <2>7
<1>3. MaxDepth - n \in Nat /\ MaxDepth - n <= MaxDepth /\ MaxDepth - (MaxDepth - n) = n /\ MaxDepth - n \notin T
  BY <1>1, <1>2
<1> QED
  BY <1>3 DEF Above

\* Where the chase r of an invocation at c has got to: how high its certificates and its
\* questions are, and that each question of a certificate it knows is put off to the next
\* level, in hand, or about a URL that was asked.
Asked(r, u) == \E q \in Question : q.url = u /\ u \in AIA[q.cert] /\ (q = r.now \/ Settled(r, q))
InBounds(r) ==
  /\ r.seenCert \subseteq Levels(r.scan)[r.level + 1]
  /\ \A q \in r.todo : q.cert \in Levels(r.scan)[r.level]
  /\ r.now # None => r.now.cert \in Levels(r.scan)[r.level]
Covered(r) ==
  /\ \A q \in Questions(r.seenCert) : q.cert \in r.next \/ q \in r.todo \/ q.url \in r.seenURL
  /\ \A u \in r.seenURL : Asked(r, u)
InHand(r, c) ==
  /\ c \in {"idle", "chase", "done"} => r.now = None
  /\ c = "done" => r.todo = {}
  /\ c \in {"hit", "put", "file", "filed", "index"} => r.out # {}
Far(r, c) == InBounds(r) /\ Covered(r) /\ InHand(r, c)

FarInv == \A p \in Procs : Far(run[p], pc[p])

LEMMA FarIsEnough == IInv /\ FarInv => AsFarAsItMay
<1> SUFFICES ASSUME IInv, FarInv, NEW p \in Procs
             PROVE  /\ run[p].seenCert \subseteq Above(run[p].scan)
                    /\ pc[p] = "done" /\ run[p].next = {} =>
                         \A q \in Questions(run[p].seenCert) : Agree(q) => Settled(run[p], q)
  BY DEF AsFarAsItMay, DepthBound, NothingLeftOpen
<1> DEFINE r == run[p]
<1>1. r \in Chase /\ Far(r, pc[p])
  BY DEF IInv, TypeOK, FarInv
<1>2. r.level + 1 \in 0..MaxDepth
  BY <1>1, ChaseParts, AIAAssumption
<1>3. r.seenCert \subseteq Above(r.scan)
  BY <1>1, <1>2, LevelsWithin DEF Far, InBounds
<1>4. ASSUME pc[p] = "done", r.next = {}, NEW q \in Questions(r.seenCert), Agree(q) PROVE Settled(r, q)
  <2>1. r.now = None /\ r.todo = {}
    BY <1>1, <1>4 DEF Far, InHand
  <2>2. Asked(r, q.url)
    BY <1>1, <1>4, <2>1 DEF Far, Covered
  <2>3. PICK asked \in Question : asked.url = q.url /\ q.url \in AIA[asked.cert] /\ (asked = r.now \/ Settled(r, asked))
    BY <2>2 DEF Asked
  <2>4. Settled(r, asked)
    BY <2>1, <2>3, AIAAssumption
  <2>5. Candidates(q.url, asked.cert) = Candidates(q.url, q.cert)
    BY <1>4, <2>3 DEF Agree, Question
  <2> QED
    BY <2>3, <2>4, <2>5 DEF Settled
<1> QED
  BY <1>3, <1>4

LEMMA FarStart == ASSUME NEW certs \in SUBSET Certs, NEW c \in {"idle", "chase"} PROVE Far(NewChase(certs), c)
<1> DEFINE r == NewChase(certs)
<1>1. /\ r.scan = certs /\ r.level = 0 /\ r.todo = Questions(certs) /\ r.now = None
      /\ r.seenURL = {} /\ r.seenCert = certs /\ r.next = {}
  BY DEF NewChase
<1> HIDE DEF r
<1>2. 0 \in 0..(MaxDepth - 1) /\ 0 + 1 = 1
  BY AIAAssumption
<1>3. Levels(certs)[0] = certs /\ certs \subseteq Levels(certs)[0 + 1]
  BY <1>2, LevelUp
<1>4. InBounds(r)
  BY <1>1, <1>2, <1>3 DEF InBounds, Questions
<1>5. Covered(r) /\ InHand(r, c)
  BY <1>1 DEF Covered, InHand
<1> QED
  BY <1>4, <1>5 DEF Far, r

\* What is settled stays so while the certificates and the failures grow.
LEMMA SettledStays ==
  ASSUME NEW r, NEW s, r.seenCert \subseteq s.seenCert, r.failed \subseteq s.failed, NEW q, Settled(r, q)
  PROVE  Settled(s, q)
BY DEF Settled

\* A step on the questions of the level.
LEMMA FarAsks ==
  ASSUME NEW r \in Chase, NEW s \in Chase, NEW c, NEW d, Far(r, c), NEW q \in r.todo, r.now = None,
         RunInv(r), InHand(s, d),
         s.scan = r.scan, s.level = r.level, s.seenCert = r.seenCert, s.next = r.next, s.failed = r.failed,
         s.todo = r.todo \ {q}, s.seenURL = r.seenURL \cup {q.url}, s.now = q
  PROVE  Far(s, d)
<1>1. q \in Question /\ q.url \in AIA[q.cert]
  BY ChaseParts DEF RunInv
<1>2. InBounds(s)
  BY DEF Far, InBounds
<1>3. ASSUME NEW u \in r.seenURL PROVE Asked(s, u)
  <2>1. PICK asked \in Question : asked.url = u /\ u \in AIA[asked.cert] /\ (asked = r.now \/ Settled(r, asked))
    BY DEF Far, Covered, Asked
  <2>2. Settled(s, asked)
    BY <2>1, AIAAssumption DEF Settled
  <2> QED
    BY <2>1, <2>2 DEF Asked
<1>4. Asked(s, q.url)
  BY <1>1 DEF Asked
<1>5. Covered(s)
  BY <1>3, <1>4 DEF Far, Covered
<1> QED
  BY <1>2, <1>5 DEF Far

\* A step that leaves the questions alone and lets go of the one in hand only when it is settled.
LEMMA FarGoesOn ==
  ASSUME NEW r \in Chase, NEW s \in Chase, NEW c, NEW d, Far(r, c), InHand(s, d),
         s.scan = r.scan, s.level = r.level, s.todo = r.todo, s.seenURL = r.seenURL,
         r.seenCert \subseteq s.seenCert, r.failed \subseteq s.failed, r.next \subseteq s.next,
         s.seenCert \ r.seenCert \subseteq s.next,
         s.seenCert \ r.seenCert \subseteq Levels(r.scan)[r.level + 1],
         s.now = r.now \/ (s.now = None /\ Settled(s, r.now))
  PROVE  Far(s, d)
<1>1. InBounds(s)
  BY DEF Far, InBounds
<1>2. ASSUME NEW u \in s.seenURL PROVE Asked(s, u)
  <2>1. PICK asked \in Question : asked.url = u /\ u \in AIA[asked.cert] /\ (asked = r.now \/ Settled(r, asked))
    BY DEF Far, Covered, Asked
  <2>2. asked = s.now \/ Settled(s, asked)
    BY <2>1, SettledStays
  <2> QED
    BY <2>1, <2>2 DEF Asked
<1>3. ASSUME NEW q \in Questions(s.seenCert) PROVE q.cert \in s.next \/ q \in s.todo \/ q.url \in s.seenURL
  <2>1. CASE q.cert \in r.seenCert
    <3>1. q \in Questions(r.seenCert)
      BY <2>1 DEF Questions
    <3> QED
      BY <3>1 DEF Far, Covered
  <2>2. CASE q.cert \notin r.seenCert
    BY <2>2 DEF Questions
  <2> QED
    BY <2>1, <2>2
<1> QED
  BY <1>1, <1>2, <1>3 DEF Far, Covered

LEMMA FarDeeper ==
  ASSUME NEW r \in Chase, NEW s \in Chase, Far(r, "chase"), RunInv(r), r.todo = {}, r.level + 1 < MaxDepth,
         s.scan = r.scan, s.level = r.level + 1, s.todo = Questions(r.next), s.next = {}, s.now = r.now,
         s.seenCert = r.seenCert, s.seenURL = r.seenURL, s.failed = r.failed
  PROVE  Far(s, "chase")
<1>1. r.level + 1 \in 0..(MaxDepth - 1)
  BY ChaseParts, AIAAssumption
<1>2. Levels(r.scan)[r.level + 1] \subseteq Levels(r.scan)[(r.level + 1) + 1]
  BY <1>1, LevelUp
<1>3. r.next \subseteq r.seenCert /\ r.now = None
  BY DEF RunInv, Far, InHand
<1>4. InBounds(s)
  BY <1>2, <1>3 DEF Far, InBounds, Questions
<1>5. \A q \in Questions(s.seenCert) : q \in s.todo \/ q.url \in s.seenURL
  BY DEF Far, Covered, Questions
<1>6. \A u \in s.seenURL : Asked(s, u)
  BY DEF Far, Covered, Asked, Settled
<1> QED
  BY <1>3, <1>4, <1>5, <1>6 DEF Far, Covered, InHand

LEMMA FarLocal ==
  ASSUME FarInv, NEW p \in Procs, Far(run'[p], pc'[p]), \A q \in Procs \ {p} : run'[q] = run[q] /\ pc'[q] = pc[q]
  PROVE  FarInv'
BY DEF FarInv

LEMMA FarStarts == ASSUME IInv, FarInv, NEW p \in Procs, Start(p) PROVE FarInv'
<1>1. PICK certs \in Scans : run' = [run EXCEPT ![p] = NewChase(certs)]
  BY DEF Start
<1>2. pc' = [pc EXCEPT ![p] = "chase"]
  BY DEF Start, To
<1>3. run'[p] = NewChase(certs) /\ pc'[p] = "chase" /\ \A q \in Procs \ {p} : run'[q] = run[q] /\ pc'[q] = pc[q]
  BY <1>1, <1>2 DEF IInv, TypeOK
<1>4. certs \in SUBSET Certs
  BY AIAAssumption
<1> QED
  BY <1>3, <1>4, FarStart, FarLocal

LEMMA FarSkips == ASSUME IInv, FarInv, NEW p \in Procs, Skip(p) PROVE FarInv'
<1> DEFINE r == run[p]
<1>1. PICK q \in r.todo : q.url \in r.seenURL /\ run' = [run EXCEPT ![p].todo = @ \ {q}]
  BY DEF Skip
<1> DEFINE s == [r EXCEPT !.todo = @ \ {q}]
<1>2. r \in Chase /\ Far(r, "chase") /\ pc[p] = "chase" /\ pc' = pc
  BY DEF Skip, IInv, TypeOK, FarInv
<1>3. run'[p] = s /\ \A o \in Procs \ {p} : run'[o] = run[o]
  BY <1>1, <1>2 DEF IInv, TypeOK
<1>4. /\ s.scan = r.scan /\ s.level = r.level /\ s.now = r.now /\ s.todo = r.todo \ {q} /\ s.out = r.out
      /\ s.seenCert = r.seenCert /\ s.next = r.next /\ s.seenURL = r.seenURL /\ s.failed = r.failed
  BY <1>2 DEF Chase
<1> HIDE DEF s
<1>5. Far(s, "chase")
  <2>1. InBounds(s) /\ InHand(s, "chase")
    BY <1>2, <1>4 DEF Far, InBounds, InHand
  <2>2. \A k \in Questions(s.seenCert) : k.cert \in s.next \/ k \in s.todo \/ k.url \in s.seenURL
    BY <1>1, <1>2, <1>4 DEF Far, Covered
  <2>3. \A u \in s.seenURL : Asked(s, u)
    BY <1>2, <1>4 DEF Far, Covered, Asked, Settled
  <2> QED
    BY <2>1, <2>2, <2>3 DEF Far, Covered
<1> QED
  BY <1>2, <1>3, <1>5, FarLocal

LEMMA FarAsked ==
  ASSUME IInv, FarInv, NEW p \in Procs, NEW q \in run[p].todo, NEW out \in SUBSET Certs,
         NEW to \in {"hit", "fetch"}, to = "hit" => out # {}, Ask(p, q, out, to)
  PROVE  FarInv'
<1> DEFINE r == run[p]
           s == [r EXCEPT !.todo = @ \ {q}, !.seenURL = @ \cup {q.url}, !.now = q, !.out = out]
<1>1. r \in Chase /\ RunInv(r) /\ Far(r, "chase") /\ pc[p] = "chase" /\ r.now = None
  BY DEF Ask, To, IInv, TypeOK, FarInv, Far, InHand
<1>2. pc'[p] = to /\ run'[p] = s /\ \A o \in Procs \ {p} : run'[o] = run[o] /\ pc'[o] = pc[o]
  <2>1. pc' = [pc EXCEPT ![p] = to]
    BY DEF Ask, To
  <2>2. run' = [run EXCEPT ![p] = s]
    BY DEF Ask
  <2> HIDE DEF s
  <2> QED
    BY <2>1, <2>2 DEF IInv, TypeOK
<1>3. q \in Question /\ q.url \in URLs
  BY <1>1, ChaseParts DEF Question
<1>4. s \in Chase
  BY <1>1, <1>3 DEF Chase
<1>5. /\ s.scan = r.scan /\ s.level = r.level /\ s.seenCert = r.seenCert /\ s.next = r.next /\ s.failed = r.failed
      /\ s.todo = r.todo \ {q} /\ s.seenURL = r.seenURL \cup {q.url} /\ s.now = q /\ s.out = out
  BY <1>1 DEF Chase
<1> HIDE DEF s
<1>6. InHand(s, to)
  BY <1>5 DEF InHand
<1>7. Far(s, to)
  BY <1>1, <1>4, <1>5, <1>6, FarAsks
<1> QED
  BY <1>2, <1>7, FarLocal

\* A step of one invocation that goes on with its chase as r becomes s.
LEMMA FarMoves ==
  ASSUME IInv, FarInv, NEW p \in Procs, NEW s \in Chase, NEW d, run'[p] = s, pc'[p] = d,
         \A o \in Procs \ {p} : run'[o] = run[o] /\ pc'[o] = pc[o], InHand(s, d),
         s.scan = run[p].scan, s.level = run[p].level, s.todo = run[p].todo, s.seenURL = run[p].seenURL,
         run[p].seenCert \subseteq s.seenCert, run[p].failed \subseteq s.failed, run[p].next \subseteq s.next,
         s.seenCert \ run[p].seenCert \subseteq s.next,
         s.seenCert \ run[p].seenCert \subseteq Levels(run[p].scan)[run[p].level + 1],
         s.now = run[p].now \/ (s.now = None /\ Settled(s, run[p].now))
  PROVE  FarInv'
<1>1. run[p] \in Chase /\ Far(run[p], pc[p])
  BY DEF IInv, TypeOK, FarInv
<1>2. Far(s, d)
  BY <1>1, FarGoesOn
<1> QED
  BY <1>2, FarLocal

LEMMA FarFails == ASSUME IInv, FarInv, NEW p \in Procs, FetchFails(p) PROVE FarInv'
<1> DEFINE r == run[p]
           s == [r EXCEPT !.failed = @ \cup {r.now}, !.now = None]
<1>1. r \in Chase /\ r.now # None /\ pc[p] = "fetch"
  BY DEF FetchFails, To, IInv, TypeOK
<1>2. pc'[p] = "chase" /\ run'[p] = s /\ \A o \in Procs \ {p} : run'[o] = run[o] /\ pc'[o] = pc[o]
  <2>1. pc' = [pc EXCEPT ![p] = "chase"]
    BY DEF FetchFails, To
  <2>2. run' = [run EXCEPT ![p] = s]
    BY <1>1 DEF FetchFails, IInv, TypeOK, Chase
  <2> HIDE DEF s
  <2> QED
    BY <2>1, <2>2 DEF IInv, TypeOK
<1>3. r.now \in Question
  BY <1>1, ChaseParts
<1>4. s \in Chase
  BY <1>1, <1>3 DEF Chase
<1>5. /\ s.scan = r.scan /\ s.level = r.level /\ s.seenCert = r.seenCert /\ s.next = r.next
      /\ s.failed = r.failed \cup {r.now} /\ s.todo = r.todo /\ s.seenURL = r.seenURL /\ s.now = None
  BY <1>1 DEF Chase
<1> HIDE DEF s
<1>6. InHand(s, "chase") /\ Settled(s, r.now)
  <2>1. InHand(s, "chase")
    BY <1>5 DEF InHand
  <2>2. Settled(s, r.now)
    BY <1>5 DEF Settled
  <2> QED
    BY <2>1, <2>2
<1> QED
  BY <1>2, <1>4, <1>5, <1>6, FarMoves

LEMMA FarFetches == ASSUME IInv, FarInv, NEW p \in Procs, Fetch(p) PROVE FarInv'
<1> DEFINE r == run[p]
           usable == Usable(r.now.url, r.now.cert)
           s == [r EXCEPT !.out = usable, !.put = IF p \in Caching THEN usable ELSE {}]
<1>1. r \in Chase /\ r.now # None /\ usable # {}
  BY DEF Fetch, To, IInv, TypeOK
<1>2. pc'[p] = "put" /\ run'[p] = s /\ \A o \in Procs \ {p} : run'[o] = run[o] /\ pc'[o] = pc[o]
  <2>1. pc' = [pc EXCEPT ![p] = "put"]
    BY DEF Fetch, To
  <2>2. run' = [run EXCEPT ![p] = s]
    BY <1>1 DEF Fetch, IInv, TypeOK, Chase
  <2> HIDE DEF s
  <2> QED
    BY <2>1, <2>2 DEF IInv, TypeOK
<1>3. usable \subseteq Certs
  BY <1>1, ChaseParts, AIAAssumption DEF Question, Usable, Candidates
<1>4. s \in Chase
  BY <1>1, <1>3 DEF Chase
<1>5. /\ s.scan = r.scan /\ s.level = r.level /\ s.seenCert = r.seenCert /\ s.next = r.next
      /\ s.failed = r.failed /\ s.todo = r.todo /\ s.seenURL = r.seenURL /\ s.now = r.now /\ s.out = usable
  BY <1>1 DEF Chase
<1> HIDE DEF s
<1>6. InHand(s, "put")
  BY <1>1, <1>5 DEF InHand
<1> QED
  BY <1>2, <1>4, <1>5, <1>6, FarMoves

LEMMA FarKeeps ==
  ASSUME IInv, FarInv, NEW p \in Procs, NEW from \in {"hit", "put"}, NEW source \in Sources, Keep(p, from, source)
  PROVE  FarInv'
<1> DEFINE r == run[p]
           certs == Unseen(r)
           s == [r EXCEPT !.fetched = @ \cup Found(r, source), !.seenCert = @ \cup certs, !.next = @ \cup certs,
                          !.out = {}, !.now = None]
<1>1. r \in Chase /\ r.now # None /\ RunInv(r) /\ Far(r, from)
  <2>1. pc[p] = from
    BY DEF Keep, To
  <2> QED
    BY <2>1 DEF IInv, TypeOK, FarInv
<1>2. r.now.url \in URLs /\ r.now.cert \in Certs /\ r.out \subseteq Certs /\ r.level \in 0..(MaxDepth - 1)
  BY <1>1, ChaseParts DEF Question
<1>3. certs \subseteq Certs /\ certs \subseteq Candidates(r.now.url, r.now.cert)
  BY <1>1, <1>2 DEF Unseen, RunInv
<1>4. pc'[p] = "chase" /\ run'[p] = s /\ \A o \in Procs \ {p} : run'[o] = run[o] /\ pc'[o] = pc[o]
  <2>1. pc' = [pc EXCEPT ![p] = "chase"]
    BY DEF Keep, To
  <2>2. run' = [run EXCEPT ![p] = s]
    BY DEF Keep
  <2> HIDE DEF s
  <2> QED
    BY <2>1, <2>2 DEF IInv, TypeOK
<1>5. s \in Chase
  <2>1. Found(r, source) \subseteq Fetched
    BY <1>2, <1>3 DEF Fetched, Found
  <2> HIDE DEF certs
  <2> QED
    BY <1>1, <1>3, <2>1 DEF Chase
<1>6. /\ s.scan = r.scan /\ s.level = r.level /\ s.seenCert = r.seenCert \cup certs /\ s.next = r.next \cup certs
      /\ s.failed = r.failed /\ s.todo = r.todo /\ s.seenURL = r.seenURL /\ s.now = None
  BY <1>1 DEF Chase
<1> HIDE DEF s
<1>7. certs \subseteq Levels(r.scan)[r.level + 1]
  <2>1. certs \subseteq Signers(Levels(r.scan)[r.level])
    BY <1>1, <1>3 DEF Far, InBounds, Candidates, Signers
  <2>2. Levels(r.scan)[r.level + 1] = Levels(r.scan)[r.level] \cup Signers(Levels(r.scan)[r.level])
    BY <1>2, LevelUp
  <2> QED
    BY <2>1, <2>2
<1>8. Settled(s, r.now)
  <2>1. PICK c \in r.out : TRUE
    BY <1>1 DEF Far, InHand
  <2>2. c \in Candidates(r.now.url, r.now.cert) /\ c \in s.seenCert
    BY <1>1, <1>6, <2>1 DEF RunInv, Unseen
  <2> QED
    BY <2>2 DEF Settled
<1>9. InHand(s, "chase")
  BY <1>6 DEF InHand
<1> HIDE DEF certs
<1> QED
  BY <1>4, <1>5, <1>6, <1>7, <1>8, <1>9, FarMoves

LEMMA FarGoesDeeper == ASSUME IInv, FarInv, NEW p \in Procs, NextLevel(p) PROVE FarInv'
<1> DEFINE r == run[p]
           s == [r EXCEPT !.level = @ + 1, !.todo = Questions(r.next), !.next = {}]
<1>1. r \in Chase /\ RunInv(r) /\ Far(r, "chase") /\ pc[p] = "chase" /\ pc' = pc /\ r.todo = {} /\ r.level + 1 < MaxDepth
  BY DEF NextLevel, Deeper, IInv, TypeOK, FarInv
<1>2. run'[p] = s /\ \A o \in Procs \ {p} : run'[o] = run[o]
  <2>1. run' = [run EXCEPT ![p] = s]
    BY <1>1 DEF NextLevel, IInv, TypeOK, Chase
  <2> HIDE DEF s
  <2> QED
    BY <2>1 DEF IInv, TypeOK
<1>3. s \in Chase
  <2>1. Questions(r.next) \in SUBSET Question /\ r.level + 1 \in 0..(MaxDepth - 1)
    BY <1>1, ChaseParts, AIAAssumption DEF Questions
  <2> QED
    BY <1>1, <2>1 DEF Chase
<1>4. /\ s.scan = r.scan /\ s.level = r.level + 1 /\ s.todo = Questions(r.next) /\ s.next = {} /\ s.now = r.now
      /\ s.seenCert = r.seenCert /\ s.seenURL = r.seenURL /\ s.failed = r.failed
  BY <1>1 DEF Chase
<1> HIDE DEF s
<1>5. Far(s, "chase")
  BY <1>1, <1>3, <1>4, FarDeeper
<1> QED
  BY <1>1, <1>2, <1>5, FarLocal

\* The cache: what is written next, or that it is not.
LEMMA FarCaches ==
  ASSUME IInv, FarInv, NEW p \in Procs, OpenFile(p) \/ WriteFile(p) \/ OpenIndex(p) \/ WriteIndex(p) \/ PutFails(p)
  PROVE  FarInv'
<1> DEFINE r == run[p]
<1>1. r \in Chase /\ Far(r, pc[p])
  BY DEF IInv, TypeOK, FarInv
<1>2. /\ pc[p] \in {"put", "file", "filed", "index"}
      /\ \E d \in {"put", "file", "filed", "index"} : pc' = [pc EXCEPT ![p] = d]
  <2>1. CASE OpenFile(p) \/ WriteFile(p) \/ OpenIndex(p) \/ WriteIndex(p)
    BY <2>1 DEF OpenFile, WriteFile, OpenIndex, WriteIndex, To
  <2>2. CASE PutFails(p)
    <3>1. pc = [pc EXCEPT ![p] = pc[p]]
      BY DEF IInv, TypeOK
    <3> QED
      BY <2>2, <3>1 DEF PutFails
  <2> QED
    BY <2>1, <2>2
<1>3. PICK d \in {"put", "file", "filed", "index"} : pc' = [pc EXCEPT ![p] = d]
  BY <1>2
<1>4. pc'[p] = d /\ \A o \in Procs \ {p} : pc'[o] = pc[o]
  BY <1>3 DEF IInv, TypeOK
<1>5. \/ run' = run
      \/ \E c \in r.put : run' = [run EXCEPT ![p].put = @ \ {c}] \/ run' = [run EXCEPT ![p].put = @ \ {c}, ![p].file = c]
  BY DEF OpenFile, WriteFile, OpenIndex, WriteIndex, PutFails
<1>6. \E s \in Chase : /\ run'[p] = s /\ \A o \in Procs \ {p} : run'[o] = run[o]
                       /\ s.scan = r.scan /\ s.level = r.level /\ s.seenCert = r.seenCert /\ s.next = r.next
                       /\ s.failed = r.failed /\ s.todo = r.todo /\ s.seenURL = r.seenURL /\ s.now = r.now /\ s.out = r.out
  <2>1. CASE run' = run
    BY <1>1, <2>1
  <2>2. ASSUME NEW c \in r.put,
               run' = [run EXCEPT ![p].put = @ \ {c}] \/ run' = [run EXCEPT ![p].put = @ \ {c}, ![p].file = c]
        PROVE  \E s \in Chase : /\ run'[p] = s /\ \A o \in Procs \ {p} : run'[o] = run[o]
                       /\ s.scan = r.scan /\ s.level = r.level /\ s.seenCert = r.seenCert /\ s.next = r.next
                       /\ s.failed = r.failed /\ s.todo = r.todo /\ s.seenURL = r.seenURL /\ s.now = r.now /\ s.out = r.out
    <3> DEFINE s == run'[p]
    <3>1. c \in Certs
      BY <1>1, ChaseParts
    <3>2. s = [r EXCEPT !.put = @ \ {c}] \/ s = [r EXCEPT !.put = @ \ {c}, !.file = c]
      BY <2>2 DEF IInv, TypeOK
    <3>3. s \in Chase
      BY <1>1, <3>1, <3>2 DEF Chase
    <3>4. /\ s.scan = r.scan /\ s.level = r.level /\ s.seenCert = r.seenCert /\ s.next = r.next
          /\ s.failed = r.failed /\ s.todo = r.todo /\ s.seenURL = r.seenURL /\ s.now = r.now /\ s.out = r.out
      BY <1>1, <3>2 DEF Chase
    <3>5. \A o \in Procs \ {p} : run'[o] = run[o]
      BY <2>2 DEF IInv, TypeOK
    <3> HIDE DEF s
    <3> QED
      BY <3>3, <3>4, <3>5 DEF s
  <2> QED
    BY <1>5, <2>1, <2>2
<1>7. PICK s \in Chase : /\ run'[p] = s /\ \A o \in Procs \ {p} : run'[o] = run[o]
                       /\ s.scan = r.scan /\ s.level = r.level /\ s.seenCert = r.seenCert /\ s.next = r.next
                       /\ s.failed = r.failed /\ s.todo = r.todo /\ s.seenURL = r.seenURL /\ s.now = r.now /\ s.out = r.out
  BY <1>6
<1>8. InHand(s, d)
  BY <1>1, <1>2, <1>7 DEF Far, InHand
<1> QED
  BY <1>4, <1>7, <1>8, FarMoves

LEMMA FarEnds == ASSUME IInv, FarInv, NEW p \in Procs, Finish(p) \/ Crash(p) PROVE FarInv'
<1>1. run' = run /\ run[p] \in Chase /\ Far(run[p], pc[p])
  BY DEF Finish, Crash, IInv, TypeOK, FarInv
<1>2. PICK d \in {"done", "dead"} : pc' = [pc EXCEPT ![p] = d] /\ (d = "done" => pc[p] = "chase" /\ run[p].todo = {})
  BY DEF Finish, Crash, To
<1>3. pc'[p] = d /\ \A o \in Procs \ {p} : pc'[o] = pc[o]
  BY <1>2 DEF IInv, TypeOK
<1>4. InHand(run[p], d)
  BY <1>1, <1>2 DEF Far, InHand
<1> QED
  BY <1>1, <1>3, <1>4, FarMoves

LEMMA FarInit == Init => FarInv
<1> SUFFICES ASSUME Init, NEW p \in Procs PROVE Far(run[p], pc[p])
  BY DEF FarInv
<1>1. run[p] = NewChase({}) /\ pc[p] = "idle"
  BY DEF Init
<1> QED
  BY <1>1, FarStart

LEMMA FarStep == IInv /\ FarInv /\ [Next]_vars => FarInv'
<1> SUFFICES ASSUME IInv, FarInv, [Next]_vars PROVE FarInv'
  OBVIOUS
<1>1. ASSUME NEW p \in Procs, AskCache(p) PROVE FarInv'
  <2>1. PICK q \in run[p].todo : Hit(q, Loaded(p)[q.url]) /\ Ask(p, q, {Loaded(p)[q.url]}, "hit")
    BY <1>1 DEF AskCache
  <2>2. run[p] \in Chase
    BY DEF IInv, TypeOK
  <2>3. q \in Question /\ q.url \in URLs
    BY <2>1, <2>2, ChaseParts DEF Question
  <2>4. Loaded(p) \in Index
    BY DEF IInv, TypeOK, Loaded
  <2>5. Loaded(p)[q.url] \in Certs
    BY <2>1, <2>3, <2>4 DEF Hit, Index
  <2> QED
    BY <2>1, <2>5, FarAsked
<1>2. ASSUME NEW p \in Procs, AskServer(p) PROVE FarInv'
  BY <1>2, FarAsked DEF AskServer
<1>3. ASSUME NEW p \in Procs, KeepCached(p) \/ KeepFetched(p) PROVE FarInv'
  BY <1>3, FarKeeps DEF KeepCached, KeepFetched, Sources
<1>4. CASE UNCHANGED vars \/ Clear
  BY <1>4 DEF vars, Clear, FarInv
<1> QED
  BY <1>1, <1>2, <1>3, <1>4, FarStarts, FarSkips, FarFails, FarFetches, FarGoesDeeper, FarCaches, FarEnds DEF Next

\* ChaseAIA: whatever the cache held and whichever invocations, failures and clearings came
\* between, a chase keeps to its depth, and one that ends before it leaves no URL of a
\* certificate it knows unasked, nor an answer dropped.
THEOREM AlwaysAsFar == Spec => []AsFarAsItMay
  BY Invariant, FarInit, FarStep, FarIsEnough, PTL DEF Spec
=============================================================================
