------------------------- MODULE BundleInstallProofs -------------------------
(* Invariants of BundleInstall, for every set of processes and snapshots,  *)
(* and what only holds of an update that nobody else's renames came        *)
(* between, which takes two history variables to say.                      *)
EXTENDS BundleInstall, TLAPS

\* What an updater carries past validation meets the floor, and it has renamed
\* the trusted list before it goes on to the other two files.
Carried ==
  \A p \in Procs :
    /\ pc[p] \in {"write", "deny", "seal"} => want[p] \in Snapshots /\ FloorMet(want[p])
    /\ pc[p] \in {"deny", "seal"} => disk["trusted"] # None

\* Updates are started by updaters only, and they always carry a snapshot.
Wanted == \A p \in Updaters : pc[p] # "idle" => want[p] \in Snapshots

IInv == TypeOK /\ FloorHolds /\ ManifestCommits /\ Carried /\ Wanted

LEMMA InitEstablishes == Init => IInv
  BY BundleAssumption DEF Init, IInv, TypeOK, FloorHolds, ManifestCommits, Carried, Wanted, Parts, Maybe

LEMMA PartType ==
  ASSUME NEW f \in Parts
  PROVE  /\ Part(Embedded, f) \in Maybe
         /\ f = "trusted" => Part(Embedded, f) = Embedded
  BY BundleAssumption DEF Part, Parts, Maybe

LEMMA EmbeddedFloor == FloorMet(Embedded)
  BY BundleAssumption DEF FloorMet

LEMMA ReadPreserves ==
  ASSUME IInv, NEW p \in Procs, NEW f \in Parts,
         NEW next \in {"trusted", "distrusted", "loaded"}, Read(p, f, next)
  PROVE  IInv'
<1> USE BundleAssumption
<1>1. CASE disk[f] = None /\ f # "distrusted"
  <2>1. /\ got' = [got EXCEPT ![p] = [g \in Parts |-> Part(Embedded, g)]]
        /\ pc' = [pc EXCEPT ![p] = "loaded"]
        /\ UNCHANGED <<disk, want, faults>>
        /\ pc[p] = f
    BY <1>1 DEF Read
  <2>2. TypeOK'
    BY <2>1, PartType DEF IInv, TypeOK
  <2>3. FloorHolds'
    <3>1. \A q \in Procs : got'[q]["trusted"] = got[q]["trusted"] \/ got'[q]["trusted"] = Embedded
      BY <2>1, PartType DEF IInv, TypeOK, Parts
    <3> QED  BY <2>1, <3>1, EmbeddedFloor DEF IInv, FloorHolds
  <2>4. (ManifestCommits /\ Carried /\ Wanted)'
    BY <2>1 DEF IInv, TypeOK, ManifestCommits, Carried, Wanted, Parts
  <2> QED  BY <2>2, <2>3, <2>4 DEF IInv
<1>2. CASE ~(disk[f] = None /\ f # "distrusted")
  <2>1. /\ got' = [got EXCEPT ![p][f] = disk[f]]
        /\ pc' = [pc EXCEPT ![p] = next]
        /\ UNCHANGED <<disk, want, faults>>
        /\ pc[p] = f
    BY <1>2 DEF Read
  <2>2. TypeOK'
    BY <2>1 DEF IInv, TypeOK
  <2>3. FloorHolds'
    <3>1. \A q \in Procs : got'[q]["trusted"] = got[q]["trusted"] \/ got'[q]["trusted"] = disk["trusted"]
      BY <2>1 DEF IInv, TypeOK, Parts
    <3> QED  BY <2>1, <3>1 DEF IInv, FloorHolds
  <2>4. (ManifestCommits /\ Carried /\ Wanted)'
    BY <2>1 DEF IInv, TypeOK, ManifestCommits, Carried, Wanted, Parts
  <2> QED  BY <2>2, <2>3, <2>4 DEF IInv
<1> QED  BY <1>1, <1>2

LEMMA RenamePreserves ==
  ASSUME IInv, NEW p \in Procs,
         \/ Rename(p, "write", "trusted", "deny")
         \/ want[p] \in Denying /\ Rename(p, "deny", "distrusted", "seal")
         \/ Rename(p, "seal", "manifest", "written")
  PROVE  IInv'
<1> USE BundleAssumption DEF Rename, To, Fault
<1>1. TypeOK'
  BY DEF IInv, TypeOK, Parts, Maybe, Carried
<1>2. FloorHolds'
  BY DEF IInv, TypeOK, FloorHolds, Parts, Carried
<1>3. ManifestCommits'
  BY DEF IInv, TypeOK, ManifestCommits, Parts, Carried
<1>4. Carried'
  BY DEF IInv, TypeOK, Carried, Parts
<1>5. Wanted'
  BY DEF IInv, TypeOK, Wanted
<1> QED  BY <1>1, <1>2, <1>3, <1>4, <1>5 DEF IInv

LEMMA StepPreserves == IInv /\ [Next]_vars => IInv'
<1> SUFFICES ASSUME IInv, [Next]_vars PROVE IInv'
  OBVIOUS
<1> USE BundleAssumption
<1>1. ASSUME NEW p \in Procs, Begin(p) PROVE IInv'
  <2>1. PICK v \in Maybe : want' = [want EXCEPT ![p] = v] /\ (p \in Updaters => v \in Snapshots)
    BY <1>1 DEF Begin, Maybe
  <2>2. /\ pc[p] = "idle" /\ pc' = [pc EXCEPT ![p] = "manifest"]
        /\ got' = [got EXCEPT ![p] = [f \in Parts |-> None]]
        /\ disk' = disk /\ faults' = faults
    BY <1>1 DEF Begin, To
  <2>3. TypeOK'
    BY <2>1, <2>2 DEF IInv, TypeOK, Maybe
  <2>4. FloorHolds'
    BY <2>2 DEF IInv, TypeOK, FloorHolds, Parts
  <2>5. (ManifestCommits /\ Carried /\ Wanted)'
    BY <2>1, <2>2 DEF IInv, TypeOK, ManifestCommits, Carried, Wanted
  <2> QED  BY <2>3, <2>4, <2>5 DEF IInv
<1>2. ASSUME NEW p \in Procs, Load(p) PROVE IInv'
  BY <1>2, ReadPreserves DEF Load, Parts
<1>3. ASSUME NEW p \in Procs, Validate(p) PROVE IInv'
  <2>1. /\ got' = [got EXCEPT ![p] = [f \in Parts |-> None]]
        /\ disk' = disk /\ want' = want /\ faults' = faults
        /\ \/ FloorMet(want[p]) /\ pc' = [pc EXCEPT ![p] = "write"]
           \/ pc' = [pc EXCEPT ![p] = "failed"]
        /\ p \in Updaters /\ pc[p] = "loaded"
    BY <1>3 DEF Validate, ValidateParsed
  <2>2. TypeOK'
    BY <2>1 DEF IInv, TypeOK, Maybe
  <2>3. FloorHolds'
    BY <2>1 DEF IInv, TypeOK, FloorHolds, Parts
  <2>4. (ManifestCommits /\ Carried /\ Wanted)'
    BY <2>1 DEF IInv, TypeOK, ManifestCommits, Carried, Wanted
  <2> QED  BY <2>2, <2>3, <2>4 DEF IInv
<1>4. ASSUME NEW p \in Procs, WriteTrusted(p) \/ WriteManifest(p) PROVE IInv'
  BY <1>4, RenamePreserves DEF WriteTrusted, WriteManifest
<1>5. ASSUME NEW p \in Procs, WriteDistrusted(p) PROVE IInv'
  <2>1. CASE want[p] \in Denying
    BY <1>5, <2>1, RenamePreserves DEF WriteDistrusted
  <2>2. CASE want[p] \notin Denying
    BY <1>5, <2>2 DEF WriteDistrusted, To, Fault, IInv, TypeOK, FloorHolds, ManifestCommits, Carried, Wanted, Parts, Maybe
  <2> QED  BY <2>1, <2>2
<1>6. ASSUME NEW p \in Procs, Crash(p) PROVE IInv'
  BY <1>6 DEF Crash, Fault, IInv, TypeOK, FloorHolds, ManifestCommits, Carried, Wanted
<1>7. ASSUME NEW p \in Procs, Again(p) PROVE IInv'
  <2>1. /\ want' = [want EXCEPT ![p] = None]
        /\ pc' = [pc EXCEPT ![p] = "idle"]
        /\ got' = [got EXCEPT ![p] = [f \in Parts |-> None]]
        /\ disk' = disk /\ faults' = faults
    BY <1>7 DEF Again
  <2>2. TypeOK'
    BY <2>1 DEF IInv, TypeOK, Maybe
  <2>3. FloorHolds'
    BY <2>1 DEF IInv, TypeOK, FloorHolds, Parts
  <2>4. (ManifestCommits /\ Carried /\ Wanted)'
    BY <2>1 DEF IInv, TypeOK, ManifestCommits, Carried, Wanted
  <2> QED  BY <2>2, <2>3, <2>4 DEF IInv
<1>8. CASE UNCHANGED vars
  BY <1>8 DEF vars, IInv, TypeOK, FloorHolds, ManifestCommits, Carried, Wanted
<1> QED
  BY <1>1, <1>2, <1>3, <1>4, <1>5, <1>6, <1>7, <1>8 DEF Next

\* The inductive invariant holds in every reachable state.
THEOREM Invariant == Spec => []IInv
  BY InitEstablishes, StepPreserves, PTL DEF Spec

\* Every variable stays in its type: in particular the distrusted file on disk
\* belongs to a snapshot that distrusts something (WriteBundleFiles).
THEOREM TypeCorrect == Spec => []TypeOK
  BY Invariant, PTL DEF IInv

\* ValidateParsed guards every way to the disk, and LoadBundle only reads what
\* passed it: no list below the floor is ever in use.
THEOREM FloorAlwaysHolds == Spec => []FloorHolds
  BY Invariant, PTL DEF IInv

\* WriteBundleFiles writes the manifest last: a load that finds one also finds
\* a trusted list.
THEOREM ManifestIsCommit == Spec => []ManifestCommits
  BY Invariant, PTL DEF IInv

\* The three together, for any processes, snapshots and faults.
THEOREM AlwaysInstalled == Spec => []Installed
<1>1. IInv => Installed
  BY DEF IInv, Installed
<1>. QED
  BY <1>1, Invariant, PTL

-----------------------------------------------------------------------------
(* Updates that others do not come between.                                *)

VARIABLES
  disturbed,   \* the processes during whose invocation another one renamed a file
  mixed        \* renames of two updates met, and no update has finished since

historyVars == <<vars, disturbed, mixed>>

AtWork(p) == pc[p] \notin {"idle", "written", "failed"}
OthersAtWork(p) == {q \in Procs \ {p} : AtWork(q)}

Alone(A) == A /\ UNCHANGED <<disturbed, mixed>>
Over(p, A) == A /\ disturbed' = disturbed \ {p} /\ mixed' = mixed
Renames(p, A) ==
  /\ A
  /\ disturbed' = disturbed \cup OthersAtWork(p)
  /\ mixed' = IF disturbed' = {} /\ pc'[p] = "written" THEN FALSE
              ELSE mixed \/ OthersAtWork(p) # {}

HistoryStep(p) ==
  \/ Over(p, Begin(p)) \/ Over(p, Crash(p)) \/ Over(p, Again(p))
  \/ Alone(Load(p)) \/ Alone(Validate(p))
  \/ Renames(p, WriteTrusted(p)) \/ Renames(p, WriteDistrusted(p)) \/ Renames(p, WriteManifest(p))
HistoryNext == \E p \in Procs : HistoryStep(p)

HistoryInit == Init /\ disturbed = {} /\ mixed = FALSE
HistorySpec == HistoryInit /\ [][HistoryNext]_historyVars

\* A finished install leaves manifest and trusted list of one snapshot, whatever
\* earlier crashes and failed renames left behind, unless another update renamed a
\* file meanwhile (WriteBundleFiles).
InstallHeals ==
  [][\A p \in Updaters \ disturbed :
       pc[p] = "seal" /\ pc'[p] = "written"
       => disk'["manifest"] = want[p] /\ disk'["trusted"] = want[p]]_historyVars

\* Before the first fault, and as long as the bundle is not one that two updates left
\* together, an update never lowers the number of trusted anchors in effect by more
\* than the limit, not even between two of its renames ("bounds how much the anchor
\* count may fall in one update").
UndisturbedDropBounded ==
  [][faults' = 0 /\ ~mixed' => NoDrop(InEffect(disk'), InEffect(disk))]_historyVars

\* What an undisturbed update wrote is still there, and a disturbance is remembered
\* for as long as it may still show.
Undisturbed == \A p \in Procs \ disturbed : pc[p] \in {"deny", "seal"} => disk["trusted"] = want[p]
Remembered == disturbed # {} => mixed

\* The snapshot the next load measures a drop against, and what every process that has
\* loaded measured it against.
Base == IF disk["manifest"] = None THEN Embedded ELSE disk["manifest"]
Measured ==
  \A p \in Procs :
    /\ pc[p] \in {"trusted", "distrusted"} => got[p]["manifest"] = disk["manifest"]
    /\ pc[p] = "loaded" => got[p]["manifest"] = Base
    /\ pc[p] = "write" => NoDrop(want[p], Base)
\* Before there is a manifest everybody measures against the compiled-in copy.
MeasuredFirst ==
  \A p \in Procs :
    /\ pc[p] \in {"trusted", "distrusted"} => disk["manifest"] # None
    /\ disk["manifest"] = None =>
         /\ pc[p] = "loaded" => got[p]["manifest"] = Embedded
         /\ pc[p] \in {"write", "deny", "seal"} => NoDrop(want[p], Embedded)
\* Nobody is between his renames: the manifest is that of the trusted list.
Whole ==
  (\A p \in Procs : pc[p] \notin {"deny", "seal"}) =>
    disk["manifest"] = None \/ disk["manifest"] = disk["trusted"]

HistoryInv ==
  /\ IInv /\ Undisturbed /\ Remembered /\ MeasuredFirst
  /\ faults = 0 /\ ~mixed => Measured /\ Whole

\* The history variables only watch: without them it is the same system.
LEMMA HistoryWatches == HistorySpec => Spec
<1>1. HistoryInit => Init
  BY DEF HistoryInit
<1>2. [HistoryNext]_historyVars => [Next]_vars
  BY DEF historyVars, HistoryNext, HistoryStep, Next, Over, Alone, Renames
<1> QED  BY <1>1, <1>2, PTL DEF HistorySpec, Spec

LEMMA SameCount == ASSUME NEW v \in Snapshots PROVE NoDrop(v, v)
<1>1. \A n, d \in Nat : 100 * n <= 100 * n + d * n
  <2> SUFFICES ASSUME NEW n \in Nat, NEW d \in Nat PROVE 100 * n <= 100 * n + d * n
    OBVIOUS
  <2>1. d * n \in Nat
    OBVIOUS
  <2> QED  BY <2>1
<1> QED  BY <1>1, BundleAssumption DEF NoDrop

LEMMA HistoryStarts == HistoryInit => HistoryInv
<1> SUFFICES ASSUME HistoryInit PROVE HistoryInv
  OBVIOUS
<1>1. IInv
  BY InitEstablishes DEF HistoryInit
<1>2. Undisturbed /\ Remembered /\ MeasuredFirst /\ Measured /\ Whole
  BY DEF HistoryInit, Init, Undisturbed, Remembered, MeasuredFirst, Measured, Whole, Parts
<1> QED  BY <1>1, <1>2 DEF HistoryInv

\* A process begins, crashes or is called again: it is out of the way.
LEMMA OverKeeps ==
  ASSUME HistoryInv, NEW p \in Procs, Over(p, Begin(p)) \/ Over(p, Crash(p)) \/ Over(p, Again(p))
  PROVE  HistoryInv'
<1>1. /\ disk' = disk /\ disturbed' = disturbed \ {p} /\ mixed' = mixed
      /\ \A q \in Procs \ {p} : pc'[q] = pc[q] /\ want'[q] = want[q] /\ got'[q] = got[q]
      /\ pc'[p] \in {"manifest", "failed", "idle"}
      /\ \/ faults' = faults /\ pc[p] \notin {"deny", "seal"}
         \/ faults' # 0
  BY DEF Over, Begin, Crash, Again, To, Fault, HistoryInv, IInv, TypeOK
<1>2. Undisturbed'
  BY <1>1 DEF HistoryInv, Undisturbed
<1>3. Remembered'
  BY <1>1 DEF HistoryInv, Remembered
<1>4. MeasuredFirst'
  BY <1>1 DEF HistoryInv, MeasuredFirst
<1>5. faults' = 0 /\ ~mixed' => Measured' /\ Whole'
  BY <1>1 DEF HistoryInv, Measured, Whole, Base
<1>6. IInv'
  BY StepPreserves DEF HistoryInv, Over, Next
<1> QED  BY <1>2, <1>3, <1>4, <1>5, <1>6 DEF HistoryInv

\* What a load reads is what it is measured against.
LEMMA LoadKeeps == ASSUME HistoryInv, NEW p \in Procs, Alone(Load(p)) PROVE HistoryInv'
<1>1. /\ disk' = disk /\ disturbed' = disturbed /\ mixed' = mixed /\ faults' = faults /\ want' = want
      /\ \A q \in Procs \ {p} : pc'[q] = pc[q] /\ got'[q] = got[q]
      /\ pc[p] \in {"manifest", "trusted", "distrusted"}
      /\ pc'[p] \in {"trusted", "distrusted", "loaded"}
  BY DEF Alone, Load, Read, HistoryInv, IInv, TypeOK
<1>2. /\ pc[p] = "manifest" => disk["manifest"] # None \/ pc'[p] = "loaded"
      /\ pc'[p] \in {"trusted", "distrusted"} =>
           disk["manifest"] # None /\ (pc[p] = "manifest" => got'[p]["manifest"] = disk["manifest"])
                                   /\ (pc[p] # "manifest" => got'[p]["manifest"] = got[p]["manifest"])
      /\ pc'[p] = "loaded" =>
           \/ disk["manifest"] = None /\ got'[p]["manifest"] = Embedded
           \/ disk["manifest"] # None /\ pc[p] # "manifest" /\ got'[p]["manifest"] = got[p]["manifest"]
  BY DEF Alone, Load, Read, HistoryInv, IInv, TypeOK, Parts, Part, ManifestCommits, MeasuredFirst
<1>3. Undisturbed'
  BY <1>1 DEF HistoryInv, Undisturbed
<1>4. Remembered'
  BY <1>1 DEF HistoryInv, Remembered
<1>5. MeasuredFirst'
  BY <1>1, <1>2 DEF HistoryInv, MeasuredFirst
<1>6. faults' = 0 /\ ~mixed' => Measured'
  BY <1>1, <1>2 DEF HistoryInv, Measured, Base
<1>7. faults' = 0 /\ ~mixed' => Whole'
  BY <1>1 DEF HistoryInv, Whole
<1>8. IInv'
  BY StepPreserves DEF HistoryInv, Alone, Next
<1> QED  BY <1>3, <1>4, <1>5, <1>6, <1>7, <1>8 DEF HistoryInv

LEMMA ValidateKeeps == ASSUME HistoryInv, NEW p \in Procs, Alone(Validate(p)) PROVE HistoryInv'
<1>1. /\ disk' = disk /\ disturbed' = disturbed /\ mixed' = mixed /\ faults' = faults /\ want' = want
      /\ \A q \in Procs \ {p} : pc'[q] = pc[q] /\ got'[q] = got[q]
      /\ pc[p] = "loaded"
      /\ \/ pc'[p] = "write" /\ NoDrop(want[p], got[p]["manifest"])
         \/ pc'[p] = "failed"
  BY DEF Alone, Validate, ValidateParsed, HistoryInv, IInv, TypeOK
<1>2. Undisturbed'
  BY <1>1 DEF HistoryInv, Undisturbed
<1>3. Remembered'
  BY <1>1 DEF HistoryInv, Remembered
<1>4. MeasuredFirst'
  BY <1>1 DEF HistoryInv, MeasuredFirst
<1>5. faults' = 0 /\ ~mixed' => Measured'
  BY <1>1 DEF HistoryInv, Measured, Base
<1>6. faults' = 0 /\ ~mixed' => Whole'
  BY <1>1 DEF HistoryInv, Whole
<1>7. IInv'
  BY StepPreserves DEF HistoryInv, Alone, Next
<1> QED  BY <1>2, <1>3, <1>4, <1>5, <1>6, <1>7 DEF HistoryInv

\* A rename, whatever becomes of it: what it does to each process and each file.
Renaming(p, from, f, to) ==
  /\ pc[p] = from /\ want' = want /\ got' = got
  /\ \A q \in Procs \ {p} : pc'[q] = pc[q]
  /\ \A g \in Parts \ {f} : disk'[g] = disk[g]
  /\ \/ pc'[p] = to /\ (faults' = faults \/ faults' # 0)
     \/ pc'[p] = "failed" /\ disk' = disk /\ faults' # 0

LEMMA RenameMeans ==
  ASSUME HistoryInv, NEW p \in Procs
  PROVE  /\ WriteTrusted(p) => /\ Renaming(p, "write", "trusted", "deny")
                               /\ pc'[p] = "deny" => disk'["trusted"] = want[p]
         /\ WriteDistrusted(p) => Renaming(p, "deny", "distrusted", "seal")
         /\ WriteManifest(p) => /\ Renaming(p, "seal", "manifest", "written")
                                /\ pc'[p] = "written" => disk'["manifest"] = want[p]
<1> USE DEF HistoryInv, IInv, TypeOK, Renaming, Rename, To, Fault, Parts
<1>1. WriteTrusted(p) => /\ Renaming(p, "write", "trusted", "deny")
                         /\ pc'[p] = "deny" => disk'["trusted"] = want[p]
  BY DEF WriteTrusted
<1>2. WriteDistrusted(p) => Renaming(p, "deny", "distrusted", "seal")
  BY DEF WriteDistrusted
<1>3. WriteManifest(p) => /\ Renaming(p, "seal", "manifest", "written")
                          /\ pc'[p] = "written" => disk'["manifest"] = want[p]
  BY DEF WriteManifest
<1> QED  BY <1>1, <1>2, <1>3

\* Whoever is at work while another process renames a file is disturbed, and remembered.
LEMMA Disturbs ==
  ASSUME HistoryInv, NEW p \in Procs, NEW A, Renames(p, A)
  PROVE  /\ \A q \in Procs \ {p} : AtWork(q) => q \in disturbed' /\ mixed'
         /\ p \in disturbed' <=> p \in disturbed
         /\ disturbed \subseteq disturbed' /\ Remembered'
         /\ ~mixed' => ~mixed \/ (disturbed' = {} /\ pc'[p] = "written")
BY DEF Renames, OthersAtWork, AtWork, HistoryInv, Remembered

LEMMA WriteTrustedKeeps ==
  ASSUME HistoryInv, NEW p \in Procs, Renames(p, WriteTrusted(p)) PROVE HistoryInv'
<1>1. /\ Renaming(p, "write", "trusted", "deny")
      /\ pc'[p] = "deny" => disk'["trusted"] = want[p]
      /\ Next
  BY RenameMeans DEF Renames, Next
<1>2. IInv /\ IInv'
  BY <1>1, StepPreserves DEF HistoryInv
<1>3. disk'["manifest"] = disk["manifest"]
  BY <1>1 DEF Renaming, Parts
<1>4. \A q \in Procs \ {p} : AtWork(q) => q \in disturbed' /\ mixed'
  BY Disturbs
<1>5. Remembered' /\ disturbed \subseteq disturbed'
  BY Disturbs
<1>6. Undisturbed'
  BY <1>1, <1>4, <1>5 DEF Undisturbed, Renaming, AtWork
<1>7. MeasuredFirst'
  BY <1>1, <1>3 DEF HistoryInv, MeasuredFirst, Renaming
<1>8. faults' = 0 /\ ~mixed' => Measured' /\ Whole'
  BY <1>1, <1>4 DEF Measured, Whole, Renaming, AtWork
<1> QED  BY <1>2, <1>5, <1>6, <1>7, <1>8 DEF HistoryInv

LEMMA WriteDistrustedKeeps ==
  ASSUME HistoryInv, NEW p \in Procs, Renames(p, WriteDistrusted(p)) PROVE HistoryInv'
<1>1. Renaming(p, "deny", "distrusted", "seal") /\ Next
  BY RenameMeans DEF Renames, Next
<1>2. IInv /\ IInv'
  BY <1>1, StepPreserves DEF HistoryInv
<1>3. disk'["manifest"] = disk["manifest"] /\ disk'["trusted"] = disk["trusted"]
  BY <1>1 DEF Renaming, Parts
<1>4. \A q \in Procs \ {p} : AtWork(q) => q \in disturbed' /\ mixed'
  BY Disturbs
<1>5. Remembered' /\ disturbed \subseteq disturbed'
  BY Disturbs
<1>6. Undisturbed'
  BY <1>1, <1>3, <1>4, <1>5 DEF HistoryInv, Undisturbed, Renaming, AtWork
<1>7. MeasuredFirst'
  BY <1>1, <1>3 DEF HistoryInv, MeasuredFirst, Renaming
<1>8. faults' = 0 /\ ~mixed' => Measured' /\ Whole'
  BY <1>1, <1>4 DEF Measured, Whole, Renaming, AtWork
<1> QED  BY <1>2, <1>5, <1>6, <1>7, <1>8 DEF HistoryInv

LEMMA WriteManifestKeeps ==
  ASSUME HistoryInv, NEW p \in Procs, Renames(p, WriteManifest(p)) PROVE HistoryInv'
<1>1. /\ Renaming(p, "seal", "manifest", "written")
      /\ pc'[p] = "written" => disk'["manifest"] = want[p]
      /\ Next
  BY RenameMeans DEF Renames, Next
<1>2. IInv /\ IInv'
  BY <1>1, StepPreserves DEF HistoryInv
<1>3. disk'["trusted"] = disk["trusted"] /\ (pc'[p] # "written" => disk' = disk)
  BY <1>1 DEF Renaming, Parts
<1>4. \A q \in Procs \ {p} : AtWork(q) => q \in disturbed' /\ mixed'
  BY Disturbs
<1>5. Remembered' /\ disturbed \subseteq disturbed'
  BY Disturbs
<1>6. Undisturbed'
  BY <1>1, <1>3, <1>4, <1>5 DEF HistoryInv, Undisturbed, Renaming, AtWork
<1>7. want[p] # None
  BY <1>1, <1>2, BundleAssumption DEF IInv, Carried, Renaming
<1>8. MeasuredFirst'
  BY <1>1, <1>3, <1>7 DEF HistoryInv, MeasuredFirst, Renaming
<1>9. ASSUME faults' = 0, ~mixed' PROVE Measured' /\ Whole'
  <2>1. pc'[p] = "written" /\ disk'["manifest"] = want[p]
    BY <1>1, <1>9 DEF Renaming
  <2>2. p \notin disturbed
    BY <1>5, <1>9, Disturbs DEF HistoryInv, Remembered
  <2>3. disk["trusted"] = want[p]
    BY <1>1, <2>2 DEF HistoryInv, Undisturbed, Renaming
  <2> QED  BY <1>1, <1>3, <1>4, <1>9, <2>1, <2>3 DEF Measured, Whole, Renaming, AtWork
<1> QED  BY <1>2, <1>5, <1>6, <1>8, <1>9 DEF HistoryInv

LEMMA HistoryKeeps == HistoryInv /\ [HistoryNext]_historyVars => HistoryInv'
<1> SUFFICES ASSUME HistoryInv, [HistoryNext]_historyVars PROVE HistoryInv'
  OBVIOUS
<1>1. ASSUME NEW p \in Procs, HistoryStep(p) PROVE HistoryInv'
  BY <1>1, OverKeeps, LoadKeeps, ValidateKeeps, WriteTrustedKeeps, WriteDistrustedKeeps, WriteManifestKeeps
  DEF HistoryStep
<1>2. CASE UNCHANGED historyVars
  <2>1. UNCHANGED vars /\ UNCHANGED <<disturbed, mixed>> /\ IInv'
    BY <1>2, StepPreserves DEF historyVars, HistoryInv
  <2> QED  BY <2>1 DEF vars, HistoryInv, Undisturbed, Remembered, MeasuredFirst, Measured, Whole, Base
<1> QED  BY <1>1, <1>2 DEF HistoryNext

LEMMA HistoryHolds == HistorySpec => []HistoryInv
  BY HistoryStarts, HistoryKeeps, PTL DEF HistorySpec

\* An undisturbed update finds its own trusted list when it renames the manifest:
\* manifest and trusted list of one snapshot, for any number of processes and after
\* any faults.
THEOREM InstallsHeal == HistorySpec => InstallHeals
<1> DEFINE Healed == \A p \in Updaters \ disturbed :
       pc[p] = "seal" /\ pc'[p] = "written" => disk'["manifest"] = want[p] /\ disk'["trusted"] = want[p]
<1>1. ASSUME HistoryInv, [HistoryNext]_historyVars PROVE [Healed]_historyVars
  <2> SUFFICES ASSUME HistoryNext, NEW p \in Procs, p \notin disturbed, pc[p] = "seal", pc'[p] = "written"
               PROVE  disk'["manifest"] = want[p] /\ disk'["trusted"] = want[p]
    BY <1>1, BundleAssumption
  <2>1. PICK q \in Procs : HistoryStep(q)
    BY DEF HistoryNext
  <2>2. WriteManifest(p)
    BY <1>1, <2>1 DEF HistoryStep, Over, Alone, Renames, Begin, Crash, Again, Load, Read, Validate,
       WriteTrusted, WriteDistrusted, WriteManifest, Rename, To, HistoryInv, IInv, TypeOK
  <2>3. disk'["manifest"] = want[p] /\ disk'["trusted"] = disk["trusted"]
    BY <1>1, <2>2, RenameMeans DEF Renaming, Parts
  <2>4. disk["trusted"] = want[p]
    BY <1>1 DEF HistoryInv, Undisturbed
  <2> QED  BY <2>3, <2>4
<1> QED  BY <1>1, HistoryHolds, PTL DEF HistorySpec, InstallHeals

\* The bound on the drop is about the anchors in effect: nothing but the two renames that
\* put a trusted list into effect changes them, and both come after the validation.
THEOREM DropStaysBounded == HistorySpec => UndisturbedDropBounded
<1> DEFINE Bounded == faults' = 0 /\ ~mixed' => NoDrop(InEffect(disk'), InEffect(disk))
<1>1. ASSUME HistoryInv, [HistoryNext]_historyVars PROVE [Bounded]_historyVars
  <2> SUFFICES ASSUME HistoryNext, faults' = 0, ~mixed' PROVE NoDrop(InEffect(disk'), InEffect(disk))
    BY <1>1
  <2> USE <1>1
  <2>1. IInv /\ IInv' /\ HistoryInv'
    BY HistoryKeeps DEF HistoryInv
  <2>2. InEffect(disk) \in Snapshots /\ InEffect(disk') \in Snapshots
    BY <2>1, BundleAssumption DEF IInv, TypeOK, InEffect, Parts, Maybe
  <2>3. CASE disk'["manifest"] = disk["manifest"] /\ disk'["trusted"] = disk["trusted"]
    BY <2>2, <2>3, SameCount DEF InEffect
  <2>4. ASSUME NEW p \in Procs, Renames(p, WriteTrusted(p)) PROVE NoDrop(InEffect(disk'), InEffect(disk))
    <3>1. /\ pc[p] = "write" /\ pc'[p] = "deny" /\ disk'["trusted"] = want[p]
          /\ disk'["manifest"] = disk["manifest"] /\ faults = 0
      BY <2>4, <2>1, RenameMeans DEF Renames, Renaming, Parts, IInv, TypeOK
    <3>2. ~mixed /\ \A q \in Procs \ {p} : ~AtWork(q)
      BY <2>4, <3>1, Disturbs
    <3>3. Measured /\ Whole
      BY <3>1, <3>2 DEF HistoryInv
    <3>4. NoDrop(want[p], Base) /\ (disk["manifest"] = None \/ disk["manifest"] = disk["trusted"])
      BY <3>1, <3>2, <3>3 DEF Measured, Whole, AtWork
    <3>5. want[p] # None
      BY <2>1, <3>1, BundleAssumption DEF IInv, Carried
    <3> QED  BY <3>1, <3>4, <3>5, <2>2, SameCount DEF InEffect, Base
  <2>5. ASSUME NEW p \in Procs, Renames(p, WriteManifest(p)) PROVE NoDrop(InEffect(disk'), InEffect(disk))
    <3>1. /\ pc[p] = "seal" /\ pc'[p] = "written" /\ disk'["manifest"] = want[p]
          /\ disk'["trusted"] = disk["trusted"]
      BY <2>5, RenameMeans DEF Renames, Renaming, Parts
    <3>2. p \notin disturbed
      BY <2>5, <3>1, Disturbs DEF HistoryInv, Remembered
    <3>3. disk["trusted"] = want[p] /\ want[p] # None
      BY <3>1, <3>2, <2>1, BundleAssumption DEF HistoryInv, Undisturbed, IInv, Carried
    <3>4. CASE disk["manifest"] = None
      BY <3>1, <3>3, <3>4 DEF HistoryInv, MeasuredFirst, InEffect
    <3>5. CASE disk["manifest"] # None
      BY <3>1, <3>3, <3>5, <2>2, SameCount DEF InEffect
    <3> QED  BY <3>4, <3>5
  <2>6. PICK p \in Procs : HistoryStep(p)
    BY DEF HistoryNext
  <2>7. CASE Renames(p, WriteDistrusted(p))
    BY <2>3, <2>7, RenameMeans DEF Renames, Renaming, Parts
  <2>8. CASE Over(p, Begin(p)) \/ Over(p, Crash(p)) \/ Over(p, Again(p)) \/ Alone(Load(p)) \/ Alone(Validate(p))
    BY <2>3, <2>8 DEF Over, Alone, Begin, Crash, Again, Load, Read, Validate
  <2> QED  BY <2>4, <2>5, <2>6, <2>7, <2>8 DEF HistoryStep
<1> QED  BY <1>1, HistoryHolds, PTL DEF HistorySpec, UndisturbedDropBounded
=============================================================================
