---------------------------- MODULE BundleInstall ----------------------------
(***************************************************************************)
(* internal/certlib/truststore/bundle.go and internal/certops/             *)
(* bundle_update.go: one root bundle on disk, the processes that load it   *)
(* and the processes that refresh it (`certdiag store update`).            *)
(*                                                                         *)
(* A bundle is three files, each replaced by an atomic rename; a load      *)
(* reads them one after the other.  Any process may crash between two      *)
(* steps.  A snapshot stands for the vendor's list of one day; each file   *)
(* holds the part of one snapshot.                                         *)
(***************************************************************************)
EXTENDS Naturals, FiniteSets

CONSTANTS
  Procs,       \* processes that load the bundle
  Updaters,    \* the ones of them that go on to install a snapshot
  Snapshots,   \* snapshots the vendor may be found to publish
  Embedded,    \* the snapshot compiled into the binary
  Anchors,     \* trusted roots of each snapshot
  Denying,     \* snapshots with explicitly distrusted roots
  MinAnchors,  \* MinTrustAnchors
  MaxDrop,     \* MaxAnchorDropFraction, in percent
  MaxFaults,   \* bound: crashes and failing file operations
  None

ASSUME BundleAssumption ==
  /\ Updaters \subseteq Procs
  /\ Embedded \in Snapshots /\ None \notin Snapshots
  /\ Denying \subseteq Snapshots
  /\ Anchors \in [Snapshots -> Nat]
  /\ MinAnchors \in Nat /\ MaxDrop \in Nat /\ MaxFaults \in Nat
  /\ Anchors[Embedded] >= MinAnchors

Parts == {"manifest", "trusted", "distrusted"}
Maybe == Snapshots \cup {None}

VARIABLES
  disk,     \* the snapshot each file holds a part of
  pc,       \* progress of each process
  want,     \* the snapshot an updater fetched
  got,      \* what each process read, file by file
  faults    \* crashes and failing file operations so far

vars == <<disk, pc, want, got, faults>>

TypeOK ==
  /\ disk \in [Parts -> Maybe] /\ disk["distrusted"] \in Denying \cup {None}
  /\ pc \in [Procs -> {"idle", "manifest", "trusted", "distrusted", "loaded",
                       "write", "deny", "seal", "written", "failed"}]
  /\ want \in [Procs -> Maybe]
  /\ got \in [Procs -> [Parts -> Maybe]]
  /\ faults \in 0..MaxFaults

Init ==
  /\ disk = [f \in Parts |-> None]
  /\ pc = [p \in Procs |-> "idle"]
  /\ want = [p \in Procs |-> None]
  /\ got = [p \in Procs |-> [f \in Parts |-> None]]
  /\ faults = 0

To(p, from, to) == pc[p] = from /\ pc' = [pc EXCEPT ![p] = to]

-----------------------------------------------------------------------------
(* Loading.                                                                *)

\* A plain load starts at once; an update fetches and parses a snapshot first.
Begin(p) ==
  /\ To(p, "idle", "manifest")
  /\ want' \in {[want EXCEPT ![p] = v] : v \in IF p \in Updaters THEN Snapshots ELSE {None}}
  /\ got' = [got EXCEPT ![p] = [f \in Parts |-> None]]
  /\ UNCHANGED <<disk, faults>>

\* The compiled-in parts: a snapshot without distrusted roots has no such file.
Part(v, f) == IF f = "distrusted" /\ v \notin Denying THEN None ELSE v

\* A manifest or trusted file that is not there sends the load to the embedded copy.
Read(p, f, next) ==
  /\ pc[p] = f
  /\ IF disk[f] = None /\ f # "distrusted"
     THEN /\ got' = [got EXCEPT ![p] = [g \in Parts |-> Part(Embedded, g)]]
          /\ pc' = [pc EXCEPT ![p] = "loaded"]
     ELSE /\ got' = [got EXCEPT ![p][f] = disk[f]]
          /\ pc' = [pc EXCEPT ![p] = next]
  /\ UNCHANGED <<disk, want, faults>>

Load(p) == Read(p, "manifest", "trusted") \/ Read(p, "trusted", "distrusted") \/ Read(p, "distrusted", "loaded")

-----------------------------------------------------------------------------
(* Installing.                                                             *)

FloorMet(v) == Anchors[v] >= MinAnchors

\* The drop is measured against the count in the manifest that was loaded.
NoDrop(v, previous) == 100 * Anchors[previous] <= 100 * Anchors[v] + MaxDrop * Anchors[previous]
DropOnly(v, previous)       == NoDrop(v, previous)
FloorOnly(v, previous)      == FloorMet(v)
ValidateParsed(v, previous) == FloorMet(v) /\ NoDrop(v, previous)

\* A dry run stops after the validation, like a refused one.
Validate(p) ==
  /\ p \in Updaters /\ pc[p] = "loaded"
  /\ \/ ValidateParsed(want[p], got[p]["manifest"]) /\ pc' = [pc EXCEPT ![p] = "write"]
     \/ pc' = [pc EXCEPT ![p] = "failed"]
  /\ got' = [got EXCEPT ![p] = [f \in Parts |-> None]]   \* not needed any more
  /\ UNCHANGED <<disk, want, faults>>

Fault == faults < MaxFaults /\ faults' = faults + 1

\* WriteBundleFiles: three renames.  Each may fail and end the update; only the
\* outcome of removing an obsolete distrusted file is ignored.
Rename(p, from, f, to) ==
  \/ To(p, from, to) /\ disk' = [disk EXCEPT ![f] = want[p]] /\ UNCHANGED <<want, got, faults>>
  \/ To(p, from, "failed") /\ Fault /\ UNCHANGED <<disk, want, got>>

ManifestFirst(p) == Rename(p, "write", "manifest", "deny")
WriteTrusted(p)  == Rename(p, "write", "trusted", "deny")

AlwaysDistrusted(p) == Rename(p, "deny", "distrusted", "seal")
WriteDistrusted(p) ==
  IF want[p] \in Denying THEN Rename(p, "deny", "distrusted", "seal")
  ELSE /\ To(p, "deny", "seal")
       /\ \/ disk' = [disk EXCEPT !["distrusted"] = None] /\ UNCHANGED faults
          \/ disk' = disk /\ Fault
       /\ UNCHANGED <<want, got>>

UnsealedFirst(p) == IF disk["manifest"] = None THEN Rename(p, "seal", "manifest", "written")
                    ELSE To(p, "seal", "written") /\ UNCHANGED <<disk, want, got, faults>>
WriteManifest(p) == Rename(p, "seal", "manifest", "written")

-----------------------------------------------------------------------------
\* The process dies; the temporary file it leaves is never read.
Crash(p) ==
  /\ Fault
  /\ pc[p] \notin {"idle", "loaded", "written", "failed"} /\ pc' = [pc EXCEPT ![p] = "failed"]
  /\ UNCHANGED <<disk, want, got>>

\* The next invocation.
Again(p) ==
  /\ pc[p] \in {"written", "failed"} \/ (p \notin Updaters /\ pc[p] = "loaded")
  /\ pc' = [pc EXCEPT ![p] = "idle"]
  /\ want' = [want EXCEPT ![p] = None]
  /\ got' = [got EXCEPT ![p] = [f \in Parts |-> None]]
  /\ UNCHANGED <<disk, faults>>

Next == \E p \in Procs :
  \/ Begin(p) \/ Load(p) \/ Validate(p) \/ WriteTrusted(p) \/ WriteDistrusted(p)
  \/ WriteManifest(p) \/ Crash(p) \/ Again(p)

Spec == Init /\ [][Next]_vars

-----------------------------------------------------------------------------
(* Properties.                                                             *)

\* Whatever faults and overlaps, no trusted list that is on disk or that a
\* process has loaded is below the floor: a truncated fetch never takes over.
FloorHolds ==
  /\ disk["trusted"] # None => FloorMet(disk["trusted"])
  /\ \A p \in Procs : got[p]["trusted"] # None => FloorMet(got[p]["trusted"])

\* The manifest is the commit point: once a load finds one it finds a trusted
\* list too and need not go back to the compiled-in copy.
ManifestCommits == disk["manifest"] # None => disk["trusted"] # None

\* What no fault and no overlap breaks of an install (WriteBundleFiles, ValidateParsed).
Installed == TypeOK /\ FloorHolds /\ ManifestCommits

\* The anchors a load would use: a bundle that is not whole is left for the compiled-in one.
InEffect(d) == IF d["manifest"] = None \/ d["trusted"] = None THEN Embedded ELSE d["trusted"]

\* Known not to hold when a load overlaps an install (README, Known divergences):
\* a load sees one snapshot ("writes a rendered snapshot into dir atomically").
LoadsOneSnapshot ==
  \A p \in Procs : pc[p] = "loaded" =>
    \E v \in Snapshots : \A f \in Parts : got[p][f] = Part(v, f)
=============================================================================
