--------------------------- MODULE MCBundleInstall ---------------------------
(* The instance of BundleInstall that TLC checks: snapshots are named by the *)
(* number of their anchors: the embedded one, a small drop, a growth, and    *)
(* one below the floor that one drop from 86 may reach.                      *)
EXTENDS BundleInstallProofs

MCSnapshots == {100, 115, 86, 75}
MCAnchors   == [v \in MCSnapshots |-> v]
=============================================================================
