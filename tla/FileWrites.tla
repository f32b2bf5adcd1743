------------------------------ MODULE FileWrites ------------------------------
(***************************************************************************)
(* Commands that write files while others do: certlib.WriteToFile, the     *)
(* config writers of cmd/tui.go, and the plain os.WriteFile of the config  *)
(* commands, with failing writes and crashes between any two steps.        *)
(***************************************************************************)
EXTENDS Files

CONSTANTS
  Procs,               \* one per command that is run
  Outputs,             \* paths no command writes in place
  Scenarios,           \* [disk, cmds, oneByOne]: the disk and the commands of the start
  MaxFaults,           \* bound: failures and crashes
  Turn(_, _, _, _)     \* the answer of a command in its nth turn, by its memory and the disk

VARIABLES
  scenario,
  disk,                \* path -> Absent, Torn or Whole(data)
  proc,                \* [pc, turn, mem, todo] of each command
  temp,                \* the temporary file of each command: its data, or None
  faults

vars == <<scenario, disk, proc, temp, faults>>

Idle == [pc |-> "start", turn |-> 0, mem |-> None, todo |-> <<>>]

Init ==
  /\ scenario \in Scenarios
  /\ disk = scenario.disk
  /\ proc = [p \in Procs |-> Idle]
  /\ temp = [p \in Procs |-> None]
  /\ faults = 0

Running(p) == proc[p].pc \notin {"start", "done", "failed", "crashed"}

\* Some commands are run by a user who waits for one before starting the next.
MayStart(p) == p \in scenario.oneByOne => \A q \in scenario.oneByOne \ {p} : ~Running(q)

Becomes(p, pc, todo) ==
  proc' = [proc EXCEPT ![p] = [pc |-> pc, turn |-> proc[p].turn, mem |-> proc[p].mem, todo |-> todo]]
Goes(p, pc) == Becomes(p, pc, proc[p].todo)

Start(p) ==
  /\ proc[p].pc = "start" /\ scenario.cmds[p] # None /\ MayStart(p)
  /\ Goes(p, "turn")
  /\ UNCHANGED <<scenario, disk, temp, faults>>

Answer(p) == Turn(scenario.cmds[p], proc[p].turn, proc[p].mem, disk)

Think(p) ==
  /\ proc[p].pc = "turn"
  /\ \E a \in {Answer(p)} :
       proc' = [proc EXCEPT ![p] = [pc |-> a.out, turn |-> proc[p].turn + 1, mem |-> a.mem, todo |-> a.writes]]
  /\ UNCHANGED <<scenario, disk, temp, faults>>

Now(p) == Head(proc[p].todo)
Doing(p, how) == proc[p].pc = "write" /\ proc[p].todo # <<>> /\ Now(p).how = how

\* All writes of the turn are made.
Rest(p) ==
  /\ proc[p].pc = "write" /\ proc[p].todo = <<>>
  /\ Goes(p, "turn")
  /\ UNCHANGED <<scenario, disk, temp, faults>>

Written(p) == Becomes(p, "write", Tail(proc[p].todo))

\* WriteToFile: an existing file stops it unless it may be replaced.
Refuse(p) ==
  /\ Doing(p, "replace") /\ disk[Now(p).path] # Absent /\ ~Now(p).overwrite
  /\ Goes(p, "failed")
  /\ UNCHANGED <<scenario, disk, temp, faults>>

StageHere(p) ==
  /\ Doing(p, "replace") /\ (disk[Now(p).path] = Absent \/ Now(p).overwrite)
  /\ Goes(p, "staged")
  /\ temp' = [temp EXCEPT ![p] = Now(p).data]
  /\ disk' = [disk EXCEPT ![Now(p).path] = Torn]
  /\ UNCHANGED <<scenario, faults>>

\* CreateTemp, Write, Sync, Close and Chmod.
Stage(p) ==
  /\ Doing(p, "replace") /\ (disk[Now(p).path] = Absent \/ Now(p).overwrite)
  /\ Goes(p, "staged")
  /\ temp' = [temp EXCEPT ![p] = Now(p).data]
  /\ UNCHANGED <<scenario, disk, faults>>

Publish(p) ==
  /\ proc[p].pc = "staged"
  /\ disk' = [disk EXCEPT ![Now(p).path] = Whole(temp[p])]
  /\ temp' = [temp EXCEPT ![p] = None]
  /\ Written(p) /\ UNCHANGED <<scenario, faults>>

\* os.WriteFile: the file is truncated when it is opened.
Truncate(p) ==
  /\ Doing(p, "inplace")
  /\ disk' = [disk EXCEPT ![Now(p).path] = Torn]
  /\ Goes(p, "torn")
  /\ UNCHANGED <<scenario, temp, faults>>

Fill(p) ==
  /\ proc[p].pc = "torn"
  /\ disk' = [disk EXCEPT ![Now(p).path] = Whole(Now(p).data)]
  /\ Written(p) /\ UNCHANGED <<scenario, temp, faults>>

Delete(p) ==
  /\ Doing(p, "remove") /\ disk[Now(p).path] # Absent
  /\ disk' = [disk EXCEPT ![Now(p).path] = Absent]
  /\ Written(p) /\ UNCHANGED <<scenario, temp, faults>>

\* os.Remove of a file that is gone.
DeleteGone(p) ==
  /\ Doing(p, "remove") /\ disk[Now(p).path] = Absent
  /\ Goes(p, "failed")
  /\ UNCHANGED <<scenario, disk, temp, faults>>

FailLeaving(p) ==
  /\ faults < MaxFaults /\ proc[p].pc \in {"write", "staged", "torn"} /\ proc[p].todo # <<>>
  /\ faults' = faults + 1
  /\ Goes(p, "failed")
  /\ UNCHANGED <<scenario, disk, temp>>

\* A full disk, a read-only file, a lost permission: the temporary file is removed.
Fail(p) ==
  /\ faults < MaxFaults /\ proc[p].pc \in {"write", "staged", "torn"} /\ proc[p].todo # <<>>
  /\ faults' = faults + 1
  /\ Goes(p, "failed")
  /\ temp' = [temp EXCEPT ![p] = None]
  /\ UNCHANGED <<scenario, disk>>

Crash(p) ==
  /\ faults < MaxFaults /\ Running(p)
  /\ faults' = faults + 1
  /\ Goes(p, "crashed")
  /\ UNCHANGED <<scenario, disk, temp>>

Next ==
  \E p \in Procs :
    \/ Start(p) \/ Think(p) \/ Rest(p)
    \/ Refuse(p) \/ Stage(p) \/ Publish(p)
    \/ Truncate(p) \/ Fill(p) \/ Delete(p) \/ DeleteGone(p)
    \/ Fail(p) \/ Crash(p)

Spec == Init /\ [][Next]_vars

-------------------------------------------------------------------------------
\* A result file is always what it was before a command or what it is after: never
\* a part of it, whatever fails and whoever writes at the same time.
Results == INSTANCE AtomicFiles WITH file <- [q \in Outputs |-> disk[q]]
ResultsAtomic == Results!Spec

\* The commands write into a file in place, and remove, only where it is allowed.
PlansKeep ==
  \A p \in Procs : proc[p].todo # <<>> => Now(p).how = "replace" \/ Now(p).path \notin Outputs

\* A temporary file is left behind only by a command that crashed.
NoStrayTemp == \A p \in Procs : temp[p] # None => proc[p].pc \in {"staged", "crashed"}
===============================================================================
