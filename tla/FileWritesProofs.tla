--------------------------- MODULE FileWritesProofs ---------------------------
(***************************************************************************)
(* For any commands, any disk and any number of faults: a temporary file   *)
(* is left only by a crash, FileWrites implements AtomicFiles as long as   *)
(* no command writes into a result file in place, and the passwords of the *)
(* config survive the commands that rewrite it.                            *)
(***************************************************************************)
EXTENDS ConfigFile, TLAPS

\* What the proofs ask of the start: every result file has a place, and is whole or absent.
StartsWhole ==
  /\ \A d : Whole(d) # Torn
  /\ \A s \in Scenarios :
       /\ s.disk = [q \in DOMAIN s.disk |-> s.disk[q]]
       /\ \A q \in Outputs : q \in DOMAIN s.disk /\ s.disk[q] # Torn

Shape ==
  /\ proc = [p \in Procs |-> proc[p]]
  /\ temp = [p \in Procs |-> temp[p]]
  /\ disk = [q \in DOMAIN disk |-> disk[q]]
  /\ Outputs \subseteq DOMAIN disk

\* A turn ends with writes, an error or nothing more to do.
TurnsAnswer == \A c, n, m, d : Turn(c, n, m, d).out \in {"write", "failed", "done"}

\* A file that is being written in place was planned to be.
FillsPlan == \A p \in Procs : proc[p].pc = "torn" => proc[p].todo # <<>> /\ Now(p).how = "inplace"

Inv == Shape /\ NoStrayTemp

LEMMA Becoming ==
  ASSUME Shape, NEW p \in Procs, NEW pc, NEW todo, Becomes(p, pc, todo)
  PROVE  /\ proc' = [x \in Procs |-> proc'[x]]
         /\ proc'[p].pc = pc
         /\ \A x \in Procs : x # p => proc'[x] = proc[x]
BY DEF Shape, Becomes

LEMMA TempSet ==
  ASSUME Shape, NEW p \in Procs, NEW d, temp' = [temp EXCEPT ![p] = d]
  PROVE  temp' = [x \in Procs |-> temp'[x]] /\ temp'[p] = d /\ \A x \in Procs : x # p => temp'[x] = temp[x]
BY DEF Shape

LEMMA DiskSet ==
  ASSUME Shape, NEW q, NEW d, disk' = [disk EXCEPT ![q] = d]
  PROVE  disk' = [x \in DOMAIN disk' |-> disk'[x]] /\ Outputs \subseteq DOMAIN disk'
BY DEF Shape

\* A command that holds no temporary file goes on without one.
LEMMA GoingOn ==
  ASSUME Inv, NEW p \in Procs, NEW pc, NEW todo, Becomes(p, pc, todo), proc[p].pc \notin {"staged", "crashed"},
         UNCHANGED temp, disk' = [x \in DOMAIN disk' |-> disk'[x]] /\ Outputs \subseteq DOMAIN disk'
  PROVE  Inv'
<1>1. temp[p] = None BY DEF Inv, NoStrayTemp
<1>2. Shape BY DEF Inv
<1>3. /\ proc' = [x \in Procs |-> proc'[x]]
      /\ \A x \in Procs : x # p => proc'[x] = proc[x]
  BY <1>2, Becoming
<1> QED BY <1>1, <1>2, <1>3 DEF Inv, Shape, NoStrayTemp

LEMMA StepKeepsInv ==
  ASSUME Inv, [Next]_vars PROVE Inv'
<1> Shape BY DEF Inv
<1>1. CASE UNCHANGED vars
  BY <1>1 DEF Inv, Shape, NoStrayTemp, vars
<1>2. ASSUME NEW p \in Procs, Start(p) \/ Rest(p) \/ Refuse(p) \/ DeleteGone(p) PROVE Inv'
  <2>1. PICK pc : Becomes(p, pc, proc[p].todo)
    BY <1>2 DEF Start, Rest, Refuse, DeleteGone, Goes
  <2>2. proc[p].pc \notin {"staged", "crashed"} /\ UNCHANGED <<temp, disk>>
    BY <1>2 DEF Start, Rest, Refuse, DeleteGone, Doing
  <2> QED BY <2>1, <2>2, GoingOn DEF Shape
<1>3. ASSUME NEW p \in Procs, Think(p) PROVE Inv'
  <2>1. temp[p] = None BY <1>3 DEF Inv, NoStrayTemp, Think
  <2>2. proc' = [x \in Procs |-> proc'[x]] /\ \A x \in Procs : x # p => proc'[x] = proc[x]
    BY <1>3 DEF Shape, Think
  <2> QED BY <1>3, <2>1, <2>2 DEF Inv, Shape, NoStrayTemp, Think
<1>4. ASSUME NEW p \in Procs, Stage(p) PROVE Inv'
  <2>1. Becomes(p, "staged", proc[p].todo) /\ temp' = [temp EXCEPT ![p] = Now(p).data] /\ UNCHANGED disk
    BY <1>4 DEF Stage, Goes
  <2>2. proc' = [x \in Procs |-> proc'[x]] /\ proc'[p].pc = "staged" /\ \A x \in Procs : x # p => proc'[x] = proc[x]
    BY <2>1, Becoming
  <2>3. temp' = [x \in Procs |-> temp'[x]] /\ \A x \in Procs : x # p => temp'[x] = temp[x]
    BY <2>1, TempSet
  <2> QED BY <2>1, <2>2, <2>3 DEF Inv, Shape, NoStrayTemp
<1>5. ASSUME NEW p \in Procs, Publish(p) \/ Fail(p) PROVE Inv'
  <2>1. /\ temp' = [temp EXCEPT ![p] = None]
        /\ \E pc, todo : Becomes(p, pc, todo)
        /\ UNCHANGED disk \/ disk' = [disk EXCEPT ![Now(p).path] = Whole(temp[p])]
    BY <1>5 DEF Publish, Fail, Written, Goes
  <2>2. proc' = [x \in Procs |-> proc'[x]] /\ \A x \in Procs : x # p => proc'[x] = proc[x]
    BY <2>1, Becoming
  <2>3. temp' = [x \in Procs |-> temp'[x]] /\ temp'[p] = None /\ \A x \in Procs : x # p => temp'[x] = temp[x]
    BY <2>1, TempSet
  <2>4. disk' = [x \in DOMAIN disk' |-> disk'[x]] /\ Outputs \subseteq DOMAIN disk'
    BY <2>1, DiskSet DEF Shape
  <2> QED BY <2>2, <2>3, <2>4 DEF Inv, Shape, NoStrayTemp
<1>6. ASSUME NEW p \in Procs, Truncate(p) \/ Fill(p) \/ Delete(p) PROVE Inv'
  <2>1. PICK pc, todo : Becomes(p, pc, todo)
    BY <1>6 DEF Truncate, Fill, Delete, Written, Goes
  <2>2. proc[p].pc \notin {"staged", "crashed"} /\ UNCHANGED temp
    BY <1>6 DEF Truncate, Fill, Delete, Doing
  <2>3. PICK d : disk' = [disk EXCEPT ![Now(p).path] = d]
    BY <1>6 DEF Truncate, Fill, Delete
  <2>4. disk' = [x \in DOMAIN disk' |-> disk'[x]] /\ Outputs \subseteq DOMAIN disk'
    BY <2>3, DiskSet
  <2> QED BY <2>1, <2>2, <2>4, GoingOn
<1>7. ASSUME NEW p \in Procs, Crash(p) PROVE Inv'
  <2>1. Becomes(p, "crashed", proc[p].todo) /\ UNCHANGED <<temp, disk>>
    BY <1>7 DEF Crash, Goes
  <2>2. proc' = [x \in Procs |-> proc'[x]] /\ proc'[p].pc = "crashed" /\ \A x \in Procs : x # p => proc'[x] = proc[x]
    BY <2>1, Becoming
  <2> QED BY <2>1, <2>2 DEF Inv, Shape, NoStrayTemp
<1> QED BY <1>1, <1>2, <1>3, <1>4, <1>5, <1>6, <1>7 DEF Next

LEMMA InitInv ==
  ASSUME StartsWhole, Init PROVE Inv /\ Results!Init
<1>1. scenario \in Scenarios /\ disk = scenario.disk BY DEF Init
<1>2. disk = [q \in DOMAIN disk |-> disk[q]] /\ \A q \in Outputs : q \in DOMAIN disk /\ disk[q] # Torn
  BY <1>1 DEF StartsWhole
<1>3. Shape BY <1>2 DEF Init, Shape
<1>4. NoStrayTemp BY DEF Init, NoStrayTemp
<1> QED BY <1>2, <1>3, <1>4 DEF Inv, Results!Init

\* A temporary file is left behind only by a command that crashed before it renamed or
\* removed it (the deferred Remove of WriteToFile, certlib/writer.go:564-567).
THEOREM NoStray == ASSUME StartsWhole PROVE Spec => []NoStrayTemp
<1>1. Init => Inv BY InitInv
<1>2. Inv /\ [Next]_vars => Inv' BY StepKeepsInv
<1>3. Inv => NoStrayTemp BY DEF Inv
<1> QED BY <1>1, <1>2, <1>3, PTL DEF Spec

ResultFiles == [q \in Outputs |-> disk[q]]

\* The write of one path changes at most that result file.
LEMMA OneFile ==
  ASSUME Shape, NEW q, NEW d, q \in Outputs => d # Torn, disk' = [disk EXCEPT ![q] = d]
  PROVE  [Results!Next]_ResultFiles
<1>1. CASE q \notin Outputs
  <2>1. ResultFiles' = ResultFiles BY <1>1 DEF Shape, ResultFiles
  <2> QED BY <2>1
<1>2. CASE q \in Outputs
  <2>1. ResultFiles' = [ResultFiles EXCEPT ![q] = ResultFiles'[q]] BY <1>2 DEF Shape, ResultFiles
  <2>2. ResultFiles'[q] # Torn BY <1>2 DEF Shape, ResultFiles
  <2>3. q \in DOMAIN ResultFiles BY <1>2 DEF ResultFiles
  <2> QED BY <2>1, <2>2, <2>3 DEF Results!Next, Results!Publish, ResultFiles
<1> QED BY <1>1, <1>2

LEMMA KeepsFillsPlan ==
  ASSUME TurnsAnswer, Shape, FillsPlan, [Next]_vars PROVE FillsPlan'
<1>1. CASE UNCHANGED vars
  BY <1>1 DEF FillsPlan, Now, vars
<1>2. ASSUME NEW p \in Procs, Truncate(p) PROVE FillsPlan'
  <2>1. Becomes(p, "torn", proc[p].todo) /\ proc[p].todo # <<>> /\ Now(p).how = "inplace"
    BY <1>2 DEF Truncate, Doing, Goes
  <2>2. proc'[p].todo = proc[p].todo /\ \A x \in Procs : x # p => proc'[x] = proc[x]
    BY <2>1 DEF Shape, Becomes
  <2> QED BY <2>1, <2>2 DEF FillsPlan, Now
<1>3. ASSUME NEW p \in Procs, NEW pc, NEW todo, Becomes(p, pc, todo), pc # "torn" PROVE FillsPlan'
  <2>1. proc'[p].pc = pc /\ \A x \in Procs : x # p => proc'[x] = proc[x]
    BY <1>3, Becoming
  <2> QED BY <1>3, <2>1 DEF FillsPlan, Now
<1>4. ASSUME NEW p \in Procs, Think(p) PROVE FillsPlan'
  <2>1. proc'[p].pc # "torn" /\ \A x \in Procs : x # p => proc'[x] = proc[x]
    BY <1>4 DEF Think, Answer, TurnsAnswer, Shape
  <2> QED BY <2>1 DEF FillsPlan, Now
<1>5. ASSUME NEW p \in Procs,
             Start(p) \/ Rest(p) \/ Refuse(p) \/ Stage(p) \/ Publish(p) \/ Fill(p) \/ Delete(p) \/ DeleteGone(p)
               \/ Fail(p) \/ Crash(p)
      PROVE  FillsPlan'
  <2>1. \E pc, todo : pc # "torn" /\ Becomes(p, pc, todo)
    BY <1>5 DEF Start, Rest, Refuse, Stage, Publish, Fill, Delete, DeleteGone, Fail, Crash, Goes, Written
  <2> QED BY <2>1, <1>3
<1> QED BY <1>1, <1>2, <1>4, <1>5 DEF Next

\* A command writes in place, and removes, only where its plan may.
LEMMA InPlaceElsewhere ==
  ASSUME PlansKeep, FillsPlan, NEW p \in Procs, Truncate(p) \/ Fill(p) \/ Delete(p)
  PROVE  Now(p).path \notin Outputs
<1>1. proc[p].todo # <<>> /\ Now(p).how # "replace"
  BY DEF Truncate, Fill, Delete, Doing, FillsPlan
<1> QED BY <1>1 DEF PlansKeep

LEMMA StepRefines ==
  ASSUME StartsWhole, Shape, FillsPlan, PlansKeep, [Next]_vars
  PROVE  [Results!Next]_ResultFiles
<1>1. CASE UNCHANGED disk
  BY <1>1 DEF ResultFiles
<1>2. ASSUME NEW p \in Procs, Publish(p) PROVE [Results!Next]_ResultFiles
  <2>1. Whole(temp[p]) # Torn BY DEF StartsWhole
  <2> QED BY <1>2, <2>1, OneFile DEF Publish
<1>3. ASSUME NEW p \in Procs, Truncate(p) \/ Fill(p) \/ Delete(p) PROVE [Results!Next]_ResultFiles
  <2>1. PICK d : disk' = [disk EXCEPT ![Now(p).path] = d]
    BY <1>3 DEF Truncate, Fill, Delete
  <2>2. Now(p).path \notin Outputs BY <1>3, InPlaceElsewhere
  <2> QED BY <2>1, <2>2, OneFile
<1>4. ASSUME NEW p \in Procs,
             Start(p) \/ Think(p) \/ Rest(p) \/ Refuse(p) \/ Stage(p) \/ DeleteGone(p) \/ Fail(p) \/ Crash(p)
      PROVE  UNCHANGED disk
  BY <1>4 DEF Start, Think, Rest, Refuse, Stage, DeleteGone, Fail, Crash
<1>5. UNCHANGED vars => UNCHANGED disk BY DEF vars
<1> QED BY <1>1, <1>2, <1>3, <1>4, <1>5 DEF Next

\* Whatever is run, fails or crashes, the result files change one at a time and each is
\* never a part of a result: WriteToFile (certlib/writer.go:543-592) implements AtomicFiles,
\* as long as the commands that write in place keep off the result files.
THEOREM WritesAreAtomic ==
  ASSUME StartsWhole, TurnsAnswer PROVE Spec /\ []PlansKeep => ResultsAtomic
<1>1. Init => Inv /\ Results!Init BY InitInv
<1>2. Init => FillsPlan BY DEF Init, Idle, FillsPlan
<1>3. Inv /\ FillsPlan /\ [Next]_vars => Inv' /\ FillsPlan'
  BY StepKeepsInv, KeepsFillsPlan DEF Inv
<1>4. Inv /\ FillsPlan /\ PlansKeep /\ [Next]_vars => [Results!Next]_ResultFiles
  BY StepRefines DEF Inv
<1> QED BY <1>1, <1>2, <1>3, <1>4, PTL DEF Spec, ResultsAtomic, Results!Spec, ResultFiles
-----------------------------------------------------------------------------
(* ConfigFile: the passwords survive.                                       *)

Wanted == UNION {scenario.disk[q].data.secrets : q \in {x \in {Preferred, Legacy} : scenario.disk[x] # Absent}}

\* A config with the passwords in it, and a file that is one.
Fine(d) == d = Config(d.secrets, d.key, d.opts) /\ Wanted \subseteq d.secrets /\ d.key \in MasterKeys
FineAt(q) == disk[q] \notin {Absent, Torn} /\ Fine(disk[q].data)

\* The passwords are at the preferred place, where they stay, or still at the old one and
\* the preferred one has nothing that can be loaded.  A place that is torn has its backup.
Moved == FineAt(Preferred) \/ (disk[Preferred] = Torn /\ FineAt(BackupOf[Preferred]))
Unmoved ==
  /\ FineAt(Legacy) \/ (disk[Legacy] = Torn /\ FineAt(BackupOf[Legacy]))
  /\ disk[Preferred] \in {Absent, Torn, Whole(Blank)} /\ disk[BackupOf[Preferred]] = Absent
HomeIs(path) == (path = Preferred /\ Moved) \/ (path = Legacy /\ Unmoved)
Current == IF disk[Preferred] = Absent THEN Legacy ELSE Preferred

\* The TUI that saves options writes what it read, and makes an example only at the old
\* place and only once the passwords have moved.
Aside(p) == Moved /\ proc[p].mem = Legacy
SavePlan(p) ==
  LET me == proc[p] IN
  /\ me.turn = 0 => me.todo = <<>>
  /\ me.turn # 0 => me.mem \in {Preferred, Legacy} /\ (Unmoved => me.mem = Legacy)
  /\ \/ me.todo = <<>>
     \/ me.todo = <<InPlace(me.mem, Example)>> /\ Aside(p)
     \/ \E d : me.todo = <<Replace(me.mem, d, TRUE)>> /\ (Fine(d) \/ Aside(p))
  /\ me.pc = "staged" => Fine(temp[p]) \/ Aside(p)

\* What change-master-key read is sound or will not be used; what it writes is sound, the
\* backup first.
KeyPlan(p) ==
  LET me == proc[p] path == me.mem.path IN
  /\ me.turn = 0 => me.todo = <<>>
  /\ me.turn = 1 => /\ me.todo = <<>> /\ path = Current
                    /\ \/ Fine(me.mem.raw)
                       \/ Unmoved /\ path = Preferred
                       \/ Runs(scenario, "save") = {} /\ disk[path] = Torn
  /\ me.turn \notin {0, 1} /\ me.todo # <<>> =>
       /\ HomeIs(path)
       /\ \/ \E raw, new : /\ me.todo = <<InPlace(BackupOf[path], raw), InPlace(path, new)>>
                           /\ Fine(raw) /\ Fine(new) /\ FineAt(path)
          \/ \E new : me.todo = <<InPlace(path, new)>> /\ Fine(new) /\ FineAt(BackupOf[path])

\* config migrate copies what may be nothing, but removes the original only for a copy
\* that has the passwords.
MovePlan(p) ==
  LET me == proc[p] IN
  /\ me.turn = 0 => me.todo = <<>>
  /\ me.turn = 1 => \/ \E d : me.todo = <<InPlace(Preferred, d)>> /\ Unmoved /\ (Fine(d) \/ d = Blank)
                    \/ me.todo = <<>> /\ (Unmoved \/ FineAt(Preferred))
  /\ me.turn \notin {0, 1} => \/ me.todo = <<>>
                              \/ me.todo = <<Unlink(Preferred)>> /\ Unmoved
                              \/ me.todo = <<Unlink(Legacy)>> /\ FineAt(Preferred)

Stages == {"start", "turn", "write", "staged", "torn", "done", "failed", "crashed"}
Plan(p) ==
  LET cmd == scenario.cmds[p] IN
  /\ cmd # None
  /\ cmd.op = "save" => SavePlan(p)
  /\ cmd.op = "change-key" => KeyPlan(p)
  /\ cmd.op = "migrate" => MovePlan(p)
  /\ cmd.op = "init" => proc[p].todo = <<>>
  /\ proc[p].pc = "turn" => proc[p].todo = <<>>
  /\ proc[p].pc = "staged" => proc[p].todo # <<>> /\ Now(p).how = "replace"
  /\ proc[p].pc = "torn" => proc[p].todo # <<>> /\ Now(p).how = "inplace"
Steady(p) ==
  /\ proc[p].pc \in Stages /\ proc[p].turn \in Nat
  /\ proc[p].pc = "start" => proc[p].turn = 0 /\ proc[p].todo = <<>>
  /\ Running(p) => Plan(p)

OneAtATime == \A p, q \in scenario.oneByOne \cap Procs : Running(p) /\ Running(q) => p = q
\* Only a change of the master key leaves its place torn.
TornByKey ==
  (Moved /\ disk[Preferred] = Torn) \/ (Unmoved /\ disk[Legacy] = Torn)
    => \E c \in Runs(scenario, "change-key") : proc[c].turn \notin {0, 1}
KeptInv ==
  /\ scenario \in Scenarios /\ HasPasswords(scenario) /\ Wanted # {}
  /\ Moved \/ Unmoved
  /\ \A p \in Procs : Steady(p)
  /\ OneAtATime /\ TornByKey

(* What the proof asks of the start and of the commands.                   *)
ConfigStarts ==
  /\ Absent # Torn /\ \A d : Whole(d) \notin {Absent, Torn}
  /\ \A s \in Scenarios : s.disk = [q \in DOMAIN s.disk |-> s.disk[q]] /\ ConfigPaths \subseteq DOMAIN s.disk
TurnsAreConfig == \A c, n, m, d : c.op \in ConfigOps => Turn(c, n, m, d) = ConfigTurn(c, n, m, d)

ConfigShape ==
  /\ proc = [p \in Procs |-> proc[p]]
  /\ temp = [p \in Procs |-> temp[p]]
  /\ disk = [q \in DOMAIN disk |-> disk[q]]
  /\ ConfigPaths \subseteq DOMAIN disk

LEMMA HeadTail ==
  ASSUME NEW v, NEW w
  PROVE  /\ Head(<<v>>) = v /\ Tail(<<v>>) = <<>> /\ <<v>> # <<>>
         /\ Head(<<v, w>>) = v /\ Tail(<<v, w>>) = <<w>> /\ <<v, w>> # <<>>
OBVIOUS

LEMMA PathsApart ==
  /\ Preferred # Legacy /\ None \notin {Preferred, Legacy}
  /\ BackupOf[Preferred] \notin {Preferred, Legacy, BackupOf[Legacy]}
  /\ BackupOf[Legacy] \notin {Preferred, Legacy}
  /\ Preferred \in ConfigPaths /\ Legacy \in ConfigPaths
  /\ BackupOf[Preferred] \in ConfigPaths /\ BackupOf[Legacy] \in ConfigPaths
BY ConfigAssumption DEF ConfigPaths

\* What is known of the scenario.
LEMMA Given ==
  ASSUME ScenariosFit, KeptInv
  PROVE  OneConfig(scenario) /\ ConfigCommands(scenario) /\ SavesBesideOne(scenario)
BY DEF ScenariosFit, KeptInv

LEMMA FineIsNotBlank == ASSUME Wanted # {}, NEW d, Fine(d) PROVE d # Blank /\ d.secrets # {}
BY DEF Fine, Blank, Config

LEMMA FineStays == ASSUME UNCHANGED scenario PROVE (\A d : Fine(d)' <=> Fine(d)) /\ Wanted' = Wanted
BY DEF Fine, Wanted

\* Rewriting keeps the passwords.
LEMMA RewrittenFine == ASSUME NEW d, Fine(d), NEW o PROVE Fine(Rewritten(d, o))
BY DEF Fine, Rewritten, Config
LEMMA ReencryptedFine ==
  ASSUME NEW d, Fine(d), NEW c, NEW k \in MasterKeys PROVE Fine(Reencrypted(d, c, k))
BY DEF Fine, Reencrypted, Config

LEMMA PlaceStays ==
  ASSUME UNCHANGED <<scenario, disk>>
  PROVE  /\ Moved' <=> Moved
         /\ Unmoved' <=> Unmoved
         /\ Current' = Current
         /\ \A q : FineAt(q)' <=> FineAt(q)
         /\ \A q : HomeIs(q)' <=> HomeIs(q)
BY FineStays DEF Moved, Unmoved, Current, FineAt, HomeIs

LEMMA SteadyElsewhere ==
  ASSUME UNCHANGED <<scenario, disk>>, NEW q, Steady(q), proc'[q] = proc[q], temp'[q] = temp[q]
  PROVE  Steady(q)'
<1>1. SavePlan(q)' <=> SavePlan(q) BY PlaceStays, FineStays DEF SavePlan, Aside
<1>2. KeyPlan(q)' <=> KeyPlan(q) BY PlaceStays, FineStays DEF KeyPlan, Runs
<1>3. MovePlan(q)' <=> MovePlan(q) BY PlaceStays, FineStays DEF MovePlan
<1>4. Running(q)' <=> Running(q) BY DEF Running
<1> QED BY <1>1, <1>2, <1>3, <1>4 DEF Steady, Plan, Now

\* A step that leaves the disk alone.
LEMMA QuietStep ==
  ASSUME KeptInv, NEW p \in Procs, UNCHANGED <<scenario, disk>>, Steady(p)', OneAtATime',
         \A x \in Procs : x # p => proc'[x] = proc[x] /\ temp'[x] = temp[x],
         proc'[p].turn \in {proc[p].turn, proc[p].turn + 1}
  PROVE  KeptInv'
<1>1. \A x \in Procs : Steady(x)' BY SteadyElsewhere DEF KeptInv
<1>2. TornByKey'
  <2> SUFFICES ASSUME (Moved /\ disk[Preferred] = Torn) \/ (Unmoved /\ disk[Legacy] = Torn)
               PROVE  \E c \in Runs(scenario, "change-key") : proc'[c].turn \notin {0, 1}
    BY PlaceStays DEF TornByKey, Runs
  <2>1. PICK c \in Runs(scenario, "change-key") : proc[c].turn \notin {0, 1} BY DEF KeptInv, TornByKey
  <2>2. c \in Procs /\ proc[c].turn \in Nat BY <2>1 DEF Runs, KeptInv, Steady
  <2>3. proc'[c].turn \notin {0, 1} BY <2>1, <2>2
  <2> QED BY <2>1, <2>3
<1>3. Moved' \/ Unmoved' BY PlaceStays DEF KeptInv
<1>4. Wanted' # {} /\ HasPasswords(scenario)' BY FineStays DEF KeptInv, HasPasswords
<1> QED BY <1>1, <1>2, <1>3, <1>4 DEF KeptInv

\* Nobody new runs.
LEMMA NobodyStarts ==
  ASSUME KeptInv, NEW p \in Procs, UNCHANGED scenario, Running(p)' => Running(p),
         \A x \in Procs : x # p => proc'[x] = proc[x]
  PROVE  OneAtATime'
<1>1. \A x \in Procs : Running(x)' => Running(x) BY DEF Running
<1> QED BY <1>1 DEF KeptInv, OneAtATime

LEMMA OnePlace == ASSUME KeptInv, ConfigStarts PROVE ~(Moved /\ Unmoved)
<1> SUFFICES ASSUME Moved, Unmoved PROVE FALSE OBVIOUS
<1>1. disk[BackupOf[Preferred]] = Absent /\ disk[Preferred] \in {Absent, Torn, Whole(Blank)} BY DEF Unmoved
<1>2. FineAt(Preferred) BY <1>1 DEF Moved, FineAt
<1>3. Fine(Blank) BY <1>1, <1>2 DEF FineAt, Whole
<1> QED BY <1>3, FineIsNotBlank DEF KeptInv

\* Without a file named, the commands use the preferred place once something is there.
LEMMA Resolves ==
  ASSUME KeptInv, ConfigStarts
  PROVE  /\ ResolvePath(None, disk) = Current /\ Current \in {Preferred, Legacy} /\ disk[Current] # Absent
         /\ Moved => Current = Preferred
<1>1. Moved => disk[Preferred] # Absent BY DEF Moved, FineAt, ConfigStarts
<1>2. Unmoved => disk[Legacy] # Absent BY DEF Unmoved, FineAt, ConfigStarts
<1> QED BY <1>1, <1>2 DEF ResolvePath, Current, KeptInv

\* What can be loaded has the passwords.
LEMMA LoadsFine ==
  ASSUME KeptInv, ConfigStarts, Raw(disk[Current]) # Blank
  PROVE  HomeIs(Current) /\ FineAt(Current)
<1>1. disk[Current] # Torn /\ disk[Current] # Absent /\ disk[Current] # Whole(Blank)
  BY Resolves DEF Raw, Whole
<1>2. CASE Moved BY <1>1, <1>2, Resolves DEF Moved, HomeIs
<1>3. CASE Unmoved
  <2>1. Current = Legacy BY <1>1, <1>3, Resolves DEF Unmoved
  <2> QED BY <1>1, <1>3, <2>1 DEF Unmoved, HomeIs
<1> QED BY <1>2, <1>3 DEF KeptInv

LEMMA Thought ==
  ASSUME ConfigShape, NEW p \in Procs, Think(p), NEW a, a = Answer(p)
  PROVE  /\ proc[p].pc = "turn" /\ UNCHANGED <<scenario, disk, temp>>
         /\ proc'[p].pc = a.out /\ proc'[p].turn = proc[p].turn + 1 /\ proc'[p].mem = a.mem /\ proc'[p].todo = a.writes
         /\ \A x \in Procs : x # p => proc'[x] = proc[x]
         /\ proc' = [x \in Procs |-> proc'[x]]
BY DEF ConfigShape, Think

LEMMA Stopped ==
  ASSUME NEW p \in Procs, Steady(p), proc'[p].pc \in {"done", "failed", "crashed"}, proc'[p].turn \in Nat
  PROVE  Steady(p)'
BY DEF Steady, Running, Stages

\* A turn of the TUI that saves options.
LEMMA ThinkSave ==
  ASSUME KeptInv, ConfigStarts, ConfigShape, ScenariosFit, NEW p \in Procs, proc[p].pc = "turn", p \in Runs(scenario, "save"),
         UNCHANGED <<scenario, disk, temp>>, NEW a, a = SaveTurn(scenario.cmds[p], proc[p].turn, proc[p].mem, disk),
         proc'[p].pc = a.out, proc'[p].turn = proc[p].turn + 1, proc'[p].mem = a.mem, proc'[p].todo = a.writes
  PROVE  Steady(p)'
<1> DEFINE path == proc[p].mem
<1>1. /\ Steady(p) /\ Running(p) /\ proc[p].turn \in Nat /\ scenario.cmds[p] # None /\ scenario.cmds[p].op = "save"
      /\ scenario.cmds[p].given = None
  BY Given DEF KeptInv, Steady, Running, Runs, ConfigCommands
<1>2. SavePlan(p) BY <1>1 DEF Steady, Plan
<1>3. proc'[p].turn \in Nat /\ proc'[p].turn # 0 BY <1>1
<1>4. ASSUME a = Error \/ a = Finished(path) PROVE Steady(p)'
  BY <1>1, <1>3, <1>4, Stopped DEF Error, Finished
<1>5. ASSUME NEW w, NEW m, a = Go(w, m), m \in {Preferred, Legacy}, Unmoved => m = Legacy,
             \/ w = <<>>
             \/ w = <<InPlace(m, Example)>> /\ Moved /\ m = Legacy
             \/ \E d : w = <<Replace(m, d, TRUE)>> /\ (Fine(d) \/ (Moved /\ m = Legacy))
      PROVE  Steady(p)'
  <2>1. proc'[p].pc = "write" /\ proc'[p].mem = m /\ proc'[p].todo = w BY <1>5 DEF Go
  <2>2. SavePlan(p)' BY <1>3, <1>5, <2>1, PlaceStays, FineStays DEF SavePlan, Aside
  <2> QED BY <1>1, <1>3, <2>1, <2>2 DEF Steady, Plan, Stages
<1>6. CASE proc[p].turn = 0
  <2>1. a = Error \/ (~CannotLoad(None, disk) /\ a = Go(<<>>, Current)) BY <1>1, <1>6, Resolves DEF SaveTurn
  <2>2. CASE ~CannotLoad(None, disk) /\ a = Go(<<>>, Current)
    <3>1. Raw(disk[Current]) # Blank BY <2>2, Resolves DEF CannotLoad
    <3>2. Unmoved => Current = Legacy BY <3>1, LoadsFine, OnePlace DEF HomeIs
    <3> QED BY <1>5, <2>2, <3>2, Resolves
  <2> QED BY <1>4, <2>1, <2>2
<1>7. ASSUME proc[p].turn # 0 PROVE path \in {Preferred, Legacy} /\ (Unmoved => path = Legacy)
  BY <1>2, <1>7 DEF SavePlan
<1>8. CASE proc[p].turn = 1
  <2>1. a = Go(IF disk[path] = Absent THEN <<InPlace(path, Example)>> ELSE <<>>, path) BY <1>8 DEF SaveTurn
  <2>2. disk[path] = Absent => Moved /\ path = Legacy
    BY <1>7, <1>8, OnePlace DEF KeptInv, Moved, Unmoved, FineAt, ConfigStarts
  <2>3. PICK w : w = IF disk[path] = Absent THEN <<InPlace(path, Example)>> ELSE <<>> OBVIOUS
  <2>4. w = <<>> \/ (w = <<InPlace(path, Example)>> /\ Moved /\ path = Legacy) BY <2>2, <2>3
  <2>5. a = Go(w, path) BY <2>1, <2>3
  <2>6. path \in {Preferred, Legacy} /\ (Unmoved => path = Legacy) BY <1>7, <1>8
  <2> HIDE DEF path
  <2> QED BY <1>5, <2>4, <2>5, <2>6
<1>9. CASE proc[p].turn = 2
  <2>1. a = Error \/ /\ disk[path] # Absent /\ Raw(disk[path]) # Blank
                     /\ a = Go(<<Replace(path, Rewritten(disk[path].data, scenario.cmds[p].opts), TRUE)>>, path)
    BY <1>9 DEF SaveTurn
  <2>2. CASE /\ disk[path] # Absent /\ Raw(disk[path]) # Blank
             /\ a = Go(<<Replace(path, Rewritten(disk[path].data, scenario.cmds[p].opts), TRUE)>>, path)
    <3>1. disk[path] # Torn BY <2>2 DEF Raw
    <3>2. Fine(disk[path].data) \/ (Moved /\ path = Legacy)
      BY <1>7, <1>9, <3>1 DEF KeptInv, Moved, Unmoved, FineAt
    <3>3. PICK d : d = Rewritten(disk[path].data, scenario.cmds[p].opts) OBVIOUS
    <3>4. Fine(d) \/ (Moved /\ path = Legacy) BY <3>2, <3>3, RewrittenFine
    <3>5. PICK w : w = <<Replace(path, d, TRUE)>> OBVIOUS
    <3>6. a = Go(w, path) BY <2>2, <3>3, <3>5
    <3>7. path \in {Preferred, Legacy} /\ (Unmoved => path = Legacy) BY <1>7, <1>9
    <3> HIDE DEF path
    <3> QED BY <1>5, <3>4, <3>5, <3>6, <3>7
  <2> QED BY <1>4, <2>1, <2>2
<1>10. CASE proc[p].turn \notin {0, 1, 2}
  <2>1. a = Finished(path) BY <1>10 DEF SaveTurn
  <2> QED BY <1>4, <2>1
<1> QED BY <1>6, <1>8, <1>9, <1>10
\* A turn of change-master-key.
LEMMA ThinkKey ==
  ASSUME KeptInv, ConfigStarts, ConfigShape, ScenariosFit, NEW p \in Procs, proc[p].pc = "turn", p \in Runs(scenario, "change-key"),
         UNCHANGED <<scenario, disk, temp>>, NEW a, a = ChangeKeyTurn(scenario.cmds[p], proc[p].turn, proc[p].mem, disk),
         proc'[p].pc = a.out, proc'[p].turn = proc[p].turn + 1, proc'[p].mem = a.mem, proc'[p].todo = a.writes
  PROVE  Steady(p)'
<1> DEFINE mem == proc[p].mem
           cmd == scenario.cmds[p]
<1>1. /\ Steady(p) /\ Running(p) /\ proc[p].turn \in Nat /\ cmd # None /\ cmd.op = "change-key"
      /\ cmd.given = None /\ cmd.new \in MasterKeys
  BY Given DEF KeptInv, Steady, Running, Runs, ConfigCommands
<1>2. KeyPlan(p) BY <1>1 DEF Steady, Plan
<1>3. proc'[p].turn \in Nat /\ proc'[p].turn # 0 BY <1>1
<1>4. ASSUME a = Error \/ a = Finished(mem) PROVE Steady(p)'
  BY <1>1, <1>3, <1>4, Stopped DEF Error, Finished
<1>5. ASSUME KeyPlan(p)', proc'[p].pc = "write" PROVE Steady(p)'
  BY <1>1, <1>3, <1>5 DEF Steady, Plan, Stages
<1>6. CASE proc[p].turn = 0
  <2>1. a = Go(<<>>, [path |-> Current, raw |-> Raw(disk[Current])]) BY <1>1, <1>6, Resolves DEF ChangeKeyTurn
  <2>2. /\ proc'[p].pc = "write" /\ proc'[p].todo = <<>> /\ proc'[p].turn = 1
        /\ proc'[p].mem.path = Current /\ proc'[p].mem.raw = Raw(disk[Current])
    BY <1>6, <2>1 DEF Go
  <2>3. \/ Fine(Raw(disk[Current]))
        \/ Unmoved /\ Current = Preferred
        \/ Runs(scenario, "save") = {} /\ disk[Current] = Torn
    <3>1. CASE FineAt(Current) BY <3>1 DEF FineAt, Raw
    <3>2. CASE Unmoved /\ Current = Preferred BY <3>2
    <3>3. CASE disk[Current] = Torn /\ ~(Unmoved /\ Current = Preferred)
      <4>1. (Moved /\ disk[Preferred] = Torn) \/ (Unmoved /\ disk[Legacy] = Torn)
        BY <3>3, Resolves DEF KeptInv
      <4>2. PICK c \in Runs(scenario, "change-key") : proc[c].turn \notin {0, 1} BY <4>1 DEF KeptInv, TornByKey
      <4>3. Runs(scenario, "save") = {} BY <1>6, <4>2, Given DEF SavesBesideOne
      <4> QED BY <3>3, <4>3
    <3> QED BY <3>1, <3>2, <3>3, Resolves DEF KeptInv, Moved, Unmoved
  <2>4. KeyPlan(p)' BY <2>2, <2>3, PlaceStays, FineStays DEF KeyPlan, Runs
  <2> QED BY <1>5, <2>2, <2>4
<1>7. CASE proc[p].turn = 1
  <2>1. mem.path = Current BY <1>2, <1>7 DEF KeyPlan
  <2>2. CASE Raw(disk[Current]) = Blank
    <3>1. CannotLoad(None, disk) BY <2>2, Resolves DEF CannotLoad
    <3> QED BY <1>1, <1>4, <1>7, <3>1 DEF ChangeKeyTurn
  <2>3. CASE Raw(disk[Current]) # Blank
    <3>1. HomeIs(Current) /\ FineAt(Current) BY <2>3, LoadsFine
    <3>2. Fine(mem.raw)
      <4>1. ~(Unmoved /\ Current = Preferred) BY <3>1, OnePlace, PathsApart DEF HomeIs
      <4>2. disk[Current] # Torn BY <3>1 DEF FineAt
      <4> QED BY <1>2, <1>7, <2>1, <4>1, <4>2 DEF KeyPlan
    <3>3. PICK new : new = Reencrypted(mem.raw, Loaded(None, disk), cmd.new) OBVIOUS
    <3>4. Fine(new) BY <1>1, <3>2, <3>3, ReencryptedFine
    <3>5. PICK w : w = <<InPlace(BackupOf[Current], mem.raw), InPlace(Current, new)>> OBVIOUS
    <3>6. a = Error \/ a = Finished(mem) \/ a = Go(w, mem)
      BY <1>1, <1>7, <2>1, <3>3, <3>5 DEF ChangeKeyTurn
    <3>7. CASE a = Go(w, mem)
      <4>1. /\ proc'[p].pc = "write" /\ proc'[p].todo = w /\ proc'[p].turn = 2 /\ proc'[p].mem = mem
        BY <1>7, <3>7 DEF Go
      <4>2. KeyPlan(p)'
        BY <2>1, <3>1, <3>2, <3>4, <3>5, <4>1, PlaceStays, FineStays DEF KeyPlan
      <4> QED BY <1>5, <4>1, <4>2
    <3> QED BY <1>4, <3>6, <3>7
  <2> QED BY <2>2, <2>3
<1>8. CASE proc[p].turn \notin {0, 1}
  <2>1. a = Finished(mem) BY <1>8 DEF ChangeKeyTurn
  <2> QED BY <1>4, <2>1
<1> QED BY <1>6, <1>7, <1>8

\* A turn of config migrate.
LEMMA ThinkMove ==
  ASSUME KeptInv, ConfigStarts, ConfigShape, ScenariosFit, NEW p \in Procs, proc[p].pc = "turn", p \in Runs(scenario, "migrate"),
         UNCHANGED <<scenario, disk, temp>>, NEW a, a = MigrateTurn(scenario.cmds[p], proc[p].turn, proc[p].mem, disk),
         proc'[p].pc = a.out, proc'[p].turn = proc[p].turn + 1, proc'[p].mem = a.mem, proc'[p].todo = a.writes
  PROVE  Steady(p)'
<1>1. /\ Steady(p) /\ Running(p) /\ proc[p].turn \in Nat /\ scenario.cmds[p] # None /\ scenario.cmds[p].op = "migrate"
  BY DEF KeptInv, Steady, Running, Runs
<1>2. MovePlan(p) /\ proc[p].todo = <<>> BY <1>1 DEF Steady, Plan
<1>3. proc'[p].turn \in Nat /\ proc'[p].turn # 0 BY <1>1
<1>4. ASSUME NEW m, a = Error \/ a = Finished(m) PROVE Steady(p)'
  BY <1>1, <1>3, <1>4, Stopped DEF Error, Finished
<1>5. ASSUME MovePlan(p)', proc'[p].pc = "write" PROVE Steady(p)'
  BY <1>1, <1>3, <1>5 DEF Steady, Plan, Stages
<1>6. CASE proc[p].turn = 0
  <2>1. PICK d : d = Raw(disk[Legacy]) OBVIOUS
  <2>2. PICK w : w = <<InPlace(Preferred, d)>> OBVIOUS
  <2>3. a = Error \/ a = Finished(proc[p].mem) \/ (disk[Preferred] = Absent /\ a = Go(w, "copied"))
    BY <1>6, <2>1, <2>2 DEF MigrateTurn
  <2>4. CASE disk[Preferred] = Absent /\ a = Go(w, "copied")
    <3>1. Unmoved BY <2>4 DEF KeptInv, Moved, FineAt, ConfigStarts
    <3>2. Fine(d) \/ d = Blank BY <2>1, <3>1 DEF Unmoved, FineAt, Raw
    <3>3. proc'[p].pc = "write" /\ proc'[p].todo = w /\ proc'[p].turn = 1 BY <1>6, <2>4 DEF Go
    <3>4. MovePlan(p)' BY <2>2, <3>1, <3>2, <3>3, PlaceStays, FineStays DEF MovePlan
    <3> QED BY <1>5, <3>3, <3>4
  <2> QED BY <1>4, <2>3, <2>4
<1>7. CASE proc[p].turn = 1
  <2>0. Unmoved \/ FineAt(Preferred)
    BY <1>2, <1>7, HeadTail DEF MovePlan
  <2>1. ResolvePath(Preferred, disk) = Preferred /\ Preferred # None BY PathsApart DEF ResolvePath
  <2>2. FineAt(Preferred) => ~CannotLoad(Preferred, disk)
    BY <2>1, FineIsNotBlank DEF CannotLoad, FineAt, Raw, KeptInv
  <2>3. Unmoved => CannotLoad(Preferred, disk)
    BY <2>1 DEF CannotLoad, Unmoved, Raw, Whole, ConfigStarts
  <2>4. PICK w : w = <<Unlink(IF CannotLoad(Preferred, disk) THEN Preferred ELSE Legacy)>> OBVIOUS
  <2>5. proc'[p].pc = "write" /\ proc'[p].todo = w /\ proc'[p].turn = 2
    BY <1>7, <2>4 DEF Go, MigrateTurn
  <2>6. MovePlan(p)' BY <2>0, <2>2, <2>3, <2>4, <2>5, PlaceStays DEF MovePlan
  <2> QED BY <1>5, <2>5, <2>6
<1>8. CASE proc[p].turn \notin {0, 1}
  <2>1. a = Error \/ a = Finished(proc[p].mem) BY <1>8 DEF MigrateTurn
  <2> QED BY <1>4, <2>1
<1> QED BY <1>6, <1>7, <1>8

\* config init writes nothing over a config.
LEMMA ThinkInit ==
  ASSUME KeptInv, ConfigStarts, ConfigShape, ScenariosFit, NEW p \in Procs, proc[p].pc = "turn", p \in Runs(scenario, "init"),
         NEW a, a = InitTurn(scenario.cmds[p], proc[p].turn, proc[p].mem, disk),
         proc'[p].pc = a.out, proc'[p].turn = proc[p].turn + 1
  PROVE  Steady(p)'
<1>1. /\ Steady(p) /\ proc[p].turn \in Nat /\ scenario.cmds[p].given = None /\ ~scenario.cmds[p].force
  BY Given DEF KeptInv, Steady, ConfigCommands
<1>2. a = Error \/ a = Finished(proc[p].mem) BY <1>1, Resolves DEF InitTurn
<1> QED BY <1>1, <1>2, Stopped DEF Error, Finished

LEMMA ThinkKeeps ==
  ASSUME KeptInv, ConfigStarts, ConfigShape, ScenariosFit, TurnsAreConfig, NEW p \in Procs, Think(p)
  PROVE  KeptInv'
<1> DEFINE cmd == scenario.cmds[p]
<1>1. PICK a : a = Answer(p) OBVIOUS
<1>2. /\ proc[p].pc = "turn" /\ UNCHANGED <<scenario, disk, temp>>
      /\ proc'[p].pc = a.out /\ proc'[p].turn = proc[p].turn + 1 /\ proc'[p].mem = a.mem /\ proc'[p].todo = a.writes
      /\ \A x \in Procs : x # p => proc'[x] = proc[x]
  BY <1>1, Thought
<1>3. Steady(p) /\ Running(p) /\ cmd # None BY <1>2 DEF KeptInv, Steady, Running, Plan
<1>4. cmd.op \in ConfigOps BY <1>3, Given DEF ConfigCommands
<1>5. a = ConfigTurn(cmd, proc[p].turn, proc[p].mem, disk) BY <1>1, <1>4 DEF Answer, TurnsAreConfig
<1>6. CASE cmd.op = "save"
  <2>1. a = SaveTurn(cmd, proc[p].turn, proc[p].mem, disk) BY <1>5, <1>6 DEF ConfigTurn
  <2>2. Steady(p)' BY <1>2, <1>3, <1>6, <2>1, ThinkSave DEF Runs
  <2> QED BY <1>2, <1>3, <2>2, QuietStep, NobodyStarts
<1>7. CASE cmd.op = "change-key"
  <2>1. a = ChangeKeyTurn(cmd, proc[p].turn, proc[p].mem, disk) BY <1>5, <1>7 DEF ConfigTurn
  <2>2. Steady(p)' BY <1>2, <1>3, <1>7, <2>1, ThinkKey DEF Runs
  <2> QED BY <1>2, <1>3, <2>2, QuietStep, NobodyStarts
<1>8. CASE cmd.op = "migrate"
  <2>1. a = MigrateTurn(cmd, proc[p].turn, proc[p].mem, disk) BY <1>5, <1>8 DEF ConfigTurn
  <2>2. Steady(p)' BY <1>2, <1>3, <1>8, <2>1, ThinkMove DEF Runs
  <2> QED BY <1>2, <1>3, <2>2, QuietStep, NobodyStarts
<1>9. CASE cmd.op = "init"
  <2>1. a = InitTurn(cmd, proc[p].turn, proc[p].mem, disk) BY <1>5, <1>9 DEF ConfigTurn
  <2>2. Steady(p)' BY <1>2, <1>3, <1>9, <2>1, ThinkInit DEF Runs
  <2> QED BY <1>2, <1>3, <2>2, QuietStep, NobodyStarts
<1> QED BY <1>4, <1>6, <1>7, <1>8, <1>9 DEF ConfigOps
-----------------------------------------------------------------------------
(* The steps that leave the disk alone.                                     *)

LEMMA Going ==
  ASSUME ConfigShape, NEW p \in Procs, NEW pc, NEW todo, Becomes(p, pc, todo)
  PROVE  /\ proc'[p].pc = pc /\ proc'[p].todo = todo /\ proc'[p].turn = proc[p].turn /\ proc'[p].mem = proc[p].mem
         /\ \A x \in Procs : x # p => proc'[x] = proc[x]
         /\ proc' = [x \in Procs |-> proc'[x]]
BY DEF ConfigShape, Becomes

LEMMA StartKeeps ==
  ASSUME KeptInv, ConfigShape, NEW p \in Procs, Start(p) PROVE KeptInv'
<1>1. /\ proc[p].pc = "start" /\ scenario.cmds[p] # None /\ MayStart(p) /\ UNCHANGED <<scenario, disk, temp>>
      /\ Becomes(p, "turn", proc[p].todo)
  BY DEF Start, Goes
<1>2. /\ proc'[p].pc = "turn" /\ proc'[p].todo = proc[p].todo /\ proc'[p].turn = proc[p].turn
      /\ \A x \in Procs : x # p => proc'[x] = proc[x]
  BY <1>1, Going
<1>3. proc[p].turn = 0 /\ proc[p].todo = <<>> BY <1>1 DEF KeptInv, Steady
<1>4. Steady(p)'
  <2>1. SavePlan(p)' BY <1>2, <1>3 DEF SavePlan
  <2>2. KeyPlan(p)' BY <1>2, <1>3 DEF KeyPlan
  <2>3. MovePlan(p)' BY <1>2, <1>3 DEF MovePlan
  <2> QED BY <1>1, <1>2, <1>3, <2>1, <2>2, <2>3 DEF Steady, Plan, Stages
<1>5. OneAtATime'
  <2>1. \A x \in Procs : x # p /\ Running(x)' => Running(x) BY <1>2 DEF Running
  <2> QED BY <1>1, <2>1 DEF KeptInv, OneAtATime, MayStart
<1> QED BY <1>1, <1>2, <1>4, <1>5, QuietStep

LEMMA RestKeeps ==
  ASSUME KeptInv, ConfigShape, NEW p \in Procs, Rest(p) PROVE KeptInv'
<1>1. /\ proc[p].pc = "write" /\ proc[p].todo = <<>> /\ UNCHANGED <<scenario, disk, temp>>
      /\ Becomes(p, "turn", proc[p].todo)
  BY DEF Rest, Goes
<1>2. /\ proc'[p].pc = "turn" /\ proc'[p].todo = proc[p].todo /\ proc'[p].turn = proc[p].turn
      /\ proc'[p].mem = proc[p].mem
      /\ \A x \in Procs : x # p => proc'[x] = proc[x]
  BY <1>1, Going
<1>3. Steady(p) /\ Plan(p) /\ Running(p) BY <1>1 DEF KeptInv, Steady, Running
<1>4. Steady(p)'
  <2>1. SavePlan(p) => SavePlan(p)' BY <1>1, <1>2, PlaceStays, FineStays DEF SavePlan, Aside
  <2>2. KeyPlan(p) => KeyPlan(p)' BY <1>1, <1>2, PlaceStays, FineStays DEF KeyPlan, Runs
  <2>3. MovePlan(p) => MovePlan(p)' BY <1>1, <1>2, PlaceStays, FineStays DEF MovePlan
  <2> QED BY <1>1, <1>2, <1>3, <2>1, <2>2, <2>3 DEF Steady, Plan, Stages
<1> QED BY <1>1, <1>2, <1>3, <1>4, QuietStep, NobodyStarts

\* A command that fails or crashes.
LEMMA StopKeeps ==
  ASSUME KeptInv, ConfigShape, NEW p \in Procs, Refuse(p) \/ DeleteGone(p) \/ Fail(p) \/ Crash(p) PROVE KeptInv'
<1>1. PICK pc \in {"failed", "crashed"} : Becomes(p, pc, proc[p].todo)
  BY DEF Refuse, DeleteGone, Fail, Crash, Goes
<1>2. UNCHANGED <<scenario, disk>> /\ \A x \in Procs : x # p => temp'[x] = temp[x]
  BY DEF Refuse, DeleteGone, Fail, Crash, ConfigShape
<1>3. /\ proc'[p].pc = pc /\ proc'[p].turn = proc[p].turn /\ \A x \in Procs : x # p => proc'[x] = proc[x]
  BY <1>1, Going
<1>4. Steady(p) BY DEF KeptInv
<1>5. proc'[p].turn \in Nat BY <1>3, <1>4 DEF Steady
<1>6. Steady(p)' BY <1>3, <1>4, <1>5, Stopped
<1>7. ~Running(p)' BY <1>3 DEF Running
<1> QED BY <1>2, <1>3, <1>6, <1>7, QuietStep, NobodyStarts

LEMMA Hows ==
  /\ \A q, d : InPlace(q, d).how = "inplace" /\ InPlace(q, d).path = q /\ InPlace(q, d).data = d
  /\ \A q, d : Replace(q, d, TRUE).how = "replace" /\ Replace(q, d, TRUE).path = q /\ Replace(q, d, TRUE).data = d
  /\ \A q : Unlink(q).how = "remove" /\ Unlink(q).path = q
BY DEF InPlace, Replace, Unlink

\* What is done now, and what is left then.
LEMMA NowIs ==
  ASSUME NEW p, NEW w
  PROVE  /\ proc[p].todo = <<w>> => Now(p) = w /\ Tail(proc[p].todo) = <<>>
         /\ \A v : proc[p].todo = <<w, v>> => Now(p) = w /\ Tail(proc[p].todo) = <<v>>
<1>1. ASSUME proc[p].todo = <<w>> PROVE Now(p) = w /\ Tail(proc[p].todo) = <<>> BY <1>1, HeadTail DEF Now
<1>2. ASSUME NEW v, proc[p].todo = <<w, v>> PROVE Now(p) = w /\ Tail(proc[p].todo) = <<v>> BY <1>2, HeadTail DEF Now
<1> QED BY <1>1, <1>2

\* Only the TUI writes by renaming, only the migration removes.
LEMMA WhoDoes ==
  ASSUME KeptInv, ScenariosFit, NEW p \in Procs, Running(p), proc[p].todo # <<>>
  PROVE  /\ Now(p).how = "replace" => p \in Runs(scenario, "save")
         /\ Now(p).how = "remove" => p \in Runs(scenario, "migrate")
         /\ p \in Runs(scenario, "save") \cup Runs(scenario, "migrate") \cup Runs(scenario, "change-key")
<1>0. proc[p].todo # <<>> OBVIOUS
<1>1. Plan(p) /\ scenario.cmds[p] # None BY DEF KeptInv, Steady, Plan
<1>2. scenario.cmds[p].op \in ConfigOps BY <1>1, Given DEF ConfigCommands
<1>3. CASE scenario.cmds[p].op = "save"
  <2>1. SavePlan(p) BY <1>1, <1>3 DEF Plan
  <2>2. PICK w : /\ proc[p].todo = <<w>>
                 /\ w = InPlace(proc[p].mem, Example) \/ \E d : w = Replace(proc[p].mem, d, TRUE)
    BY <1>0, <2>1, Zenon DEF SavePlan
  <2>3. Now(p) = w BY <2>2, NowIs
  <2>4. w.how \in {"inplace", "replace"} BY <2>2 DEF InPlace, Replace
  <2>5. Now(p).how # "remove" BY <2>3, <2>4
  <2> QED BY <1>1, <1>3, <2>5 DEF Runs
<1>4. CASE scenario.cmds[p].op = "change-key"
  <2>1. KeyPlan(p) BY <1>1, <1>4 DEF Plan
  <2>2. proc[p].turn \notin {0, 1} BY <2>1 DEF KeyPlan
  <2>3. PICK q, d, v : proc[p].todo = <<InPlace(q, d), v>> \/ proc[p].todo = <<InPlace(q, d)>>
    BY <2>1, <2>2 DEF KeyPlan
  <2>4. Now(p).how = "inplace"
    <3>1. PICK w : w = InPlace(q, d) OBVIOUS
    <3>2. Now(p) = w BY <2>3, <3>1, NowIs
    <3> QED BY <3>1, <3>2, Hows
  <2> QED BY <1>1, <1>4, <2>4 DEF Runs
<1>5. CASE scenario.cmds[p].op = "migrate"
  <2>1. MovePlan(p) BY <1>1, <1>5 DEF Plan
  <2>2. PICK w : /\ proc[p].todo = <<w>>
                 /\ (\E d : w = InPlace(Preferred, d)) \/ w = Unlink(Preferred) \/ w = Unlink(Legacy)
    BY <2>1 DEF MovePlan
  <2>3. Now(p).how # "replace" BY <2>2, NowIs, Hows
  <2> QED BY <1>1, <1>5, <2>3 DEF Runs
<1>6. CASE scenario.cmds[p].op = "init" BY <1>1, <1>6 DEF Plan
<1> QED BY <1>2, <1>3, <1>4, <1>5, <1>6 DEF ConfigOps

LEMMA StageKeeps ==
  ASSUME KeptInv, ConfigShape, ScenariosFit, NEW p \in Procs, Stage(p) PROVE KeptInv'
<1>1. /\ proc[p].pc = "write" /\ proc[p].todo # <<>> /\ Now(p).how = "replace" /\ UNCHANGED <<scenario, disk>>
      /\ Becomes(p, "staged", proc[p].todo) /\ temp' = [temp EXCEPT ![p] = Now(p).data]
  BY DEF Stage, Goes, Doing
<1>2. /\ proc'[p].pc = "staged" /\ proc'[p].todo = proc[p].todo /\ proc'[p].turn = proc[p].turn
      /\ proc'[p].mem = proc[p].mem /\ \A x \in Procs : x # p => proc'[x] = proc[x]
  BY <1>1, Going
<1>3. temp'[p] = Now(p).data /\ \A x \in Procs : x # p => temp'[x] = temp[x] BY <1>1 DEF ConfigShape
<1>4. Steady(p) /\ Plan(p) /\ Running(p) BY <1>1 DEF KeptInv, Steady, Running
<1>5. p \in Runs(scenario, "save") BY <1>1, <1>4, WhoDoes
<1>6. SavePlan(p) /\ scenario.cmds[p].op = "save" BY <1>4, <1>5 DEF Plan, Runs
<1>7. PICK d : proc[p].todo = <<Replace(proc[p].mem, d, TRUE)>> /\ (Fine(d) \/ Aside(p))
  <2>1. ASSUME proc[p].todo = <<InPlace(proc[p].mem, Example)>> PROVE FALSE
    <3>1. PICK w : w = InPlace(proc[p].mem, Example) OBVIOUS
    <3>2. Now(p) = w BY <2>1, <3>1, NowIs
    <3> QED BY <1>1, <3>1, <3>2, Hows
  <2> QED BY <1>1, <1>6, <2>1 DEF SavePlan
<1>8. Now(p).data = d
  <2>1. PICK w : w = Replace(proc[p].mem, d, TRUE) OBVIOUS
  <2>2. Now(p) = w BY <1>7, <2>1, NowIs
  <2> QED BY <2>1, <2>2 DEF Replace
<1>9. SavePlan(p)' BY <1>2, <1>3, <1>6, <1>7, <1>8, <1>1, PlaceStays, FineStays DEF SavePlan, Aside
<1>10. Steady(p)'
  <2>1. Now(p)' = Now(p) BY <1>2 DEF Now
  <2> QED BY <1>1, <1>2, <1>4, <1>6, <1>9, <2>1 DEF Steady, Plan, Stages
<1> QED BY <1>1, <1>2, <1>3, <1>4, <1>10, QuietStep, NobodyStarts
-----------------------------------------------------------------------------
(* The steps that write.                                                    *)

LEMMA MovedShows ==
  ASSUME Wanted # {}, ConfigStarts, Moved
  PROVE  disk[Preferred] # Absent
         /\ ~(disk[Preferred] \in {Absent, Torn, Whole(Blank)} /\ disk[BackupOf[Preferred]] = Absent)
<1>1. FineAt(Preferred) => disk[Preferred] # Whole(Blank)
  BY FineIsNotBlank DEF FineAt, Whole
<1> QED BY <1>1 DEF Moved, FineAt, ConfigStarts

LEMMA DiskIs ==
  ASSUME ConfigShape, NEW q \in ConfigPaths, NEW v, disk' = [disk EXCEPT ![q] = v]
  PROVE  disk'[q] = v /\ (\A x : x # q => disk'[x] = disk[x]) /\ DOMAIN disk' = DOMAIN disk
BY DEF ConfigShape

\* A write that leaves the passwords somewhere and everybody with a plan that fits.
LEMMA WriteStep ==
  ASSUME KeptInv, NEW p \in Procs, UNCHANGED scenario, Running(p),
         \A x \in Procs : x # p => proc'[x] = proc[x],
         proc'[p].turn = proc[p].turn,
         \A x \in Procs : Steady(x)', Moved' \/ Unmoved', TornByKey'
  PROVE  KeptInv'
<1>1. Wanted' # {} /\ HasPasswords(scenario)' BY FineStays DEF KeptInv, HasPasswords
<1>2. OneAtATime' BY NobodyStarts
<1> QED BY <1>1, <1>2 DEF KeptInv

\* The TUI writes a config with the passwords, or beside them.
LEMMA SaverWrites ==
  ASSUME KeptInv, ConfigStarts, ConfigShape, UNCHANGED scenario,
         NEW m \in {Preferred, Legacy}, NEW v, disk' = [disk EXCEPT ![m] = v], Unmoved => m = Legacy,
         (\E d : v = Whole(d) /\ Fine(d)) \/ (Moved /\ m = Legacy)
  PROVE  /\ Moved' <=> Moved
         /\ Unmoved' <=> Unmoved
         /\ Current' = Current
         /\ \A path : HomeIs(path) /\ FineAt(path) => FineAt(path)'
         /\ \A path : HomeIs(path) /\ FineAt(BackupOf[path]) => FineAt(BackupOf[path])'
         /\ FineAt(Preferred) => FineAt(Preferred)'
         /\ \A path : HomeIs(path) /\ disk'[path] = Torn => disk[path] = Torn
<1>0. Wanted # {} /\ Wanted' # {} BY FineStays DEF KeptInv
<1>1. disk'[m] = v /\ \A x : x # m => disk'[x] = disk[x] BY PathsApart, DiskIs
<1>2. \A q : q # m => (FineAt(q)' <=> FineAt(q)) BY <1>1, FineStays DEF FineAt
<1>3. CASE \E d : v = Whole(d) /\ Fine(d)
  <2>1. PICK d : v = Whole(d) /\ Fine(d) BY <1>3
  <2>2. v # Absent /\ v # Torn /\ v.data = d BY <2>1 DEF ConfigStarts, Whole
  <2>3. FineAt(m)' BY <1>1, <2>1, <2>2, FineStays DEF FineAt
  <2>4. CASE Moved /\ m = Preferred
    <3>1. Moved' BY <2>3, <2>4 DEF Moved
    <3>2. ~Unmoved BY <2>4, PathsApart
    <3>3. ~Unmoved'
      <4>1. d # Blank BY <1>0, <2>1, FineIsNotBlank
      <4>2. v # Whole(Blank) BY <2>2, <4>1 DEF Whole
      <4> QED BY <1>1, <2>2, <2>4, <4>2 DEF Unmoved
    <3>4. Current' = Current BY <1>0, <1>1, <2>2, <2>4, MovedShows DEF Current
    <3>5. \A path : HomeIs(path) => path = Preferred BY <3>2 DEF HomeIs
    <3>6. FineAt(BackupOf[Preferred])' <=> FineAt(BackupOf[Preferred]) BY <1>2, <2>4, PathsApart
    <3> QED BY <1>1, <2>2, <2>3, <2>4, <3>1, <3>2, <3>3, <3>4, <3>5, <3>6
  <2>5. CASE m = Legacy
    <3>1. disk'[Preferred] = disk[Preferred] /\ disk'[BackupOf[Preferred]] = disk[BackupOf[Preferred]]
      BY <1>1, <2>5, PathsApart
    <3>2. /\ FineAt(Preferred)' <=> FineAt(Preferred)
          /\ FineAt(BackupOf[Preferred])' <=> FineAt(BackupOf[Preferred])
          /\ FineAt(BackupOf[Legacy])' <=> FineAt(BackupOf[Legacy])
      BY <1>2, <2>5, PathsApart
    <3>3. Moved' <=> Moved BY <3>1, <3>2 DEF Moved
    <3>4. Unmoved' <=> Unmoved
      <4>1. Unmoved => Unmoved' BY <2>3, <2>5, <3>1 DEF Unmoved
      <4>2. Moved => ~Unmoved' BY <1>0, <3>1, MovedShows DEF Unmoved
      <4> QED BY <4>1, <4>2 DEF KeptInv
    <3>5. Current' = Current BY <3>1 DEF Current
    <3>6. \A path : HomeIs(path) => path \in {Preferred, Legacy} BY DEF HomeIs
    <3> QED BY <1>1, <2>2, <2>3, <2>5, <3>1, <3>2, <3>3, <3>4, <3>5, <3>6
  <2> QED BY <2>4, <2>5 DEF KeptInv
<1>4. CASE Moved /\ m = Legacy
  <2>1. disk'[Preferred] = disk[Preferred] /\ disk'[BackupOf[Preferred]] = disk[BackupOf[Preferred]]
    BY <1>1, <1>4, PathsApart
  <2>2. /\ FineAt(Preferred)' <=> FineAt(Preferred)
        /\ FineAt(BackupOf[Preferred])' <=> FineAt(BackupOf[Preferred])
    BY <1>2, <1>4, PathsApart
  <2>3. Moved' BY <1>4, <2>1, <2>2 DEF Moved
  <2>4. ~Unmoved /\ ~Unmoved' BY <1>0, <1>4, <2>1, MovedShows DEF Unmoved
  <2>5. Current' = Current BY <2>1 DEF Current
  <2>6. \A path : HomeIs(path) => path = Preferred BY <2>4 DEF HomeIs
  <2> QED BY <1>4, <2>1, <2>2, <2>3, <2>4, <2>5, <2>6
<1> QED BY <1>3, <1>4

LEMMA OthersOfSaver ==
  ASSUME KeptInv, ConfigStarts, ConfigShape, UNCHANGED scenario, Runs(scenario, "save") # {},
         NEW m \in {Preferred, Legacy}, NEW v, disk' = [disk EXCEPT ![m] = v], Unmoved => m = Legacy,
         (\E d : v = Whole(d) /\ Fine(d)) \/ (Moved /\ m = Legacy),
         NEW q \in Procs, proc'[q] = proc[q], temp'[q] = temp[q]
  PROVE  Steady(q)'
<1>1. Steady(q) BY DEF KeptInv
<1>2. /\ Moved' <=> Moved
      /\ Unmoved' <=> Unmoved
      /\ Current' = Current
      /\ \A path : HomeIs(path) /\ FineAt(path) => FineAt(path)'
      /\ \A path : HomeIs(path) /\ FineAt(BackupOf[path]) => FineAt(BackupOf[path])'
      /\ FineAt(Preferred) => FineAt(Preferred)'
  BY SaverWrites
<1>3. \A path : HomeIs(path)' <=> HomeIs(path) BY <1>2 DEF HomeIs
<1>4. SavePlan(q) => SavePlan(q)' BY <1>2, FineStays DEF SavePlan, Aside
<1>5. KeyPlan(q) => KeyPlan(q)' BY <1>2, <1>3, FineStays DEF KeyPlan, Runs
<1>6. MovePlan(q) => MovePlan(q)' BY <1>2, FineStays DEF MovePlan
<1> QED BY <1>1, <1>4, <1>5, <1>6 DEF Steady, Plan, Running, Now

LEMMA SaverSteps ==
  ASSUME KeptInv, ConfigStarts, ConfigShape, UNCHANGED scenario, NEW p \in Runs(scenario, "save"), Running(p),
         NEW v, disk' = [disk EXCEPT ![proc[p].mem] = v],
         (\E d : v = Whole(d) /\ Fine(d)) \/ Aside(p), proc[p].turn # 0,
         \A x \in Procs : x # p => proc'[x] = proc[x] /\ temp'[x] = temp[x],
         proc'[p].turn = proc[p].turn, proc'[p].mem = proc[p].mem, proc'[p].pc \in {"write", "torn"},
         \/ proc'[p].todo = <<>> /\ proc'[p].pc = "write"
         \/ proc'[p].todo = proc[p].todo /\ proc[p].todo = <<InPlace(proc[p].mem, Example)>> /\ Aside(p)
  PROVE  KeptInv'
<1>1. p \in Procs /\ scenario.cmds[p] # None /\ scenario.cmds[p].op = "save" /\ Steady(p) /\ SavePlan(p)
  BY DEF Runs, KeptInv, Steady, Plan
<1>2. PICK m \in {Preferred, Legacy} : m = proc[p].mem BY <1>1 DEF SavePlan
<1>3. (Unmoved => m = Legacy) /\ disk' = [disk EXCEPT ![m] = v] BY <1>1, <1>2 DEF SavePlan
<1>4. (\E d : v = Whole(d) /\ Fine(d)) \/ (Moved /\ m = Legacy) BY <1>2 DEF Aside
<1>5. /\ Moved' <=> Moved
      /\ Unmoved' <=> Unmoved
      /\ \A path : HomeIs(path) /\ disk'[path] = Torn => disk[path] = Torn
  BY <1>3, <1>4, SaverWrites
<1>6. \A x \in Procs : x # p => Steady(x)' BY <1>3, <1>4, OthersOfSaver
<1>7. Steady(p)'
  <2>1. SavePlan(p)' BY <1>1, <1>2, <1>5 DEF SavePlan, Aside
  <2>2. proc'[p].pc = "torn" => proc'[p].todo # <<>> /\ Now(p)'.how = "inplace"
    <3>1. PICK w : w = InPlace(proc[p].mem, Example) OBVIOUS
    <3>2. ASSUME proc'[p].todo = <<w>> PROVE Now(p)'.how = "inplace" BY <3>1, <3>2, HeadTail, Hows DEF Now
    <3> QED BY <3>1, <3>2, HeadTail
  <2> QED BY <1>1, <2>1, <2>2 DEF Steady, Plan, Stages
<1>8. TornByKey'
  <2> SUFFICES ASSUME (Moved /\ disk'[Preferred] = Torn) \/ (Unmoved /\ disk'[Legacy] = Torn)
               PROVE  \E c \in Runs(scenario, "change-key") : proc'[c].turn \notin {0, 1}
    BY <1>5 DEF TornByKey, Runs
  <2>1. (Moved /\ disk[Preferred] = Torn) \/ (Unmoved /\ disk[Legacy] = Torn) BY <1>5 DEF HomeIs
  <2>2. PICK c \in Runs(scenario, "change-key") : proc[c].turn \notin {0, 1} BY <2>1 DEF KeptInv, TornByKey
  <2>3. c \in Procs BY DEF Runs
  <2> QED BY <2>2, <2>3
<1> QED BY <1>1, <1>5, <1>6, <1>7, <1>8, WriteStep DEF KeptInv

\* Whoever rewrites the config runs alone but for the TUI, which does not mind.
LEMMA OthersOfRewriter ==
  ASSUME KeptInv, ScenariosFit, UNCHANGED scenario, NEW p \in Procs, Running(p), p \notin Runs(scenario, "save"),
         Moved => Moved', Unmoved' => Unmoved,
         NEW q \in Procs, q # p, proc'[q] = proc[q], temp'[q] = temp[q]
  PROVE  Steady(q)'
<1>1. Steady(q) /\ Steady(p) /\ scenario.cmds[p] # None BY DEF KeptInv, Steady, Plan
<1>2. CASE ~Running(q) BY <1>1, <1>2 DEF Steady, Running
<1>3. CASE Running(q)
  <2>1. Plan(q) /\ scenario.cmds[q] # None BY <1>1, <1>3 DEF Steady, Plan
  <2>2. p \in scenario.oneByOne BY <1>1, Given DEF ConfigCommands, Runs
  <2>3. q \notin scenario.oneByOne BY <1>3, <2>2 DEF KeptInv, OneAtATime
  <2>4. scenario.cmds[q].op = "save" BY <2>1, <2>3, Given DEF ConfigCommands
  <2>5. SavePlan(q) BY <2>1, <2>4 DEF Plan
  <2>6. SavePlan(q)' BY <2>5, FineStays DEF SavePlan, Aside
  <2> QED BY <1>1, <2>1, <2>4, <2>6 DEF Steady, Plan, Running, Now
<1> QED BY <1>2, <1>3

\* A write of a command that rewrites the config.
LEMMA RewriterSteps ==
  ASSUME KeptInv, ScenariosFit, UNCHANGED scenario, NEW p \in Procs, Running(p), p \notin Runs(scenario, "save"),
         \A x \in Procs : x # p => proc'[x] = proc[x] /\ temp'[x] = temp[x], proc'[p].turn = proc[p].turn,
         Moved => Moved', Unmoved' => Unmoved, Moved' \/ Unmoved', Steady(p)',
         \/ p \in Runs(scenario, "change-key") /\ proc[p].turn \notin {0, 1}
         \/ /\ Moved' /\ disk'[Preferred] = Torn => Moved /\ disk[Preferred] = Torn
            /\ Unmoved' /\ disk'[Legacy] = Torn => disk[Legacy] = Torn
  PROVE  KeptInv'
<1>1. \A x \in Procs : Steady(x)' BY OthersOfRewriter
<1>2. TornByKey'
  <2> SUFFICES ASSUME (Moved' /\ disk'[Preferred] = Torn) \/ (Unmoved' /\ disk'[Legacy] = Torn)
               PROVE  \E c \in Runs(scenario, "change-key") : proc'[c].turn \notin {0, 1}
    BY DEF TornByKey, Runs
  <2>1. PICK c \in Runs(scenario, "change-key") : proc[c].turn \notin {0, 1} BY DEF KeptInv, TornByKey
  <2>2. c \in Procs BY DEF Runs
  <2> QED BY <2>1, <2>2
<1> QED BY <1>1, <1>2, WriteStep

\* One file of the config changes.
LEMMA PlacesAre ==
  ASSUME ConfigShape, UNCHANGED scenario, NEW q \in ConfigPaths, NEW v, disk' = [disk EXCEPT ![q] = v]
  PROVE  /\ \A x \in ConfigPaths : x # q => disk'[x] = disk[x] /\ (FineAt(x)' <=> FineAt(x))
         /\ disk'[q] = v
         /\ FineAt(q)' <=> v \notin {Absent, Torn} /\ Fine(v.data)
<1>1. disk'[q] = v /\ \A x : x # q => disk'[x] = disk[x] BY DiskIs
<1> QED BY <1>1, FineStays DEF FineAt

\* change-master-key truncates or fills the backup while its place is whole, and its place
\* while the backup is.
LEMMA KeyWrites ==
  ASSUME KeptInv, ConfigStarts, ConfigShape, UNCHANGED scenario, NEW home, HomeIs(home),
         NEW q \in {home, BackupOf[home]}, NEW v, disk' = [disk EXCEPT ![q] = v],
         v = Torn \/ \E d : v = Whole(d) /\ Fine(d),
         v = Torn => IF q = home THEN FineAt(BackupOf[home]) ELSE FineAt(home),
         q # home => FineAt(home)
  PROVE  HomeIs(home)' /\ (Moved => Moved') /\ (Unmoved' => Unmoved) /\ (v # Torn => FineAt(q)') /\ (q # home => FineAt(home)')
<1>0. Wanted # {} BY DEF KeptInv
<1>1. CASE home = Preferred /\ Moved
  <2>1. q \in ConfigPaths BY <1>1, PathsApart
  <2>2. ASSUME v # Torn PROVE FineAt(q)'
    <3>1. PICK d : v = Whole(d) /\ Fine(d) BY <2>2
    <3>2. v \notin {Absent, Torn} /\ v.data = d BY <3>1 DEF ConfigStarts, Whole
    <3>3. Fine(v.data) BY <3>1, <3>2
    <3>4. FineAt(q)' <=> v \notin {Absent, Torn} /\ Fine(v.data) BY <2>1, PlacesAre
    <3> QED BY <3>2, <3>3, <3>4
  <2>3. q # home => FineAt(home)' BY <1>1, <2>1, PlacesAre, PathsApart
  <2>4. Moved'
    <3>1. CASE q = Preferred /\ v = Torn
      <4>1. disk'[Preferred] = Torn /\ FineAt(BackupOf[Preferred])' BY <1>1, <2>1, <3>1, PlacesAre, PathsApart
      <4> QED BY <4>1 DEF Moved
    <3>2. CASE q = Preferred /\ v # Torn BY <2>2, <3>2 DEF Moved
    <3>3. CASE q # Preferred BY <1>1, <2>3, <3>3 DEF Moved
    <3> QED BY <3>1, <3>2, <3>3
  <2>5. ~Unmoved'
    <3>1. CASE q = Preferred
      <4>1. disk'[BackupOf[Preferred]] = disk[BackupOf[Preferred]] /\ disk'[Preferred] = v
        BY <2>1, <3>1, PlacesAre, PathsApart
      <4>2. v = Torn => disk[BackupOf[Preferred]] # Absent BY <1>1, <3>1 DEF FineAt
      <4>3. ASSUME v # Torn PROVE v \notin {Absent, Torn, Whole(Blank)}
        <5>1. PICK d : v = Whole(d) /\ Fine(d) BY <4>3
        <5>2. d # Blank BY <1>0, <5>1, FineIsNotBlank
        <5> QED BY <5>1, <5>2 DEF ConfigStarts, Whole
      <4> QED BY <4>1, <4>2, <4>3 DEF Unmoved
    <3>2. CASE q # Preferred
      <4>1. disk'[Preferred] = disk[Preferred] /\ FineAt(Preferred) BY <1>1, <2>1, <3>2, PlacesAre, PathsApart
      <4>2. disk[Preferred] \notin {Absent, Torn, Whole(Blank)} BY <1>0, <4>1, FineIsNotBlank DEF FineAt, Whole
      <4> QED BY <4>1, <4>2 DEF Unmoved
    <3> QED BY <3>1, <3>2
  <2> QED BY <1>1, <2>2, <2>3, <2>4, <2>5 DEF HomeIs
<1>2. CASE home = Legacy /\ Unmoved
  <2>1. q \in ConfigPaths BY <1>2, PathsApart
  <2>2. ASSUME v # Torn PROVE FineAt(q)'
    <3>1. PICK d : v = Whole(d) /\ Fine(d) BY <2>2
    <3>2. v \notin {Absent, Torn} /\ v.data = d BY <3>1 DEF ConfigStarts, Whole
    <3>3. Fine(v.data) BY <3>1, <3>2
    <3>4. FineAt(q)' <=> v \notin {Absent, Torn} /\ Fine(v.data) BY <2>1, PlacesAre
    <3> QED BY <3>2, <3>3, <3>4
  <2>3. q # home => FineAt(home)' BY <1>2, <2>1, PlacesAre, PathsApart
  <2>4. disk'[Preferred] = disk[Preferred] /\ disk'[BackupOf[Preferred]] = disk[BackupOf[Preferred]]
    BY <1>2, <2>1, PlacesAre, PathsApart
  <2>5. FineAt(Legacy)' \/ (disk'[Legacy] = Torn /\ FineAt(BackupOf[Legacy])')
    <3>1. CASE q = Legacy /\ v = Torn BY <1>2, <2>1, <3>1, PlacesAre, PathsApart
    <3>2. CASE q = Legacy /\ v # Torn BY <2>2, <3>2
    <3>3. CASE q # Legacy BY <1>2, <2>3, <3>3
    <3> QED BY <3>1, <3>2, <3>3
  <2>6. Unmoved' BY <1>2, <2>4, <2>5 DEF Unmoved
  <2>7. ~Moved BY <1>2, OnePlace
  <2> QED BY <1>2, <2>2, <2>3, <2>6, <2>7 DEF HomeIs
<1> QED BY <1>1, <1>2 DEF HomeIs

LEMMA KeyStep ==
  ASSUME KeptInv, ConfigStarts, ConfigShape, ScenariosFit, UNCHANGED scenario,
         NEW p \in Runs(scenario, "change-key"), Running(p), proc[p].todo # <<>>,
         NEW v, disk' = [disk EXCEPT ![Now(p).path] = v],
         \A x \in Procs : x # p => proc'[x] = proc[x] /\ temp'[x] = temp[x],
         proc'[p].turn = proc[p].turn, proc'[p].mem = proc[p].mem,
         \/ v = Torn /\ proc'[p].pc = "torn" /\ proc'[p].todo = proc[p].todo
         \/ v = Whole(Now(p).data) /\ proc'[p].pc = "write" /\ proc'[p].todo = Tail(proc[p].todo)
  PROVE  KeptInv'
<1>0. PICK path : path = proc[p].mem.path OBVIOUS
<1> DEFINE bak == BackupOf[path]
<1>1. /\ p \in Procs /\ scenario.cmds[p] # None /\ scenario.cmds[p].op = "change-key" /\ Steady(p) /\ KeyPlan(p)
      /\ proc[p].turn \in Nat
  BY DEF Runs, KeptInv, Steady, Plan
<1>2. proc[p].turn \notin {0, 1} /\ HomeIs(path) BY <1>0, <1>1 DEF KeyPlan
<1>3. path \in {Preferred, Legacy} /\ bak # path /\ path \in ConfigPaths /\ bak \in ConfigPaths
  BY <1>2, PathsApart DEF HomeIs
<1>4. p \notin Runs(scenario, "save") BY <1>1 DEF Runs
<1>5. ASSUME HomeIs(path)', Moved => Moved', Unmoved' => Unmoved,
             proc'[p].pc = "torn" => proc'[p].todo # <<>> /\ Now(p)'.how = "inplace",
             KeyPlan(p)', proc'[p].pc \in {"torn", "write"}
      PROVE  KeptInv'
  <2>1. Moved' \/ Unmoved' BY <1>5 DEF HomeIs
  <2>2. Steady(p)' BY <1>1, <1>5 DEF Steady, Plan, Stages
  <2> QED BY <1>1, <1>2, <1>4, <1>5, <2>1, <2>2, RewriterSteps
<1>6. ASSUME NEW raw, NEW new, proc[p].todo = <<InPlace(bak, raw), InPlace(path, new)>>,
             Fine(raw), Fine(new), FineAt(path)
      PROVE  KeptInv'
  <2>1. PICK b, w : b = InPlace(bak, raw) /\ w = InPlace(path, new) OBVIOUS
  <2>2. Now(p) = b /\ Tail(proc[p].todo) = <<w>> BY <1>6, <2>1, NowIs
  <2>3. b.path = bak /\ b.data = raw /\ b.how = "inplace" BY <2>1, Hows
  <2>4. /\ HomeIs(path)' /\ (Moved => Moved') /\ (Unmoved' => Unmoved)
        /\ v # Torn => FineAt(bak)'
        /\ FineAt(path)'
    <3>1. disk' = [disk EXCEPT ![bak] = v] BY <2>2, <2>3
    <3>2. v = Torn \/ \E d : v = Whole(d) /\ Fine(d) BY <1>6, <2>2, <2>3
    <3>3. HomeIs(path) /\ FineAt(path) /\ BackupOf[path] # path BY <1>2, <1>3, <1>6
    <3> QED BY <3>1, <3>2, <3>3, KeyWrites
  <2>5. CASE v = Torn /\ proc'[p].pc = "torn" /\ proc'[p].todo = proc[p].todo
    <3>1. KeyPlan(p)' BY <1>0, <1>1, <1>2, <1>6, <2>4, <2>5, FineStays DEF KeyPlan
    <3>2. Now(p)' = b BY <2>2, <2>5 DEF Now
    <3> QED BY <1>5, <2>3, <2>4, <2>5, <3>1, <3>2
  <2>6. CASE v = Whole(Now(p).data) /\ proc'[p].pc = "write" /\ proc'[p].todo = Tail(proc[p].todo)
    <3>1. FineAt(bak)' BY <2>4, <2>6 DEF ConfigStarts
    <3>2. proc'[p].todo = <<InPlace(path, new)>> BY <2>1, <2>2, <2>6
    <3>3. KeyPlan(p)' BY <1>0, <1>1, <1>2, <1>6, <2>4, <3>1, <3>2, FineStays DEF KeyPlan
    <3> QED BY <1>5, <2>4, <2>6, <3>3
  <2> QED BY <2>5, <2>6
<1>7. ASSUME NEW new, proc[p].todo = <<InPlace(path, new)>>, Fine(new), FineAt(bak)
      PROVE  KeptInv'
  <2>1. PICK w : w = InPlace(path, new) OBVIOUS
  <2>2. Now(p) = w /\ Tail(proc[p].todo) = <<>> BY <1>7, <2>1, NowIs
  <2>3. w.path = path /\ w.data = new /\ w.how = "inplace" BY <2>1, Hows
  <2>4. HomeIs(path)' /\ (Moved => Moved') /\ (Unmoved' => Unmoved)
    <3>1. disk' = [disk EXCEPT ![path] = v] BY <2>2, <2>3
    <3>2. v = Torn \/ \E d : v = Whole(d) /\ Fine(d) BY <1>7, <2>2, <2>3
    <3>3. HomeIs(path) /\ FineAt(BackupOf[path]) BY <1>2, <1>7
    <3> QED BY <3>1, <3>2, <3>3, KeyWrites
  <2>5. FineAt(bak)' BY <1>3, <1>7, <2>2, <2>3, PlacesAre
  <2>6. CASE v = Torn /\ proc'[p].pc = "torn" /\ proc'[p].todo = proc[p].todo
    <3>1. KeyPlan(p)' BY <1>0, <1>1, <1>2, <1>7, <2>4, <2>5, <2>6, FineStays DEF KeyPlan
    <3>2. Now(p)' = w BY <2>2, <2>6 DEF Now
    <3> QED BY <1>5, <2>3, <2>4, <2>6, <3>1, <3>2
  <2>7. CASE v = Whole(Now(p).data) /\ proc'[p].pc = "write" /\ proc'[p].todo = Tail(proc[p].todo)
    <3>1. KeyPlan(p)' BY <1>0, <1>1, <1>2, <2>2, <2>7 DEF KeyPlan
    <3> QED BY <1>5, <2>4, <2>7, <3>1
  <2> QED BY <2>6, <2>7
<1> QED BY <1>0, <1>1, <1>2, <1>6, <1>7 DEF KeyPlan

\* What the TUI does to the file it resolved: a config with the passwords is renamed over
\* it, or an example is written aside.
LEMMA SaverStep ==
  ASSUME KeptInv, ConfigStarts, ConfigShape, UNCHANGED scenario,
         NEW p \in Runs(scenario, "save"), Running(p), proc[p].todo # <<>>,
         NEW v, disk' = [disk EXCEPT ![Now(p).path] = v],
         \A x \in Procs : x # p => proc'[x] = proc[x] /\ temp'[x] = temp[x],
         proc'[p].turn = proc[p].turn, proc'[p].mem = proc[p].mem,
         \/ /\ v = Torn /\ Now(p).how = "inplace"
            /\ proc'[p].pc = "torn" /\ proc'[p].todo = proc[p].todo
         \/ /\ \/ v = Whole(Now(p).data) /\ Now(p).how = "inplace"
               \/ v = Whole(temp[p]) /\ proc[p].pc = "staged"
            /\ proc'[p].pc = "write" /\ proc'[p].todo = Tail(proc[p].todo)
  PROVE  KeptInv'
<1> DEFINE m == proc[p].mem
<1>1. p \in Procs /\ scenario.cmds[p] # None /\ scenario.cmds[p].op = "save" /\ Steady(p) /\ SavePlan(p)
  BY DEF Runs, KeptInv, Steady, Plan
<1>2. proc[p].turn # 0 BY <1>1 DEF SavePlan
<1>3. PICK w : /\ proc[p].todo = <<w>>
               /\ \/ w = InPlace(m, Example) /\ Aside(p)
                  \/ \E d : w = Replace(m, d, TRUE)
  BY <1>1, Zenon DEF SavePlan
<1>4. Now(p) = w /\ Tail(proc[p].todo) = <<>> BY <1>3, NowIs
<1>5. w.path = m /\ (w.how = "inplace" => w = InPlace(m, Example) /\ Aside(p))
  BY <1>3 DEF InPlace, Replace
<1>6. disk' = [disk EXCEPT ![m] = v] BY <1>4, <1>5
<1>7. CASE v = Torn /\ Now(p).how = "inplace" /\ proc'[p].pc = "torn" /\ proc'[p].todo = proc[p].todo
  <2>1. proc[p].todo = <<InPlace(m, Example)>> /\ Aside(p) BY <1>3, <1>4, <1>5, <1>7
  <2> QED BY <1>2, <1>6, <1>7, <2>1, SaverSteps
<1>8. CASE v = Whole(Now(p).data) /\ Now(p).how = "inplace" /\ proc'[p].pc = "write" /\ proc'[p].todo = Tail(proc[p].todo)
  <2>1. Aside(p) BY <1>4, <1>5, <1>8
  <2>2. proc'[p].todo = <<>> /\ proc'[p].pc = "write" BY <1>4, <1>8
  <2> QED BY <1>2, <1>6, <2>1, <2>2, SaverSteps
<1>9. CASE v = Whole(temp[p]) /\ proc[p].pc = "staged" /\ proc'[p].pc = "write" /\ proc'[p].todo = Tail(proc[p].todo)
  <2>1. (\E d : v = Whole(d) /\ Fine(d)) \/ Aside(p) BY <1>1, <1>9 DEF SavePlan
  <2>2. proc'[p].todo = <<>> /\ proc'[p].pc = "write" BY <1>4, <1>9
  <2> QED BY <1>2, <1>6, <2>1, <2>2, SaverSteps
<1> QED BY <1>7, <1>8, <1>9

\* While the passwords are at the old place the preferred one may hold nothing.
LEMMA NothingThere ==
  ASSUME KeptInv, ConfigStarts, ConfigShape, UNCHANGED scenario, Unmoved,
         NEW v \in {Absent, Torn, Whole(Blank)}, disk' = [disk EXCEPT ![Preferred] = v]
  PROVE  Unmoved' /\ ~Moved' /\ disk'[Legacy] = disk[Legacy]
<1>0. Wanted # {} BY DEF KeptInv
<1>1. /\ disk'[Preferred] = v /\ disk'[Legacy] = disk[Legacy]
      /\ disk'[BackupOf[Preferred]] = disk[BackupOf[Preferred]]
      /\ FineAt(Legacy)' <=> FineAt(Legacy)
      /\ FineAt(BackupOf[Legacy])' <=> FineAt(BackupOf[Legacy])
  BY PlacesAre, PathsApart
<1>2. Unmoved' BY <1>1 DEF Unmoved
<1>3. ~FineAt(Preferred)'
  <2>1. FineAt(Preferred)' <=> v \notin {Absent, Torn} /\ Fine(v.data) BY PlacesAre, PathsApart
  <2>2. v \notin {Absent, Torn} => v.data = Blank BY DEF Whole
  <2>3. ~Fine(Blank) BY <1>0, FineIsNotBlank
  <2> QED BY <2>1, <2>2, <2>3
<1>4. ~FineAt(BackupOf[Preferred])' BY <1>1 DEF Unmoved, FineAt
<1> QED BY <1>1, <1>2, <1>3, <1>4 DEF Moved

LEMMA MoveStep ==
  ASSUME KeptInv, ConfigStarts, ConfigShape, ScenariosFit, UNCHANGED scenario,
         NEW p \in Runs(scenario, "migrate"), Running(p), proc[p].todo # <<>>,
         NEW v, disk' = [disk EXCEPT ![Now(p).path] = v],
         \A x \in Procs : x # p => proc'[x] = proc[x] /\ temp'[x] = temp[x],
         proc'[p].turn = proc[p].turn,
         \/ /\ v = Torn /\ Now(p).how = "inplace"
            /\ proc'[p].pc = "torn" /\ proc'[p].todo = proc[p].todo
         \/ /\ \/ v = Whole(Now(p).data) /\ Now(p).how = "inplace"
               \/ v = Absent /\ Now(p).how = "remove"
            /\ proc'[p].pc = "write" /\ proc'[p].todo = Tail(proc[p].todo)
  PROVE  KeptInv'
<1>0. Wanted # {} BY DEF KeptInv
<1>1. /\ p \in Procs /\ scenario.cmds[p] # None /\ scenario.cmds[p].op = "migrate" /\ Steady(p) /\ MovePlan(p)
      /\ proc[p].turn \in Nat
  BY DEF Runs, KeptInv, Steady, Plan
<1>2. p \notin Runs(scenario, "save") BY <1>1 DEF Runs
<1>3. Preferred \in ConfigPaths /\ Legacy \in ConfigPaths BY PathsApart
<1>4. ASSUME Moved => Moved', Unmoved' => Unmoved, Moved' \/ Unmoved',
             Moved' => disk'[Preferred] # Torn, Unmoved' => disk'[Legacy] = disk[Legacy],
             proc'[p].pc = "torn" => proc'[p].todo # <<>> /\ Now(p)'.how = "inplace",
             MovePlan(p)', proc'[p].pc \in {"torn", "write"}
      PROVE  KeptInv'
  <2>1. Steady(p)' BY <1>1, <1>4 DEF Steady, Plan, Stages
  <2> QED BY <1>1, <1>2, <1>4, <2>1, RewriterSteps
<1>5. ASSUME NEW d, proc[p].todo = <<InPlace(Preferred, d)>>, Unmoved, Fine(d) \/ d = Blank, proc[p].turn = 1
      PROVE  KeptInv'
  <2>1. PICK w : w = InPlace(Preferred, d) OBVIOUS
  <2>2. Now(p) = w /\ Tail(proc[p].todo) = <<>> BY <1>5, <2>1, NowIs
  <2>3. w.path = Preferred /\ w.data = d /\ w.how = "inplace" BY <2>1, Hows
  <2>4. ~Moved BY <1>5, OnePlace
  <2>5. disk' = [disk EXCEPT ![Preferred] = v] BY <2>2, <2>3
  <2>6. CASE v = Torn /\ proc'[p].pc = "torn" /\ proc'[p].todo = proc[p].todo
    <3>1. Unmoved' /\ ~Moved' /\ disk'[Legacy] = disk[Legacy] BY <1>5, <2>5, <2>6, NothingThere
    <3>2. MovePlan(p)' BY <1>5, <2>6, <3>1, FineStays DEF MovePlan
    <3>3. Now(p)' = w BY <2>2, <2>6 DEF Now
    <3> QED BY <1>4, <1>5, <2>3, <2>4, <2>6, <3>1, <3>2, <3>3
  <2>7. CASE v = Whole(d) /\ proc'[p].pc = "write" /\ proc'[p].todo = <<>> /\ d = Blank
    <3>1. Unmoved' /\ ~Moved' /\ disk'[Legacy] = disk[Legacy] BY <1>5, <2>5, <2>7, NothingThere
    <3>2. MovePlan(p)' BY <1>5, <2>7, <3>1 DEF MovePlan
    <3> QED BY <1>4, <1>5, <2>4, <2>7, <3>1, <3>2
  <2>8. CASE v = Whole(d) /\ proc'[p].pc = "write" /\ proc'[p].todo = <<>> /\ Fine(d)
    <3>1. v \notin {Absent, Torn, Whole(Blank)} /\ v.data = d
      BY <1>0, <2>8, FineIsNotBlank DEF ConfigStarts, Whole
    <3>2. disk'[Preferred] = v /\ FineAt(Preferred)'
      <4>1. FineAt(Preferred)' <=> v \notin {Absent, Torn} /\ Fine(v.data) BY <1>3, <2>5, PlacesAre
      <4>2. disk'[Preferred] = v BY <1>3, <2>5, PlacesAre
      <4> QED BY <2>8, <3>1, <4>1, <4>2
    <3>3. Moved' BY <3>2 DEF Moved
    <3>4. ~Unmoved' BY <3>1, <3>2 DEF Unmoved
    <3>5. MovePlan(p)' BY <1>5, <2>8, <3>2 DEF MovePlan
    <3> QED BY <1>4, <1>5, <2>8, <3>1, <3>2, <3>3, <3>4, <3>5
  <2> QED BY <1>5, <2>2, <2>3, <2>6, <2>7, <2>8
<1>6. ASSUME proc[p].todo = <<Unlink(Preferred)>>, Unmoved, proc[p].turn \notin {0, 1}
      PROVE  KeptInv'
  <2>1. PICK w : w = Unlink(Preferred) OBVIOUS
  <2>2. Now(p) = w /\ Tail(proc[p].todo) = <<>> BY <1>6, <2>1, NowIs
  <2>3. w.path = Preferred /\ w.how = "remove" BY <2>1, Hows
  <2>4. ~Moved BY <1>6, OnePlace
  <2>5. v = Absent /\ proc'[p].pc = "write" /\ proc'[p].todo = <<>> BY <2>2, <2>3
  <2>6. disk' = [disk EXCEPT ![Preferred] = v] BY <2>2, <2>3
  <2>7. Unmoved' /\ ~Moved' /\ disk'[Legacy] = disk[Legacy] BY <1>6, <2>5, <2>6, NothingThere
  <2>8. MovePlan(p)' BY <1>6, <2>5 DEF MovePlan
  <2> QED BY <1>4, <1>6, <2>4, <2>5, <2>7, <2>8
<1>7. ASSUME proc[p].todo = <<Unlink(Legacy)>>, FineAt(Preferred), proc[p].turn \notin {0, 1}
      PROVE  KeptInv'
  <2>1. PICK w : w = Unlink(Legacy) OBVIOUS
  <2>2. Now(p) = w /\ Tail(proc[p].todo) = <<>> BY <1>7, <2>1, NowIs
  <2>3. w.path = Legacy /\ w.how = "remove" BY <2>1, Hows
  <2>4. v = Absent /\ proc'[p].pc = "write" /\ proc'[p].todo = <<>> BY <2>2, <2>3
  <2>5. disk' = [disk EXCEPT ![Legacy] = v] BY <2>2, <2>3
  <2>6. disk'[Preferred] = disk[Preferred] /\ FineAt(Preferred)'
    <3>1. Preferred # Legacy BY PathsApart
    <3>2. disk'[Preferred] = disk[Preferred] /\ (FineAt(Preferred)' <=> FineAt(Preferred)) BY <1>3, <2>5, <3>1, PlacesAre
    <3> QED BY <1>7, <3>2
  <2>7. disk[Preferred] \notin {Absent, Torn, Whole(Blank)} BY <1>0, <1>7, FineIsNotBlank DEF FineAt, Whole
  <2>8. Moved' /\ ~Unmoved' BY <2>6, <2>7 DEF Moved, Unmoved
  <2>9. MovePlan(p)' BY <1>7, <2>4 DEF MovePlan
  <2> QED BY <1>4, <1>7, <2>4, <2>6, <2>7, <2>8, <2>9
<1> QED BY <1>1, <1>5, <1>6, <1>7 DEF MovePlan

LEMMA WriteKeeps ==
  ASSUME KeptInv, ConfigStarts, ConfigShape, ScenariosFit, NEW p \in Procs,
         Truncate(p) \/ Fill(p) \/ Publish(p) \/ Delete(p)
  PROVE  KeptInv'
<1>1. Steady(p) BY DEF KeptInv
<1>2. CASE Truncate(p)
  <2>1. /\ proc[p].pc = "write" /\ proc[p].todo # <<>> /\ Now(p).how = "inplace" /\ UNCHANGED <<scenario, temp>>
        /\ disk' = [disk EXCEPT ![Now(p).path] = Torn] /\ Becomes(p, "torn", proc[p].todo)
    BY <1>2 DEF Truncate, Doing, Goes
  <2>2. /\ proc'[p].pc = "torn" /\ proc'[p].todo = proc[p].todo
        /\ proc'[p].turn = proc[p].turn /\ proc'[p].mem = proc[p].mem
        /\ \A x \in Procs : x # p => proc'[x] = proc[x] /\ temp'[x] = temp[x]
    BY <2>1, Going
  <2>3. Running(p) BY <2>1 DEF Running
  <2>4. p \in Runs(scenario, "save") \cup Runs(scenario, "migrate") \cup Runs(scenario, "change-key")
    BY <2>1, <2>3, WhoDoes
  <2>5. CASE p \in Runs(scenario, "save") BY <2>1, <2>2, <2>3, <2>5, SaverStep
  <2>6. CASE p \in Runs(scenario, "migrate") BY <2>1, <2>2, <2>3, <2>6, MoveStep
  <2>7. CASE p \in Runs(scenario, "change-key") BY <2>1, <2>2, <2>3, <2>7, KeyStep
  <2> QED BY <2>4, <2>5, <2>6, <2>7
<1>3. CASE Fill(p)
  <2>1. /\ proc[p].pc = "torn" /\ UNCHANGED <<scenario, temp>>
        /\ disk' = [disk EXCEPT ![Now(p).path] = Whole(Now(p).data)] /\ Becomes(p, "write", Tail(proc[p].todo))
    BY <1>3 DEF Fill, Written
  <2>2. /\ proc'[p].pc = "write" /\ proc'[p].todo = Tail(proc[p].todo)
        /\ proc'[p].turn = proc[p].turn /\ proc'[p].mem = proc[p].mem
        /\ \A x \in Procs : x # p => proc'[x] = proc[x] /\ temp'[x] = temp[x]
    BY <2>1, Going
  <2>3. Running(p) BY <2>1 DEF Running
  <2>4. proc[p].todo # <<>> /\ Now(p).how = "inplace" BY <1>1, <2>1, <2>3 DEF Steady, Plan
  <2>5. p \in Runs(scenario, "save") \cup Runs(scenario, "migrate") \cup Runs(scenario, "change-key")
    BY <2>3, <2>4, WhoDoes
  <2>6. CASE p \in Runs(scenario, "save") BY <2>1, <2>2, <2>3, <2>4, <2>6, SaverStep
  <2>7. CASE p \in Runs(scenario, "migrate") BY <2>1, <2>2, <2>3, <2>4, <2>7, MoveStep
  <2>8. CASE p \in Runs(scenario, "change-key") BY <2>1, <2>2, <2>3, <2>4, <2>8, KeyStep
  <2> QED BY <2>5, <2>6, <2>7, <2>8
<1>4. CASE Publish(p)
  <2>1. /\ proc[p].pc = "staged" /\ UNCHANGED scenario /\ temp' = [temp EXCEPT ![p] = None]
        /\ disk' = [disk EXCEPT ![Now(p).path] = Whole(temp[p])] /\ Becomes(p, "write", Tail(proc[p].todo))
    BY <1>4 DEF Publish, Written
  <2>2. /\ proc'[p].pc = "write" /\ proc'[p].todo = Tail(proc[p].todo)
        /\ proc'[p].turn = proc[p].turn /\ proc'[p].mem = proc[p].mem
        /\ \A x \in Procs : x # p => proc'[x] = proc[x]
    BY <2>1, Going
  <2>3. \A x \in Procs : x # p => temp'[x] = temp[x] BY <2>1 DEF ConfigShape
  <2>4. Running(p) BY <2>1 DEF Running
  <2>5. proc[p].todo # <<>> /\ Now(p).how = "replace" BY <1>1, <2>1, <2>4 DEF Steady, Plan
  <2>6. p \in Runs(scenario, "save") BY <2>4, <2>5, WhoDoes
  <2> QED BY <2>1, <2>2, <2>3, <2>4, <2>5, <2>6, SaverStep
<1>5. CASE Delete(p)
  <2>1. /\ proc[p].pc = "write" /\ proc[p].todo # <<>> /\ Now(p).how = "remove" /\ UNCHANGED <<scenario, temp>>
        /\ disk' = [disk EXCEPT ![Now(p).path] = Absent] /\ Becomes(p, "write", Tail(proc[p].todo))
    BY <1>5 DEF Delete, Doing, Written
  <2>2. /\ proc'[p].pc = "write" /\ proc'[p].todo = Tail(proc[p].todo)
        /\ proc'[p].turn = proc[p].turn /\ proc'[p].mem = proc[p].mem
        /\ \A x \in Procs : x # p => proc'[x] = proc[x] /\ temp'[x] = temp[x]
    BY <2>1, Going
  <2>3. Running(p) BY <2>1 DEF Running
  <2>4. p \in Runs(scenario, "migrate") BY <2>1, <2>3, WhoDoes
  <2> QED BY <2>1, <2>2, <2>3, <2>4, MoveStep
<1> QED BY <1>2, <1>3, <1>4, <1>5

LEMMA ShapeKept == ASSUME ConfigShape, [Next]_vars PROVE ConfigShape'
<1>1. CASE UNCHANGED vars BY <1>1 DEF vars, ConfigShape
<1>2. CASE Next
  <2>1. PICK p \in Procs :
          \/ Start(p) \/ Think(p) \/ Rest(p)
          \/ Refuse(p) \/ Stage(p) \/ Publish(p)
          \/ Truncate(p) \/ Fill(p) \/ Delete(p) \/ DeleteGone(p)
          \/ Fail(p) \/ Crash(p)
    BY <1>2 DEF Next
  <2>2. proc' = [x \in Procs |-> proc'[x]]
    BY <2>1 DEF ConfigShape, Start, Think, Rest, Refuse, Stage, Publish, Truncate, Fill, Delete, DeleteGone, Fail,
                Crash, Goes, Written, Becomes
  <2>3. temp' = [x \in Procs |-> temp'[x]]
    BY <2>1 DEF ConfigShape, Start, Think, Rest, Refuse, Stage, Publish, Truncate, Fill, Delete, DeleteGone, Fail, Crash
  <2>4. disk' = [x \in DOMAIN disk' |-> disk'[x]] /\ DOMAIN disk' = DOMAIN disk
    BY <2>1 DEF ConfigShape, Start, Think, Rest, Refuse, Stage, Publish, Truncate, Fill, Delete, DeleteGone, Fail, Crash
  <2> QED BY <2>2, <2>3, <2>4 DEF ConfigShape
<1> QED BY <1>1, <1>2

LEMMA KeptStep ==
  ASSUME KeptInv, ConfigShape, ConfigStarts, TurnsAreConfig, ScenariosFit, [Next]_vars PROVE KeptInv'
<1>1. CASE UNCHANGED vars
  <2>1. UNCHANGED <<scenario, disk, proc, temp>> BY <1>1 DEF vars
  <2>2. \A x \in Procs : Steady(x)' BY <2>1, SteadyElsewhere DEF KeptInv
  <2>3. Moved' \/ Unmoved' BY <2>1, PlaceStays DEF KeptInv
  <2>4. Wanted' # {} /\ HasPasswords(scenario)' BY <2>1, FineStays DEF KeptInv, HasPasswords
  <2>5. OneAtATime' BY <2>1 DEF KeptInv, OneAtATime, Running
  <2>6. TornByKey' BY <2>1, PlaceStays DEF KeptInv, TornByKey, Runs
  <2> QED BY <2>1, <2>2, <2>3, <2>4, <2>5, <2>6 DEF KeptInv
<1>2. CASE Next
  <2>1. PICK p \in Procs :
          \/ Start(p) \/ Think(p) \/ Rest(p) \/ Stage(p)
          \/ Refuse(p) \/ DeleteGone(p) \/ Fail(p) \/ Crash(p)
          \/ Truncate(p) \/ Fill(p) \/ Publish(p) \/ Delete(p)
    BY <1>2 DEF Next
  <2> QED BY <2>1, StartKeeps, ThinkKeeps, RestKeeps, StageKeeps, StopKeeps, WriteKeeps
<1> QED BY <1>1, <1>2

LEMMA KeptInit ==
  ASSUME Init, ConfigStarts, ScenariosFit, HasPasswords(scenario) PROVE KeptInv
<1>1. scenario \in Scenarios /\ disk = scenario.disk BY DEF Init
<1>2. OneConfig(scenario) BY <1>1 DEF ScenariosFit
<1>3. PICK home \in {Preferred, Legacy} :
        /\ \A q \in ConfigPaths : q # home => disk[q] = Absent
        /\ \E key \in MasterKeys : disk[home] = Whole(Config(disk[home].data.secrets, key, disk[home].data.opts))
  BY <1>1, <1>2 DEF OneConfig
<1> DEFINE have == disk[home].data
<1>4. PICK key \in MasterKeys : disk[home] = Whole(Config(have.secrets, key, have.opts)) BY <1>3
<1>5. disk[home] \notin {Absent, Torn} BY <1>4 DEF ConfigStarts
<1>6. have = Config(have.secrets, have.key, have.opts) /\ have.key = key BY <1>4 DEF Whole, Config
<1>7. Wanted = have.secrets
  <2>1. {x \in {Preferred, Legacy} : disk[x] # Absent} = {home} BY <1>3, <1>5, PathsApart
  <2> QED BY <1>1, <2>1 DEF Wanted
<1>8. Wanted # {} BY <1>1, <1>3, <1>7 DEF HasPasswords
<1>9. FineAt(home) BY <1>5, <1>6, <1>7 DEF Fine, FineAt
<1>10. Moved \/ Unmoved
  <2>1. CASE home = Preferred BY <1>9, <2>1 DEF Moved
  <2>2. CASE home = Legacy
    <3>1. disk[Preferred] = Absent /\ disk[BackupOf[Preferred]] = Absent BY <1>3, <2>2, PathsApart
    <3> QED BY <1>9, <2>2, <3>1 DEF Unmoved
  <2> QED BY <2>1, <2>2
<1>11. \A x \in Procs : proc[x] = Idle BY DEF Init
<1>12. \A x \in Procs : ~Running(x) /\ Steady(x) BY <1>11 DEF Running, Steady, Idle, Stages
<1>13. TornByKey
  <2>1. disk[Preferred] # Torn /\ disk[Legacy] # Torn BY <1>3, <1>5, PathsApart DEF ConfigStarts
  <2> QED BY <2>1 DEF TornByKey
<1> QED BY <1>1, <1>8, <1>10, <1>12, <1>13 DEF KeptInv, OneAtATime

LEMMA KeptShows == ASSUME ScenariosFit, KeptInv PROVE PasswordsKept
<1> SUFFICES ASSUME NEW q \in ConfigPaths, scenario.disk[q] # Absent
             PROVE  Recoverable(scenario.disk[q].data.secrets, MasterKeys, ConfigPaths, disk)
  BY DEF PasswordsKept
<1>1. q \in {Preferred, Legacy} BY Given DEF OneConfig
<1>2. scenario.disk[q].data.secrets \subseteq Wanted BY <1>1 DEF Wanted
<1>3. PICK x \in ConfigPaths : FineAt(x) BY PathsApart DEF KeptInv, Moved, Unmoved
<1> QED BY <1>2, <1>3 DEF FineAt, Fine, Recoverable

\* However the commands that rewrite the config and the options saved from the TUI come
\* between each other, fail and crash, a whole file that holds the encrypted passwords,
\* under a master key somebody has, is at a place of the config or is a backup of one.
THEOREM PasswordsSurvive ==
  ASSUME ConfigStarts, TurnsAreConfig, ScenariosFit
  PROVE  Spec => []PasswordsKept
<1> DEFINE KInv == ConfigShape /\ (HasPasswords(scenario) => KeptInv)
<1>1. Init => KInv
  <2> SUFFICES ASSUME Init PROVE KInv OBVIOUS
  <2>1. ConfigShape BY DEF Init, ConfigStarts, ConfigShape
  <2> QED BY <2>1, KeptInit
<1>2. KInv /\ [Next]_vars => KInv'
  <2> SUFFICES ASSUME KInv, [Next]_vars PROVE KInv' OBVIOUS
  <2>1. ConfigShape' BY ShapeKept
  <2>2. scenario' = scenario
    BY DEF Next, vars, Start, Think, Rest, Refuse, Stage, Publish, Truncate, Fill, Delete, DeleteGone, Fail, Crash
  <2>3. HasPasswords(scenario)' => HasPasswords(scenario) BY <2>2 DEF HasPasswords
  <2> QED BY <2>1, <2>3, KeptStep
<1>3. KInv => PasswordsKept
  <2> SUFFICES ASSUME KInv PROVE PasswordsKept OBVIOUS
  <2>1. CASE HasPasswords(scenario) BY <2>1, KeptShows
  <2>2. CASE ~HasPasswords(scenario) BY <2>2 DEF HasPasswords, PasswordsKept
  <2> QED BY <2>1, <2>2
<1> QED BY <1>1, <1>2, <1>3, PTL DEF Spec
===============================================================================
