------------------------------ MODULE ConfigFile ------------------------------
(***************************************************************************)
(* The commands that write the config file: saving options from the TUI    *)
(* (cmd/tui.go), changing the master key, migrating from the old location  *)
(* and writing the example (cmd/password_change_master_key.go,             *)
(* cmd/config_migrate.go, cmd/config_init.go), over internal/config.  A    *)
(* config is the passwords it keeps, the master key they are encrypted     *)
(* with, and its other options.                                            *)
(***************************************************************************)
EXTENDS FileWrites

CONSTANTS
  Preferred, Legacy,   \* ~/.certdiag/certdiag.yaml and ~/.certdiag.yaml
  BackupOf,            \* path -> path of its backup
  MasterKeys           \* the master keys somebody has

ConfigPaths == {Preferred, Legacy, BackupOf[Preferred], BackupOf[Legacy]}
ASSUME ConfigAssumption ==
  /\ Preferred # Legacy /\ None \notin ConfigPaths
  /\ BackupOf[Preferred] \notin {Preferred, Legacy, BackupOf[Legacy]}
  /\ BackupOf[Legacy] \notin {Preferred, Legacy}

Config(secrets, key, opts) == [secrets |-> secrets, key |-> key, opts |-> opts]
Example == Config({}, "none", "example")
\* What is read while a file is truncated.
Blank == Config({}, "none", "blank")

Raw(file) == IF file = Torn THEN Blank ELSE file.data

\* resolvePath: a named config, or the one at the preferred place, or the old one.
ResolvePath(given, files) ==
  IF given # None THEN given
  ELSE IF files[Preferred] = Absent /\ files[Legacy] # Absent THEN Legacy
  ELSE Preferred
UsingLegacy(given, files) == given = None /\ ResolvePath(given, files) = Legacy

\* LoadConfig: a named config has to be there; an empty one has no kind.
CannotLoad(given, files) ==
  LET path == ResolvePath(given, files)
  IN  IF files[path] = Absent THEN given # None ELSE Raw(files[path]) = Blank
Loaded(given, files) ==
  LET path == ResolvePath(given, files)
  IN  IF files[path] = Absent THEN Example ELSE Raw(files[path])

\* RewriteTUIOptions and its likes change what they are asked to and keep the rest; they
\* find no document in an empty file.
Rewritten(config, opts) == [config EXCEPT !.opts = opts]

\* EnsureConfig and the three savers: the path was resolved when the TUI started.
SaveTurn(cmd, turn, path, files) ==
  CASE turn = 0 ->
         IF CannotLoad(cmd.given, files) THEN Error ELSE Go(<<>>, ResolvePath(cmd.given, files))
    [] turn = 1 -> Go(IF files[path] = Absent THEN <<InPlace(path, Example)>> ELSE <<>>, path)
    [] turn = 2 ->
         IF files[path] = Absent \/ Raw(files[path]) = Blank THEN Error
         ELSE Go(<<Replace(path, Rewritten(files[path].data, cmd.opts), TRUE)>>, path)
    [] OTHER -> Finished(path)

\* replaceInNode: only the values that were decrypted are replaced in what was read first.
Reencrypted(raw, config, key) == IF raw.key = config.key THEN [raw EXCEPT !.key = key] ELSE raw

ChangeKeyNoBackupFirst(cmd, turn, mem, files) ==
  LET path == ResolvePath(cmd.given, files)
      config == Loaded(cmd.given, files)
  IN  CASE turn = 0 ->
             IF files[path] = Absent THEN Error ELSE Go(<<>>, [path |-> path, raw |-> Raw(files[path])])
        [] turn = 1 ->
             IF CannotLoad(cmd.given, files) THEN Error
             ELSE IF config.secrets = {} THEN Finished(mem)
             ELSE IF config.key # cmd.old THEN Error
             ELSE Go(<<InPlace(mem.path, Reencrypted(mem.raw, config, cmd.new)),
                       InPlace(BackupOf[mem.path], mem.raw)>>, mem)
        [] OTHER -> Finished(mem)

ChangeKeyTurn(cmd, turn, mem, files) ==
  LET path == ResolvePath(cmd.given, files)
      config == Loaded(cmd.given, files)
  IN  CASE turn = 0 ->
             IF files[path] = Absent THEN Error ELSE Go(<<>>, [path |-> path, raw |-> Raw(files[path])])
        [] turn = 1 ->
             IF CannotLoad(cmd.given, files) THEN Error
             ELSE IF config.secrets = {} THEN Finished(mem)
             ELSE IF config.key # cmd.old THEN Error
             ELSE Go(<<InPlace(BackupOf[mem.path], mem.raw),
                       InPlace(mem.path, Reencrypted(mem.raw, config, cmd.new))>>, mem)
        [] OTHER -> Finished(mem)

\* The old file is removed only once the copy was read back.
MigrateTurn(cmd, turn, mem, files) ==
  CASE turn = 0 ->
         IF files[Legacy] = Absent THEN Finished(mem)
         ELSE IF files[Preferred] # Absent THEN Error
         ELSE IF cmd.dryRun THEN Finished(mem)
         ELSE Go(<<InPlace(Preferred, Raw(files[Legacy]))>>, "copied")
    [] turn = 1 ->
         IF CannotLoad(Preferred, files) THEN Go(<<Unlink(Preferred)>>, "unreadable")
         ELSE Go(<<Unlink(Legacy)>>, "moved")
    [] OTHER -> IF mem = "moved" THEN Finished(mem) ELSE Error

InitTurn(cmd, turn, mem, files) ==
  LET path == ResolvePath(cmd.given, files)
  IN  IF turn > 0 THEN Finished(mem)
      ELSE IF UsingLegacy(cmd.given, files) \/ (files[path] # Absent /\ ~cmd.force) THEN Error
      ELSE Go(<<InPlace(path, Example)>>, path)

ConfigOps == {"save", "change-key", "migrate", "init"}
ConfigTurn(cmd, turn, mem, files) ==
  CASE cmd.op = "save" -> SaveTurn(cmd, turn, mem, files)
    [] cmd.op = "change-key" -> ChangeKeyTurn(cmd, turn, mem, files)
    [] cmd.op = "migrate" -> MigrateTurn(cmd, turn, mem, files)
    [] cmd.op = "init" -> InitTurn(cmd, turn, mem, files)

-------------------------------------------------------------------------------
(* Properties *)

\* What the commands of a scenario with passwords are taken to be: one config file and no
\* backup, nobody told to use another file or to overwrite it, the commands that rewrite it
\* run one after the other, and options saved beside at most one change of the master key.
OneConfig(s) ==
  \E home \in {Preferred, Legacy} :
    /\ \A q \in ConfigPaths : q # home => s.disk[q] = Absent
    /\ \E key \in MasterKeys : s.disk[home] = Whole(Config(s.disk[home].data.secrets, key, s.disk[home].data.opts))
Runs(s, op) == {p \in Procs : s.cmds[p] # None /\ s.cmds[p].op = op}
ConfigCommands(s) ==
  /\ \A p \in Procs : s.cmds[p] # None => s.cmds[p].op \in ConfigOps /\ (s.cmds[p].op # "save" => p \in s.oneByOne)
  /\ \A p \in Runs(s, "save") \cup Runs(s, "change-key") \cup Runs(s, "init") : s.cmds[p].given = None
  /\ \A p \in Runs(s, "change-key") : s.cmds[p].new \in MasterKeys
  /\ \A p \in Runs(s, "init") : ~s.cmds[p].force
SavesBesideOne(s) == Runs(s, "save") = {} \/ \A p, q \in Runs(s, "change-key") : p = q
HasPasswords(s) == \E q \in ConfigPaths : s.disk[q] # Absent /\ s.disk[q].data.secrets # {}
ScenariosFit == \A s \in Scenarios : HasPasswords(s) => OneConfig(s) /\ ConfigCommands(s) /\ SavesBesideOne(s)

\* The passwords are still somewhere, whole, under a master key somebody has.
Recoverable(secrets, keys, paths, files) ==
  \E q \in paths : files[q] \notin {Absent, Torn} /\ secrets \subseteq files[q].data.secrets /\ files[q].data.key \in keys

\* The encrypted passwords of the config survive every failure and crash of the commands
\* that rewrite it, and every option saved from the TUI meanwhile: at each moment a whole
\* file that holds them is at one of the two places of the config or is the backup of one
\* (cmd/password_change_master_key.go:95-118, cmd/config_migrate.go:70-95).
PasswordsKept ==
  \A q \in ConfigPaths :
    scenario.disk[q] # Absent /\ scenario.disk[q].data.secrets # {} =>
      Recoverable(scenario.disk[q].data.secrets, MasterKeys, ConfigPaths, disk)
===============================================================================
