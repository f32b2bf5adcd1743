-------------------------------- MODULE Files ---------------------------------
(***************************************************************************)
(* What a path may hold and what a command may ask of it.  A command is    *)
(* run in turns: in each it looks at the disk and answers with the writes  *)
(* to make next, with an error, or that it is done.                        *)
(***************************************************************************)
EXTENDS Naturals, Sequences

CONSTANTS
  Absent,   \* no file
  Torn,     \* a file that was truncated and not written yet
  None      \* no value

Whole(data) == [data |-> data]

\* A rename over the path, a write into the file that is there, a removal.
Replace(path, data, overwrite) == [how |-> "replace", path |-> path, data |-> data, overwrite |-> overwrite]
InPlace(path, data) == [how |-> "inplace", path |-> path, data |-> data, overwrite |-> TRUE]
Unlink(path) == [how |-> "remove", path |-> path, data |-> None, overwrite |-> TRUE]

\* The answers of a turn; mem is what the command remembers.
Go(writes, mem) == [out |-> "write", writes |-> writes, mem |-> mem]
Error == [out |-> "failed", writes |-> <<>>, mem |-> None]
Finished(mem) == [out |-> "done", writes |-> <<>>, mem |-> mem]
===============================================================================
