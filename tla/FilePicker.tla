----------------------------- MODULE FilePicker -----------------------------
(***************************************************************************)
(* The file dialog of the terminal interface (pkg/filepicker): one program *)
(* of its own, which runs while the interface that opened it is suspended. *)
(* It lists directories, filters them by extension and by name, and        *)
(* answers with a file to open, a directory, or a path to save under,      *)
(* asking first where its caller wants it to.                              *)
(*                                                                         *)
(* A listing is a copy: other processes change the directories under it.   *)
(* Rows are numbered from 1.  Windows' drive list is left out.             *)
(***************************************************************************)
EXTENDS Integers, FiniteSets, Sequences, SequencesExt

CONSTANTS Tree,         \* every directory entry there may be, by name
          Top,          \* the root directory
          Unreadable,   \* directories that cannot be listed
          Sealed,       \* directories nothing can be created in
          AtFirst,      \* the entries of Tree there are at first
          Others,       \* the entries other processes create and remove
          Scanned,      \* the directory the interface scanned
          Home,         \* the user's home directory
          SaveName,     \* the name a caller suggests
          Pem,          \* the file names with an allowed extension
          Typed,        \* what the user types as a file name
          Paths,        \* what the user types as a path
          Sessions,     \* the dialogs opened, with the groups of keys used
          MinBox, MaxBox, TermHeights, DropMaxH,
          MaxLetters    \* bound: letters typed into a search

\* A list of completions shows more than the one highlighted.
ASSUME PickerAssumption ==
  /\ Tree \in Seq(Range(Tree))
  /\ MinBox \in Int /\ MaxBox \in Int /\ TermHeights \subseteq Int
  /\ DropMaxH \in Int /\ DropMaxH >= 2
  /\ \A s \in Sessions : s.dialog \in
       {"openField", "directoryField", "saveField", "saveChain", "verifyFile",
        "saveCertificate", "openSeveral", "saveNew", "saveStrict"}

VARIABLES session, cfg, files,
          dir, here,    \* the directory listed; whether "." and not "/" begins its name
          all, rows, at, scroll, searching, query, hidden,
          everything, height, where, filename, ticked, modal, confirm, path,
          mark, result, agreed

listing == <<dir, here, all, rows, at, scroll, searching, query>>
switches == <<hidden, everything>>
fields == <<where, filename, ticked>>
popups == <<confirm, path, mark>>
outcome == <<result, agreed>>
opened == <<session, cfg>>
pickerVars == <<opened, files, listing, switches, height, fields, modal, popups, outcome>>

Keys(group) == result.how = "none" /\ group \in session.keys

(* What the callers ask for *)

New(type, start) ==
    [type |-> type, start |-> start, here |-> FALSE, filter |-> FALSE, overridable |-> FALSE, newDir |-> FALSE,
     extensions |-> FALSE, mode |-> "confirm", multi |-> FALSE, exists |-> FALSE,
     name |-> "", bookmarks |-> <<>>]

\* A form's field starts in the directory scanned and has a bookmark on it.
FieldPicker(type) ==
    [New(type, Scanned) EXCEPT !.newDir = type # "open", !.bookmarks = <<Scanned>>,
                               !.filter = type = "open", !.overridable = type = "open",
                               !.extensions = type = "save"]

\* A chain and a file to verify are looked for from ".", where the program was started
\* and which the interface scans unless told otherwise. The last three use what the
\* package offers and no caller asks for.
Dialogs ==
    [openField |-> FieldPicker("open"), directoryField |-> FieldPicker("opendir"),
     saveField |-> FieldPicker("save"),
     saveChain |-> [New("save", Scanned) EXCEPT !.here = TRUE, !.name = SaveName, !.newDir = TRUE,
                                                !.extensions = TRUE, !.overridable = TRUE],
     verifyFile |-> [New("open", Scanned) EXCEPT !.here = TRUE],
     saveCertificate |-> [New("save", Scanned) EXCEPT !.name = SaveName, !.bookmarks = <<Scanned>>],
     openSeveral |-> [New("open", Scanned) EXCEPT !.filter = TRUE, !.multi = TRUE, !.overridable = TRUE],
     saveNew |-> [New("save", Scanned) EXCEPT !.extensions = TRUE, !.exists = TRUE],
     saveStrict |-> [New("save", Scanned) EXCEPT !.extensions = TRUE, !.mode = "strict"]]

-----------------------------------------------------------------------------
(* The file system *)

DirThere(fs, d) == d = Top \/ \E k \in fs : Tree[k].kind = "dir" /\ Tree[k].to = d
Readable(fs, d) == DirThere(fs, d) /\ d \notin Unreadable
DirEntry(d) == CHOOSE k \in DOMAIN Tree : Tree[k].kind = "dir" /\ Tree[k].to = d
Parent(d) == Tree[DirEntry(d)].dir
EntryAt(d, name) == {k \in DOMAIN Tree : Tree[k].dir = d /\ Tree[k].name = name}

\* A name typed with a directory is a full path: joined to the directory shown, it is
\* nothing that exists.
There(fs, p) == p.name.dir = "" /\ EntryAt(p.dir, p.name.base) \cap fs # {}
Plain(base) == [dir |-> "", base |-> base]
Path(d, name) == [dir |-> d, name |-> name]

\* The members of a list that are in a set, in their order.
Only(list, S) ==
    LET N == Len(list)
        kept[n \in 0..N] ==
            IF n = 0 THEN <<>>
            ELSE IF list[n] \in S THEN Append(kept[n - 1], list[n]) ELSE kept[n - 1]
    IN kept[N]

PassesFilter(isDir, name, e) ==
    \/ isDir
    \/ cfg.type # "opendir" /\ (~cfg.filter \/ e \/ name \in Pem)

\* A row: its entry of Tree, 0 for "..", and what reading the directory made of it.
DotDot == [entry |-> 0, isDir |-> TRUE, passes |-> TRUE]
Name(row) == IF row = DotDot THEN ".." ELSE Tree[row.entry].name

\* Directories first, links to directories among them.
Entries == [k \in DOMAIN Tree |-> k]
ReadDir(fs, d, h, e) ==
    LET IsDir(k) == Tree[k].kind # "file" /\ DirThere(fs, Tree[k].to)
        Listed == {k \in fs : Tree[k].dir = d /\ (h \/ ~Tree[k].hidden)}
        Row(k) == [entry |-> k, isDir |-> IsDir(k),
                   passes |-> PassesFilter(IsDir(k), Tree[k].name, e)]
        Some(dirs) == LET ks == Only(Entries, {k \in Listed : IsDir(k) = dirs})
                      IN [n \in DOMAIN ks |-> Row(ks[n])]
    IN (IF d = Top THEN <<>> ELSE <<DotDot>>) \o Some(TRUE) \o Some(FALSE)

ApplyNameFilter(list, q) ==
    Only(list, {r \in Range(list) : r = DotDot \/ q <= Tree[r.entry].common})

Named(list, name) == {n \in DOMAIN list : Name(list[n]) = name}

-----------------------------------------------------------------------------
(* The window on the rows *)

ShowsFilterBar == cfg.type = "open" /\ (cfg.filter \/ cfg.multi)
BoxHeight == Max({MinBox, Min({height, MaxBox})})
Parts == [open |-> 0, save |-> 3, opendir |-> 2]
ListHeight == Max({1, BoxHeight - 12 - Parts[cfg.type] - (IF ShowsFilterBar THEN 2 ELSE 0)})

\* scroll counts the rows above the window.
ClampScroll(s, a) ==
    Max({0, IF a - 1 < s THEN a - 1 ELSE Max({s, a - ListHeight})})

LoadDir(d, h) ==
    IF Readable(files, d)
    THEN /\ dir' = d /\ here' = h /\ all' = ReadDir(files, d, hidden, everything) /\ rows' = all'
         /\ searching' = FALSE /\ query' = 0 /\ at' = 1 /\ scroll' = 0
         /\ modal' = "none"
    ELSE modal' = "alert" /\ UNCHANGED listing

\* The cursor goes to the row of that name, where there is one.
SetCursorToEntry(list, name, otherwise, s) ==
    LET there == Named(list, name)
    IN /\ at' = IF there = {} THEN otherwise ELSE CHOOSE n \in there : TRUE
       /\ scroll' = IF there = {} THEN s ELSE ClampScroll(s, at')

\* Reads hidden', everything' and files': it follows what changed one of them.
ReloadDir(wanted) ==
    IF Readable(files', dir)
    THEN /\ all' = ReadDir(files', dir, hidden', everything')
         /\ rows' = ApplyNameFilter(all', query)
         /\ LET kept == Max({1, Min({at, Len(rows')})})
                s == Min({scroll, Len(rows') - ListHeight})
            IN SetCursorToEntry(rows', wanted, kept, ClampScroll(s, kept))
         /\ modal' = "none" /\ UNCHANGED <<dir, here, searching, query>>
    ELSE /\ modal' = "alert" /\ SetCursorToEntry(rows, wanted, at, scroll)
         /\ UNCHANGED <<dir, here, all, rows, searching, query>>

\* Nothing is above "/", nor above ".".
AtDot(d, h) == h /\ d = cfg.start

\* The name looked for, in the rows as they are when the directory above cannot be read.
NavigateUp ==
    LET name == Tree[DirEntry(dir)].name
    IN IF dir = Top \/ AtDot(dir, here) THEN UNCHANGED <<listing, modal>>
       ELSE IF Readable(files, Parent(dir))
       THEN /\ dir' = Parent(dir) /\ all' = ReadDir(files, dir', hidden, everything)
            /\ rows' = all' /\ searching' = FALSE /\ query' = 0
            /\ SetCursorToEntry(rows', name, 1, 0)
            /\ modal' = "none" /\ here' = here
       ELSE /\ modal' = "alert" /\ SetCursorToEntry(rows, name, at, scroll)
            /\ UNCHANGED <<dir, here, all, rows, searching, query>>

MoveTo(n) == at' = n /\ scroll' = ClampScroll(scroll, at')

-----------------------------------------------------------------------------
\* A question and the path dialog start afresh each time: nothing reads the last one.
NoQuestion == [kind |-> "none"]
Input(d, name, h) == [dir |-> d, name |-> name, here |-> h]
NoPath == [input |-> Input(Top, "", FALSE), drop |-> 0, scroll |-> 0, comps |-> <<>>]

NewPickerModel(s) ==
    /\ session = s /\ cfg = Dialogs[s.dialog] /\ height \in TermHeights
    /\ hidden = FALSE /\ everything = FALSE /\ files = AtFirst
    /\ dir = cfg.start /\ here = cfg.here
    /\ all = IF Readable(files, dir) THEN ReadDir(files, dir, hidden, everything) ELSE <<>>
    /\ rows = all
    /\ at = 1 /\ scroll = 0 /\ searching = FALSE /\ query = 0
    /\ where = "list" /\ filename = Plain(cfg.name) /\ ticked = {}
    /\ modal = (IF Readable(files, dir) THEN "none" ELSE "alert")
    /\ confirm = NoQuestion /\ path = NoPath /\ mark = 1
    /\ result = [how |-> "none", paths |-> {}] /\ agreed = {}

PickerInit == \E s \in Sessions : NewPickerModel(s)

(* The list *)

OnList(group) == Keys(group) /\ modal = "none" /\ where = "list"
OnlyTheListing == UNCHANGED <<opened, files, switches, height, fields, popups, outcome>>

MoveCursor ==
    /\ OnList("move") /\ rows # <<>>
    /\ \/ at > 1 /\ MoveTo(at - 1)
       \/ at < Len(rows) /\ MoveTo(at + 1)
       \/ MoveTo(Max({1, at - ListHeight}))
       \/ MoveTo(Min({Len(rows), at + ListHeight}))
       \/ at' = 1 /\ scroll' = 0
       \/ MoveTo(Len(rows))
       \/ /\ ~searching
          /\ \E n \in DOMAIN rows :
                /\ rows[n] # DotDot /\ Tree[rows[n].entry].initial # "."
                /\ \A j \in 1..(n - 1) :
                      rows[j] # DotDot => Tree[rows[j].entry].initial # Tree[rows[n].entry].initial
                /\ MoveTo(n)
    /\ OnlyTheListing /\ UNCHANGED <<dir, here, all, rows, searching, query, modal>>

\* "/" starts again from the whole listing; a letter narrows it, backspace widens it.
Narrow(on, q, s) ==
    /\ searching' = on /\ query' = q /\ rows' = ApplyNameFilter(all, q)
    /\ at' = 1 /\ scroll' = s
    /\ OnlyTheListing /\ UNCHANGED <<dir, here, all, modal>>

Search ==
    /\ OnList("search") /\ rows # <<>>
    /\ \/ Narrow(TRUE, 0, 0)
       \/ searching /\ query < MaxLetters /\ Narrow(TRUE, query + 1, ClampScroll(scroll, 1))
       \/ searching /\ query > 0 /\ Narrow(TRUE, query - 1, 0)

\* Backspace outside a search.
Up ==
    /\ OnList("move") /\ ~searching /\ rows # <<>>
    /\ NavigateUp /\ OnlyTheListing

Tick ==
    /\ OnList("tick") /\ rows # <<>> /\ cfg.multi
    /\ rows[at].passes /\ ~rows[at].isDir
    /\ LET p == Path(dir, Plain(Name(rows[at])))
       IN ticked' = IF p \in ticked THEN ticked \ {p} ELSE ticked \union {p}
    /\ UNCHANGED <<opened, files, listing, switches, height, where, filename, modal,
                   popups, outcome>>

\* The program ends, with an answer or without.
Chosen(paths) == result' = [how |-> "chosen", paths |-> paths]
End(how, paths) ==
    /\ result' = [how |-> how, paths |-> paths]
    /\ UNCHANGED <<opened, files, listing, switches, height, fields, popups, agreed>>

ActivateEntry ==
    /\ OnList("enter") /\ rows # <<>>
    /\ LET e == rows[at]
       IN CASE e = DotDot -> NavigateUp /\ OnlyTheListing
            [] e # DotDot /\ e.isDir -> LoadDir(Tree[e.entry].to, here) /\ OnlyTheListing
            [] ~e.isDir /\ cfg.type = "open" ->
                 e.passes /\ End("chosen", {Path(dir, Plain(Name(e)))}) /\ modal' = modal
            [] ~e.isDir /\ cfg.type = "save" ->
                 /\ filename' = Plain(Name(e)) /\ where' = "filename"
                 /\ UNCHANGED <<opened, files, listing, switches, height, ticked, modal,
                                popups, outcome>>
            [] OTHER -> FALSE

(* Keys that work whatever has the focus *)

OnMain(group) == Keys(group) /\ modal = "none"

Escape ==
    \/ OnList("escape") /\ searching /\ Narrow(FALSE, 0, 0)
    \/ OnMain("quit") /\ ~(where = "list" /\ searching) /\ End("cancelled", {}) /\ modal' = modal

FocusOrder ==
    <<"list">> \o (IF cfg.type = "save" THEN <<"filename">> ELSE <<>>)
    \o (IF ShowsFilterBar THEN <<"hidden">> \o (IF cfg.overridable THEN <<"everything">> ELSE <<>>)
        ELSE <<>>)
    \o <<"ok", "cancel">>

CycleFocus ==
    /\ OnMain("focus")
    /\ LET n == Len(FocusOrder)
           k == CHOOSE i \in 1..n : FocusOrder[i] = where
       IN \E by \in {1, n - 1} : where' = FocusOrder[1 + ((k - 1 + by) % n)]
    /\ UNCHANGED <<opened, files, listing, switches, height, filename, ticked, modal,
                   popups, outcome>>

\* "." in the list or its button, ctrl+a or its button, F5.
Switch ==
    /\ OnMain("switch")
    /\ \/ /\ (where = "list" /\ ~searching) \/ where = "hidden"
          /\ hidden' = ~hidden /\ everything' = everything
       \/ /\ cfg.overridable
          /\ everything' = ~everything /\ hidden' = hidden
       \/ UNCHANGED switches
    /\ UNCHANGED <<opened, files, height, fields, popups, outcome>>
    /\ ReloadDir("")

(* The answer *)

\* A mutant: no second look once the extension was agreed to.
AsksAtFirst(p) == confirm = NoQuestion /\ cfg.exists /\ There(files, p)

\* The file is looked for when the name is given, and again when its extension was agreed to.
AsksToOverwrite(p) == cfg.exists /\ There(files, p)

DoSave ==
    LET p == Path(dir, filename)
        allowed == \/ ~cfg.extensions \/ everything \/ cfg.mode = "all"
                   \/ filename.base \in Pem
        Ask(kind) == modal' = "confirm" /\ confirm' = [kind |-> kind, payload |-> p, yes |-> FALSE]
    IN /\ CASE filename.base = "" -> modal' = "alert" /\ UNCHANGED <<confirm, result>>
            [] filename.base # "" /\ ~allowed /\ cfg.mode = "strict" ->
                 modal' = "alert" /\ UNCHANGED <<confirm, result>>
            [] filename.base # "" /\ ~allowed /\ cfg.mode = "confirm" ->
                 Ask("extension") /\ result' = result
            [] filename.base # "" /\ allowed /\ AsksToOverwrite(p) ->
                 Ask("overwrite") /\ result' = result
            [] OTHER -> Chosen({p}) /\ UNCHANGED <<modal, confirm>>
       /\ UNCHANGED <<opened, files, listing, switches, height, fields, path, mark, agreed>>

DoOK ==
    CASE cfg.type = "open" ->
           /\ modal' = modal
           /\ IF ticked # {} THEN End("chosen", ticked)
              ELSE /\ rows # <<>> /\ ~rows[at].isDir /\ rows[at].passes
                   /\ End("chosen", {Path(dir, Plain(Name(rows[at])))})
      [] cfg.type = "opendir" -> End("chosen", {Path(dir, Plain(""))}) /\ modal' = modal
      [] cfg.type = "save" -> DoSave

\* Enter in the name field follows a directory typed with the name; the button does not.
Accept ==
    /\ OnMain("enter")
    /\ \/ where = "ok" /\ DoOK
       \/ /\ where = "filename" /\ filename.dir # "" /\ DirThere(files, filename.dir)
          /\ LoadDir(filename.dir, FALSE) /\ filename' = Plain(filename.base)
          /\ UNCHANGED <<opened, files, switches, height, where, ticked, popups, outcome>>
       \/ /\ where = "filename" /\ ~(filename.dir # "" /\ DirThere(files, filename.dir))
          /\ filename.base # "" /\ DoOK
       \/ where = "cancel" /\ End("cancelled", {}) /\ modal' = modal

TypeName ==
    /\ OnMain("type") /\ where = "filename"
    /\ filename' \in Typed
    /\ UNCHANGED <<opened, files, listing, switches, height, where, ticked, modal, popups,
                   outcome>>

(* The questions and the alert *)

\* agreed remembers what the user said yes to.
AnswerConfirm ==
    /\ Keys("enter") /\ modal = "confirm"
    /\ \/ confirm' = [confirm EXCEPT !.yes = ~@] /\ UNCHANGED <<modal, result, agreed>>
       \/ /\ confirm.yes
          /\ agreed' = agreed \union {[kind |-> confirm.kind, path |-> confirm.payload]}
          /\ IF confirm.kind = "extension" /\ AsksToOverwrite(confirm.payload)
             THEN /\ modal' = "confirm" /\ result' = result
                  /\ confirm' = [kind |-> "overwrite", payload |-> confirm.payload, yes |-> FALSE]
             ELSE modal' = "none" /\ Chosen({confirm.payload}) /\ confirm' = NoQuestion
       \/ modal' = "none" /\ confirm' = NoQuestion /\ UNCHANGED <<result, agreed>>
    /\ UNCHANGED <<opened, files, listing, switches, height, fields, path, mark>>

CloseAlert ==
    /\ Keys("enter") /\ modal = "alert"
    /\ modal' = "none" /\ where' = IF cfg.type = "save" THEN "filename" ELSE where
    /\ UNCHANGED <<opened, files, listing, switches, height, filename, ticked, popups, outcome>>

(* The path dialog *)

\* The directories whose names complete what is typed; links are not among them.
Completions(input) ==
    IF ~Readable(files, input.dir) THEN <<>>
    ELSE Only(Entries, {k \in files : /\ Tree[k].dir = input.dir /\ Tree[k].kind = "dir"
                                      /\ input.name \in Range(Tree[k].prefixes)})

\* The longest that all of them begin with.
CommonPrefix(comps) == Last(LongestCommonPrefix({Tree[k].prefixes : k \in Range(comps)}))

ClampDrop(n, s, len) ==
    LET i == IF n = 0 THEN 0 ELSE n - 1
        up == IF i < s THEN i ELSE s
        down == IF i >= up + DropMaxH THEN i - DropMaxH + 1 ELSE up
        more == IF i = down + DropMaxH - 1 /\ down + DropMaxH < len THEN i - DropMaxH + 2 ELSE down
    IN IF more < 0 THEN 0 ELSE more

OpenPath(input) == path' = [input |-> input, drop |-> 0, scroll |-> 0, comps |-> Completions(input)]
Highlight(n) ==
    path' = [path EXCEPT !.drop = n, !.scroll = ClampDrop(n, path.scroll, Len(path.comps))]

OpenPathModal ==
    /\ OnMain("path")
    /\ modal' = "path" /\ OpenPath(Input(dir, "", here))
    /\ UNCHANGED <<opened, files, listing, switches, height, fields, confirm, mark, outcome>>

\* All of it rubbed out.
Blank == Input("", "", FALSE)

\* ctrl+w: up to the slash before the last name, when there is one ("./" and "sub/" have none).
LastSegmentDropped(input) ==
    LET d == IF input.name = "" THEN Parent(input.dir) ELSE input.dir
    IN IF input.dir \in {"", Top} \/ AtDot(input.dir, input.here)
          \/ (input.name = "" /\ AtDot(d, input.here))
       THEN [input EXCEPT !.name = IF input.dir = Top THEN "" ELSE @]
       ELSE Input(d, "", input.here)

\* Tab: the highlighted completion, or what they have in common, or the next of them.
TabComplete ==
    LET comps == path.comps
        Whole(k) == Input(Tree[k].to, "", path.input.here)
    IN /\ comps # <<>>
       /\ IF path.drop # 0 THEN OpenPath(Whole(comps[path.drop]))
          ELSE IF Len(comps) = 1 THEN OpenPath(Whole(comps[1]))
          ELSE IF CommonPrefix(comps) # path.input.name
          THEN OpenPath([path.input EXCEPT !.name = CommonPrefix(comps)])
          ELSE Highlight(1)

\* Typing, ctrl+w, the arrows and Tab.
EditPath ==
    /\ Keys("path") /\ modal = "path"
    /\ \/ \E typed \in Paths : OpenPath(Input(typed.dir, typed.name, FALSE))
       \/ OpenPath(Blank)
       \/ OpenPath(LastSegmentDropped(path.input))
       \/ path.drop < Len(path.comps) /\ Highlight(path.drop + 1)
       \/ path.drop > 0 /\ Highlight(path.drop - 1)
       \/ TabComplete
    /\ UNCHANGED <<opened, files, listing, switches, height, fields, modal, confirm, mark, outcome>>

\* A path without its last slash.
TrimTrailingSlash(input) ==
    IF input.name # "" \/ input.dir = Top THEN input
    ELSE Input(Parent(input.dir), Tree[DirEntry(input.dir)].name, input.here)

\* Enter: a directory is listed, a file handled as the dialog does, a name that does
\* not exist taken as the name to save under where its directory exists.
CommitPath ==
    /\ Keys("path") /\ modal = "path"
    /\ LET typed == IF path.drop = 0 THEN path.input
                    ELSE Input(Tree[path.comps[path.drop]].to, "", path.input.here)
           input == IF typed = Blank THEN Blank ELSE TrimTrailingSlash(typed)
           found == EntryAt(input.dir, input.name) \cap files
           isDir == input.name = "" \/ \E k \in found : DirThere(files, Tree[k].to)
       IN /\ input = Blank \/ DirThere(files, input.dir)
          /\ CASE input = Blank -> modal' = "none" /\ UNCHANGED <<listing, filename, result>>
               [] input # Blank /\ isDir ->
                    /\ LoadDir(IF input.name = "" THEN Top ELSE Tree[CHOOSE k \in found : TRUE].to,
                               input.here)
                    /\ UNCHANGED <<filename, result>>
               [] ~isDir /\ found # {} /\ cfg.type = "open" ->
                    /\ IF PassesFilter(FALSE, input.name, everything)
                       THEN Chosen({Path(input.dir, Plain(input.name))}) /\ modal' = "none"
                       ELSE modal' = "alert" /\ result' = result
                    /\ UNCHANGED <<listing, filename>>
               [] OTHER ->
                    /\ LoadDir(input.dir, input.here) /\ result' = result
                    /\ filename' = IF cfg.type = "save" THEN Plain(input.name) ELSE filename
    /\ path' = NoPath
    /\ UNCHANGED <<opened, files, switches, height, where, ticked, confirm, mark, agreed>>

(* Bookmarks and new directories *)

\* Home, the start directory and the caller's, those that exist, each once.
VisibleBookmarks ==
    LET Full(d) == [dir |-> d, here |-> FALSE]
        named == <<Full(Home), [dir |-> cfg.start, here |-> cfg.here]>>
                 \o [n \in DOMAIN cfg.bookmarks |-> Full(cfg.bookmarks[n])]
        Add(bms, b) == IF DirThere(files, b.dir) /\ b \notin Range(bms) THEN Append(bms, b) ELSE bms
    IN FoldLeft(Add, <<>>, named)

Bookmarks ==
    /\ Keys("bookmarks")
    /\ \/ /\ modal = "none" /\ VisibleBookmarks # <<>> /\ modal' = "bookmarks"
          /\ mark' = IF mark > Len(VisibleBookmarks) THEN 1 ELSE mark
          /\ UNCHANGED listing
       \/ /\ modal = "bookmarks" /\ UNCHANGED <<listing, modal>>
          /\ \/ mark > 1 /\ mark' = mark - 1
             \/ mark < Len(VisibleBookmarks) /\ mark' = mark + 1
       \/ /\ modal = "bookmarks" /\ mark <= Len(VisibleBookmarks)
          /\ LoadDir(VisibleBookmarks[mark].dir, VisibleBookmarks[mark].here) /\ mark' = mark
    /\ UNCHANGED <<opened, files, switches, height, fields, confirm, path, outcome>>

\* MkdirAll makes the directory shown too when it has gone, and nothing when there is one.
NewDir ==
    /\ Keys("newdir") /\ cfg.newDir
    /\ \/ modal = "none" /\ modal' = "newdir" /\ UNCHANGED <<files, listing>>
       \/ /\ modal = "newdir"
          /\ \E k \in DOMAIN Tree :
                /\ Tree[k].dir = dir /\ Tree[k].initial = "n"
                /\ IF IF k \in files THEN Tree[k].kind = "file" ELSE dir \in Sealed
                   THEN modal' = "alert" /\ UNCHANGED <<files, listing>>
                   ELSE /\ files' = files \union {k} \union (IF dir = Top THEN {} ELSE {DirEntry(dir)})
                        /\ UNCHANGED switches /\ ReloadDir(Tree[k].name)
    /\ UNCHANGED <<opened, switches, height, fields, popups, outcome>>

CloseModal ==
    /\ Keys("escape") /\ modal \in {"path", "bookmarks", "newdir"}
    /\ modal' = "none" /\ path' = NoPath
    /\ UNCHANGED <<opened, files, listing, switches, height, fields, confirm, mark, outcome>>

(* The world *)

\* A new size does not move the window.
Resize ==
    /\ Keys("resize") /\ height' \in TermHeights
    /\ UNCHANGED <<opened, files, listing, switches, fields, modal, popups, outcome>>

\* Another process creates or removes an entry, a directory with all it holds.
OtherProcess ==
    /\ Keys("others")
    /\ \E k \in Others :
          files' = IF k \in files
                   THEN {j \in files : j # k /\ (Tree[k].kind = "dir" => Tree[j].dir # Tree[k].to)}
                   ELSE IF DirThere(files, Tree[k].dir) THEN files \union {k} ELSE files
    /\ UNCHANGED <<opened, listing, switches, height, fields, modal, popups, outcome>>

PickerNext ==
    \/ MoveCursor \/ Search \/ Up \/ Tick \/ ActivateEntry
    \/ Escape \/ CycleFocus \/ Switch \/ Accept \/ TypeName
    \/ AnswerConfirm \/ CloseAlert
    \/ OpenPathModal \/ EditPath \/ CommitPath
    \/ Bookmarks \/ NewDir \/ CloseModal
    \/ Resize \/ OtherProcess

PickerSpec == PickerInit /\ [][PickerNext]_pickerVars

-----------------------------------------------------------------------------
(* Properties *)

InForce(p) == PassesFilter(FALSE, p.name.base, everything)
Agreed(kind, p) == [kind |-> kind, path |-> p] \in agreed'

\* The rows let through what the filter in force does.
RowsFit ==
    \A n \in DOMAIN all : all[n] # DotDot =>
       (all[n].passes <=> PassesFilter(all[n].isDir, Name(all[n]), everything))

OpenAnswer == \A p \in result'.paths : p \in ticked \/ InForce(p) \/ ~RowsFit
SaveAnswer ==
    \A p \in result'.paths :
       /\ p.name.base # ""
       /\ (cfg.extensions /\ cfg.mode # "all" /\ ~everything /\ p.name.base \notin Pem)
             => cfg.mode = "confirm" /\ Agreed("extension", p)
       /\ (cfg.exists /\ There(files, p)) => Agreed("overwrite", p)

Answers ==
    CASE cfg.type = "open" -> OpenAnswer
      [] cfg.type = "save" -> SaveAnswer
      [] OTHER -> result'.paths = {Path(dir, Plain(""))}

\* The row the keys act on is on the screen: not always so, since a resize moves nothing
\* (model.go:153; README, Known divergences).
RowShown == rows # <<>> => at \in DOMAIN rows /\ 0 <= scroll /\ scroll < at /\ at <= scroll + ListHeight
DropShown ==
    modal = "path" /\ path.drop # 0 =>
       /\ path.scroll < path.drop
       /\ path.drop <= path.scroll + DropMaxH
                         - (IF path.scroll + DropMaxH < Len(path.comps) THEN 1 ELSE 0)

\* The dialog answers only with what its caller asked for: a file ticked or one the
\* filter in force lets through, the directory listed, a path to save under whose
\* extension is allowed or agreed to and which, where the caller wants that, does not
\* exist at that moment or may be overwritten.  Rows of another filter are shown only
\* if the directory could not be read again when the filter was changed.  The row the
\* keys act on is on the screen at first; only a smaller terminal takes it off, since a
\* resize moves nothing (model.go:153), and whatever then changes the rows or the cursor
\* brings it back.  The highlighted completion is never behind "more".
PickIsSound ==
    /\ RowShown
    /\ [][/\ (result'.how = "chosen" /\ result.how = "none") => Answers
          /\ (all' # all \/ everything' # everything) /\ RowsFit =>
               RowsFit' \/ (everything' # everything /\ ~Readable(files, dir))
          /\ RowShown => RowShown' \/ ListHeight' < ListHeight
          /\ (rows' # rows \/ at' # at) => RowShown'
          /\ DropShown']_pickerVars
=============================================================================
