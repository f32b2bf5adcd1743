------------------------------- MODULE Browser -------------------------------
(***************************************************************************)
(* The certificate list of the terminal interface: the rows ConvertStore  *)
(* makes of a scan, folding and the search filter, the cursor and the      *)
(* part of the list that fits the screen (tree.go), the detail pane with   *)
(* its relations and its history (model_nav.go, history.go), and the       *)
(* multi-select mode with its automatic chain and its delete               *)
(* (multiselect.go, model_multiselect.go).                                 *)
(*                                                                         *)
(* What the interface waits for (scans, forms, stores) is RootModel's; a   *)
(* rescan appears here as what it does to the rows.  Indexes start at 1    *)
(* where Go's start at 0, so the -1 of a header row is 0.                  *)
(***************************************************************************)
EXTENDS Integers, FiniteSets, Sequences, SequencesExt

CONSTANTS Scenarios,      \* kinds of session: which keys the user presses, on what
          FilesIn,        \* per scenario: the files, in the order of a scan
          SkippedIn,      \* per scenario: the words of each file the scan skipped
          KeysIn,         \* per scenario: the groups of keys
          SizesIn,        \* per scenario: the terminal sizes
          WordsIn,        \* per scenario: what is typed into the search line
          Peers,          \* the relations of an item, in the order of the index
          GoneIn,         \* per scenario: the files another process may remove
          MaxHistory,     \* bound: entries in the two history stacks
          NoRow

VARIABLES scenario, view, disk, scanned, failed, open, filter, cursor, top, mode,
          active, size, lines, detail, line, focus, back, forward, selected,
          doomed, returnTo

list == <<open, filter, cursor, top>>
screen == <<mode, active, size, lines>>
pane == <<detail, line, focus, back, forward>>
choice == <<selected, doomed, returnTo>>
store == <<disk, scanned, failed>>
vars == <<scenario, view, store, list, screen, pane, choice>>

NamesIn(s) == {FilesIn[s][k].name : k \in DOMAIN FilesIn[s]}
Larger(a, b) == IF a > b THEN a ELSE b
Smaller(a, b) == IF a < b THEN a ELSE b

-----------------------------------------------------------------------------
(* The rows *)

ItemRow(f, c, i) ==
    LET it == f.items[i]
    IN [c |-> c, i |-> i, ref |-> <<c, i>>, header |-> FALSE, child |-> f.bundle,
        locked |-> it.locked, skipped |-> FALSE, file |-> f.name, id |-> it.id,
        cert |-> it.cert, words |-> it.words, label |-> it.label, sans |-> it.sans]

\* A header has no reference of its own: the zero value names the first item.
HeaderRow(f, c) ==
    [c |-> c, i |-> 0, ref |-> <<1, 1>>, header |-> TRUE, child |-> FALSE,
     locked |-> f.items = <<>> /\ f.passwordErrors, skipped |-> FALSE,
     file |-> f.name, id |-> "none", cert |-> "none", words |-> f.words,
     label |-> f.label, sans |-> <<>>]

LoneRow(f, c) == [HeaderRow(f, c) EXCEPT !.header = FALSE]

SkippedRow(header, words) ==
    [c |-> 0, i |-> 0, ref |-> <<1, 1>>, header |-> header, child |-> ~header,
     locked |-> FALSE, skipped |-> TRUE, file |-> "none", id |-> "none",
     cert |-> "none", words |-> words, label |-> 8, sans |-> <<>>]

SkippedRows(skips) ==
    IF skips = <<>> THEN <<>>
    ELSE <<SkippedRow(TRUE, {"skipped"})>>
         \o [k \in DOMAIN skips |-> SkippedRow(FALSE, skips[k])]

FileRows(f, c) ==
    LET items == [i \in DOMAIN f.items |-> ItemRow(f, c, i)]
    IN CASE f.relationsOnly -> <<>>
         [] ~f.relationsOnly /\ f.bundle -> <<HeaderRow(f, c)>> \o items
         [] ~f.relationsOnly /\ ~f.bundle /\ f.items # <<>> -> items
         [] OTHER -> <<LoneRow(f, c)>>

Store(s, present) == SelectSeq(FilesIn[s], LAMBDA f : f.name \in present)

AllNodes == [s \in Scenarios |-> [present \in SUBSET NamesIn(s) |->
    LET st == Store(s, present)
    IN FlattenSeq([c \in DOMAIN st |-> FileRows(st[c], c)]) \o SkippedRows(SkippedIn[s])]]

Nodes == AllNodes[scenario][scanned]

\* The containers that are unfolded after a scan: all but the trust stores and
\* the group of the skipped files.
Unfolded(s, present) ==
    LET st == Store(s, present)
    IN {c \in DOMAIN st : st[c].source # "trust"}

NeedsPassword(r) ==
    \/ r.locked
    \/ r.header /\ ~r.skipped /\ Store(scenario, scanned)[r.c].passwordErrors

ReadOnlySource(r) ==
    ~r.skipped /\ Store(scenario, scanned)[r.c].source \in {"trust", "remote"}

\* computeVisible: a child is shown when it matches, or when its header alone
\* matches and is unfolded; without a filter when its header is unfolded.  The
\* list is kept as positions in allNodes.
Positions(nodes, o, f) ==
    LET Hit(r) == f = "" \/ f \in r.words
        ChildHits(c) == \E k \in DOMAIN nodes :
                            nodes[k].child /\ nodes[k].c = c /\ Hit(nodes[k])
        HeaderHits(c) == \E k \in DOMAIN nodes :
                            nodes[k].header /\ nodes[k].c = c /\ Hit(nodes[k])
        Shown(r) == CASE r.child /\ f = "" -> r.c \in o
                      [] r.child /\ f # "" ->
                            \/ Hit(r)
                            \/ ~ChildHits(r.c) /\ HeaderHits(r.c) /\ r.c \in o
                      [] r.header -> Hit(r) \/ ChildHits(r.c)
                      [] OTHER -> Hit(r)
    IN SelectSeq([k \in DOMAIN nodes |-> k], LAMBDA k : Shown(nodes[k]))

AllVisible == [s \in Scenarios |-> [present \in SUBSET NamesIn(s) |->
    [o \in SUBSET (0..Len(FilesIn[s])) |-> [f \in WordsIn[s] \cup {""} |->
        Positions(AllNodes[s][present], o, f)]]]]

Visible(o, f) == AllVisible[scenario][scanned'][o][f]
Rows == AllVisible[scenario][scanned][open][filter]
Current == Nodes[Rows[cursor]]
KeyOf(r) == <<r.c, r.i>>

-----------------------------------------------------------------------------
(* What fits the screen.  A column has a share of the width or a fixed       *)
(* width; subject and expiry have one value per row, sans has several.       *)

ColumnSpecs == <<[id |-> "subject", share |-> 22, fixed |-> 0, value |-> 12],
                 [id |-> "expiry",  share |-> 0, fixed |-> 12, value |-> 10],
                 [id |-> "sans",    share |-> 22, fixed |-> 0, value |-> 0]>>

NameWidth(w) == Larger(6, (Larger(20, w - 2) * 20) \div 100)

ColumnWidths(act, w) ==
    LET on == SelectSeq(ColumnSpecs, LAMBDA s : s.id \in act)
        Total(seq, F(_)) == FoldLeft(LAMBDA t, s : t + F(s), 0, seq)
        fixed == SelectSeq(on, LAMBDA s : s.share = 0)
        shared == SelectSeq(on, LAMBDA s : s.share # 0)
        avail == Larger(20, w - 2)
        left == avail - NameWidth(w) - Larger(4, (avail * 12) \div 100)
                      - Total(fixed, LAMBDA s : s.fixed + 1)
        room == Larger(left - Len(shared), 3 * Len(shared))
        share == [k \in DOMAIN shared |->
                    Larger(3, (room * shared[k].share) \div Total(shared, LAMBDA s : s.share))]
        Width(k) == IF left <= 0 THEN 0
                    ELSE IF k < Len(shared) THEN share[k]
                    ELSE Larger(3, room - FoldLeft(LAMBDA t, x : t + x, 0, Front(share)))
    IN [id \in act |->
          IF \E k \in DOMAIN fixed : fixed[k].id = id
          THEN 12 ELSE Width(CHOOSE k \in DOMAIN shared : shared[k].id = id)]

\* wrapText: the lines a text takes in a column.
Wrapped(length, width) == IF length <= width THEN 1 ELSE (length + width - 1) \div width

\* nodeDisplayHeight: the lines of a row.
Height(r, m, act, w, widths) ==
    LET spec(id) == CHOOSE s \in ToSet(ColumnSpecs) : s.id = id
        Cell(id) ==
            CASE widths[id] = 0 -> 1
              [] widths[id] # 0 /\ id = "sans" /\ m = "wrap" ->
                    FoldLeft(LAMBDA t, e : t + Wrapped(e, widths[id]), 0, r.sans)
              [] widths[id] # 0 /\ id = "sans" /\ m = "truncate" -> Len(r.sans)
              [] widths[id] # 0 /\ id # "sans" /\ m = "wrap" ->
                    Wrapped(spec(id).value, widths[id])
              [] OTHER -> 1
        prefix == IF r.child THEN 5 ELSE 2
        name == IF m = "wrap" THEN Wrapped(prefix + r.label, NameWidth(w)) ELSE 1
    IN IF m = "hscroll" THEN 1 ELSE FoldSet(Larger, name, {Cell(id) : id \in act})

\* The height of every row in every layout, and the lines rows a..b take.
Widths(s) == UNION {{z.w, z.w - 4} : z \in SizesIn[s]}
Columns == {{"subject"}, {"subject", "expiry", "sans"}}
HeightOf == [s \in Scenarios |-> [present \in SUBSET NamesIn(s) |->
    [m \in {"truncate", "wrap", "hscroll"} |-> [act \in Columns |-> [w \in Widths(s) |->
        [k \in DOMAIN AllNodes[s][present] |-> Height(AllNodes[s][present][k], m, act, w, ColumnWidths(act, w))]]]]]]

LinesOf(v, a, b, heights) == FoldFunctionOnSet(+, 0, [k \in a..b |-> heights[v[k]]], a..b)

\* The lines above every row of every list.
AboveRows(v, heights) == [k \in DOMAIN v |-> LinesOf(v, 1, k - 1, heights)]
LinesAbove == [s \in Scenarios |-> [present \in SUBSET NamesIn(s) |->
    [m \in {"truncate", "wrap", "hscroll"} |-> [act \in Columns |-> [w \in {z.w : z \in SizesIn[s]} |->
        [o \in SUBSET (0..Len(FilesIn[s])) |-> [f \in WordsIn[s] \cup {""} |->
            AboveRows(AllVisible[s][present][o][f], HeightOf[s][present][m][act][w])]]]]]]]

\* updateTreeViewportHeight
Viewport(v, z) == IF v = "split" /\ z.half > 0 THEN z.half ELSE z.full

\* clampCursor and clampOffset: the first row moves down no further than it
\* takes for the first line of the cursor's row to fit.
Clamp(v, c) == Larger(1, Smaller(c, Len(v)))

\* A mutant: every row taken to be one line high.
FirstRowByRows(above, c, t) ==
    IF above = <<>> THEN 1 ELSE IF c < t THEN c ELSE Larger(t, c - lines' + 1)

FirstRow(above, c, t) ==
    IF above = <<>> THEN 1
    ELSE CHOOSE k \in Smaller(t, c)..c :
            /\ k = c \/ above[c] - above[k] < lines'
            /\ \A j \in Smaller(t, c)..(k - 1) : above[c] - above[j] >= lines'
Above(o, f) == LinesAbove[scenario][scanned'][mode'][active'][size'.w][o][f]

\* The rows are computed again and the cursor and the first row clamped.
Show(o, f, c, t) ==
    /\ open' = o
    /\ filter' = f
    /\ cursor' = Clamp(Visible(o, f), c)
    /\ top' = FirstRow(Above(o, f), cursor', t)

\* renderTree: the rows whose first line is drawn; a locked row takes one line,
\* and the marks of multi-select take four columns.
Drawn ==
    LET w == IF view = "multi" THEN size.w - 4 ELSE size.w
        budget == IF view \in {"tree", "search"} /\ failed THEN Larger(1, lines - 2) ELSE lines
        heights == [k \in DOMAIN Nodes |-> IF Nodes[k].locked THEN 1
                                           ELSE HeightOf[scenario][scanned][mode][active][w][k]]
    IN {k \in top..Len(Rows) : LinesOf(Rows, top, k - 1, heights) < budget}

-----------------------------------------------------------------------------
(* Keys of the list *)

Key(group) == group \in KeysIn[scenario]
InList == view \in {"tree", "multi"} \/ (view = "split" /\ focus = "tree")

NewRootModel(s) ==
    /\ scenario = s /\ view = "tree" /\ filter = "" /\ cursor = 1 /\ top = 1
    /\ disk = {FilesIn[s][k].name : k \in DOMAIN FilesIn[s]}
    /\ scanned = disk /\ failed = FALSE /\ open = Unfolded(s, disk)
    /\ mode = "truncate" /\ active = {"subject"}
    /\ size \in SizesIn[s] /\ lines = Viewport("tree", size)
    /\ detail = NoRow /\ line = 0 /\ focus = "detail" /\ back = <<>> /\ forward = <<>>
    /\ selected = {} /\ doomed = <<>> /\ returnTo = "tree"

Init == \E s \in Scenarios : NewRootModel(s)

\* The list is shown otherwise, and nothing but the list changes.
OnlyTheList == UNCHANGED <<scenario, view, store, screen, pane, choice>>

CursorTo(c) ==
    /\ cursor' = c
    /\ top' = FirstRow(Above(open, filter), c, top)
    /\ UNCHANGED <<open, filter>>

\* Up, down, a page of the viewport's lines, the first row and the last.
Move ==
    /\ Key("move") /\ InList
    /\ OnlyTheList
    /\ \E c \in {cursor - 1, cursor + 1, cursor - lines, cursor + lines, 1, Len(Rows)} :
          CursorTo(Clamp(Rows, c))

\* toggleExpand; left on a child goes to its header.  When columns are scrolled
\* sideways the two keys do that instead.
Fold ==
    /\ Key("fold") /\ InList /\ mode # "hscroll" /\ Rows # <<>>
    /\ OnlyTheList
    /\ \/ /\ Current.header
          /\ \E o \in {open \cup {Current.c}, open \ {Current.c}} : Show(o, filter, cursor, top)
       \/ /\ Current.child
          /\ \E k \in 1..(cursor - 1) :
                /\ Nodes[Rows[k]].header /\ Nodes[Rows[k]].c = Current.c
                /\ CursorTo(k)

\* cursorToNode: the same row, or the header above it.
RowOf(v, r) ==
    LET same == {k \in DOMAIN v : KeyOf(Nodes[v[k]]) = KeyOf(r)}
        above == {k \in DOMAIN v : Nodes[v[k]].header /\ Nodes[v[k]].c = r.c}
    IN CASE same # {} -> Min(same)
         [] same = {} /\ above # {} -> Min(above)
         [] OTHER -> cursor

\* toggleExpandAll: fold all the headers shown when one of them is unfolded.
FoldAll ==
    LET shown == {Nodes[k].c : k \in {j \in ToSet(Rows) : Nodes[j].header}}
        o == IF shown \cap open = {} THEN open \cup shown ELSE open \ shown
    IN /\ Key("fold") /\ InList /\ shown # {}
       /\ OnlyTheList
       /\ Show(o, filter, RowOf(Visible(o, filter), Current), top)

\* The search line filters with every key typed.
OpenSearch ==
    /\ Key("search") /\ view \in {"tree", "split"}
    /\ view' = "search"
    /\ UNCHANGED <<scenario, store, list, screen, pane, choice>>

TypeSearch ==
    /\ view = "search"
    /\ OnlyTheList
    /\ \E w \in WordsIn[scenario] \cup {""} : Show(open, w, cursor, top)

CloseSearch ==
    /\ view = "search"
    /\ view' = IF detail = NoRow THEN "tree" ELSE "split"
    /\ UNCHANGED <<scenario, store, screen, pane, choice>>
    /\ \E f \in {filter, ""} : Show(open, f, cursor, top)

NextMode == [truncate |-> "wrap", wrap |-> "hscroll", hscroll |-> "truncate"]

WordWrap ==
    /\ Key("wrap") /\ view = "tree"
    /\ mode' = NextMode[mode]
    /\ UNCHANGED <<scenario, view, store, active, size, lines, pane, choice>>
    /\ CursorTo(cursor)

WindowSize ==
    /\ Key("size")
    /\ size' \in SizesIn[scenario] \ {size}
    /\ lines' = Viewport(view, size')
    /\ line' = 0
    /\ UNCHANGED <<scenario, view, store, mode, active, detail, focus, back, forward, choice>>
    /\ Show(open, filter, cursor, top)

\* The column editor converts the store again, which unfolds every container.
ToggleColumn ==
    /\ Key("columns") /\ view \in {"tree", "split"}
    /\ active' = IF active = {"subject"} THEN {"subject", "expiry", "sans"} ELSE {"subject"}
    /\ UNCHANGED <<scenario, view, store, mode, size, lines, pane, choice>>
    /\ Show(Unfolded(scenario, scanned), filter, cursor, top)

-----------------------------------------------------------------------------
(* The detail pane, its relations and its history *)

\* The relation index of a store: the peers that were scanned too.
RelationsIn(st) ==
    LET Refs == UNION {{<<c, i>> : i \in DOMAIN st[c].items} : c \in DOMAIN st}
        IdOf(ref) == st[ref[1]].items[ref[2]].id
        There(id) == {r \in Refs : IdOf(r) = id}
    IN [ref \in Refs |->
          LET there == SelectSeq(Peers[IdOf(ref)], LAMBDA p : There(p.id) # {})
          IN [k \in DOMAIN there |-> [kind |-> there[k].kind,
                                      ref |-> CHOOSE r \in There(there[k].id) : TRUE]]]

RelationIndex == [s \in Scenarios |-> [present \in SUBSET NamesIn(s) |-> RelationsIn(Store(s, present))]]

Related(ref) == RelationIndex[scenario][scanned][ref]

\* newDetailModel: the lines that lead to a relation are 1.. in the order of the
\* index, and 0 stands for the lines that lead nowhere.
RelationLines == IF detail = NoRow \/ Nodes[detail].id = "none" THEN <<>> ELSE Related(Nodes[detail].ref)

\* findNodeByRef
FindNode(ref) ==
    LET at == {k \in DOMAIN Nodes : KeyOf(Nodes[k]) = ref}
    IN IF at = {} THEN NoRow ELSE Min(at)

\* syncTreeToRef: the container unfolded, the filter gone, the cursor on the row.
SyncedOpen(ref) ==
    IF \E k \in DOMAIN Nodes : Nodes[k].header /\ Nodes[k].c = ref[1]
    THEN open \cup {ref[1]} ELSE open

\* A mutant: the filter stays.
FilterKept == filter

SyncedFilter == ""

SyncTo(ref, otherwise, t) ==
    LET v == Visible(SyncedOpen(ref), SyncedFilter)
        at == {k \in DOMAIN v : KeyOf(Nodes[v[k]]) = ref}
    IN Show(SyncedOpen(ref), SyncedFilter, IF at = {} THEN otherwise ELSE Min(at), t)

\* currentNavEntry; shown is what the pane shows, which the code does not keep.
Entry == [ref |-> IF detail = NoRow THEN <<1, 1>> ELSE Nodes[detail].ref,
          cursor |-> cursor, top |-> top, shown |-> detail]

Room == Len(back) + Len(forward) < MaxHistory

\* openDetail, and the Enter of the list while a detail is shown.
OpenDetail ==
    /\ Key("detail") /\ view = "tree" /\ Rows # <<>>
    /\ ~Current.skipped /\ ~NeedsPassword(Current)
    /\ view' = "split" /\ detail' = Rows[cursor] /\ line' = 0 /\ focus' = "detail"
    /\ back' = <<>> /\ forward' = <<>>
    /\ lines' = Viewport("split", size)
    /\ UNCHANGED <<scenario, store, mode, active, size, choice>>
    /\ Show(open, filter, cursor, top)

OpenBeside ==
    /\ Key("relations") /\ view = "split" /\ focus = "tree" /\ Rows # <<>>
    /\ ~NeedsPassword(Current)
    /\ IF detail = NoRow THEN UNCHANGED <<back, forward>>
       ELSE Room /\ back' = Append(back, Entry) /\ forward' = <<>>
    /\ detail' = Rows[cursor] /\ line' = 0
    /\ UNCHANGED <<scenario, view, store, list, screen, focus, choice>>

CloseDetail ==
    /\ view = "split"
    /\ view' = "tree" /\ detail' = NoRow /\ line' = 0
    /\ back' = <<>> /\ forward' = <<>>
    /\ lines' = Viewport("tree", size)
    /\ UNCHANGED <<scenario, store, mode, active, size, focus, choice>>
    /\ Show(open, filter, cursor, top)

Tab ==
    /\ view = "split"
    /\ focus' = IF focus = "tree" THEN "detail" ELSE "tree"
    /\ UNCHANGED <<scenario, view, store, list, screen, detail, line, back, forward, choice>>

DetailMove ==
    /\ Key("relations") /\ view = "split" /\ focus = "detail"
    /\ line' \in (0..Len(RelationLines)) \ {line}
    /\ UNCHANGED <<scenario, view, store, list, screen, detail, focus, back, forward, choice>>

\* navigateToSelectedRelation: the history grows even when the relation leads to
\* a certificate that has no row.
Follow ==
    /\ view = "split" /\ focus = "detail" /\ line > 0 /\ Room
    /\ back' = Append(back, Entry) /\ forward' = <<>>
    /\ UNCHANGED <<scenario, view, store, screen, focus, choice>>
    /\ \E ref \in {RelationLines[line].ref} :
          IF FindNode(ref) = NoRow THEN UNCHANGED <<list, detail, line>>
          ELSE /\ detail' = FindNode(ref) /\ line' = 0
               /\ SyncTo(ref, cursor, top)

\* restoreNavEntry
Restore(e) ==
    /\ UNCHANGED <<scenario, view, store, screen, focus, choice>>
    /\ IF FindNode(e.ref) = NoRow THEN UNCHANGED <<list, detail, line>>
       ELSE /\ detail' = FindNode(e.ref) /\ line' = 0
            /\ SyncTo(e.ref, e.cursor, e.top)

Back ==
    /\ view = "split" /\ back # <<>>
    /\ back' = Front(back) /\ forward' = Append(forward, Entry)
    /\ Restore(Last(back))

Forward ==
    /\ view = "split" /\ forward # <<>>
    /\ forward' = Front(forward) /\ back' = Append(back, Entry)
    /\ Restore(Last(forward))

\* An option that changes how paths are shown converts the store again and
\* closes the detail, but not the split view it was opened from.
DisplayOption ==
    /\ Key("options") /\ view \in {"tree", "split"}
    /\ detail' = NoRow /\ line' = 0
    /\ UNCHANGED <<scenario, view, store, screen, focus, back, forward, choice>>
    /\ Show(Unfolded(scenario, scanned), filter, cursor, top)

-----------------------------------------------------------------------------
(* Scans *)

Vanish ==
    /\ \E f \in disk \cap GoneIn[scenario] : disk' = disk \ {f}
    /\ UNCHANGED <<scenario, view, scanned, failed, list, screen, pane, choice>>

Rescan ==
    /\ Key("rescan") /\ view \in {"tree", "split"}
    /\ view' = "loading" /\ detail' = NoRow /\ line' = 0
    /\ UNCHANGED <<scenario, store, list, screen, focus, back, forward, choice>>

ScanDone ==
    /\ view = "loading"
    /\ view' = "tree" /\ scanned' = disk /\ failed' = FALSE
    /\ UNCHANGED <<scenario, disk, screen, pane, choice>>
    /\ Show(Unfolded(scenario, disk), filter, cursor, top)

ScanFailed ==
    /\ view = "loading"
    /\ view' = "tree" /\ failed' = TRUE
    /\ UNCHANGED <<scenario, disk, scanned, list, screen, pane, choice>>

-----------------------------------------------------------------------------
(* Multi-select: a key names a container and an item of it, 0 for the row of *)
(* the container itself.                                                     *)

Collected == SelectSeq(Nodes, LAMBDA r : r.i > 0 /\ KeyOf(r) \in selected)
Count == Cardinality({k \in selected : k[2] > 0})

\* collectFilePaths
FilesOf(rows) == FoldLeft(LAMBDA seen, r : IF Contains(seen, r.file) THEN seen ELSE Append(seen, r.file),
                          <<>>, rows)

OpenMultiSelect ==
    /\ Key("select") /\ view \in {"tree", "split"}
    /\ returnTo' = view /\ selected' = {} /\ view' = "multi"
    /\ UNCHANGED <<scenario, store, list, screen, pane, doomed>>

CloseMultiSelect ==
    /\ view = "multi"
    /\ view' = returnTo /\ selected' = {}
    /\ UNCHANGED <<scenario, store, list, screen, pane, doomed, returnTo>>

\* A header takes its children with it, the locked ones too.
Toggled(r) ==
    {KeyOf(r)} \cup IF ~r.header THEN {}
                    ELSE {KeyOf(Nodes[k]) : k \in {j \in DOMAIN Nodes : Nodes[j].child /\ Nodes[j].c = r.c}}

Space ==
    /\ view = "multi" /\ Rows # <<>>
    /\ ~Current.locked /\ ~Current.skipped /\ ~ReadOnlySource(Current) /\ ~NeedsPassword(Current)
    /\ selected' = IF KeyOf(Current) \in selected THEN selected \ Toggled(Current)
                   ELSE selected \cup Toggled(Current)
    /\ UNCHANGED <<scenario, view, store, list, screen, pane, doomed, returnTo>>

CertAt(ref) ==
    LET st == Store(scenario, scanned)
    IN IF st[ref[1]].relationsOnly THEN "none" ELSE st[ref[1]].items[ref[2]].cert

\* followChain: depth first along the issuers; a certificate that was met
\* before, in another file, is passed over.
RECURSIVE ChainRefs(_, _, _, _, _, _)
ChainRefs(issuers, certs, ahead, walked, seen, chain) ==
    LET next == Head(ahead)
        further == IF next \in walked THEN <<>> ELSE issuers[next]
    IN CASE ahead = <<>> -> chain
         [] ahead # <<>> /\ certs[next] # "none" /\ certs[next] \in seen ->
                ChainRefs(issuers, certs, Tail(ahead), walked, seen, chain)
         [] OTHER -> ChainRefs(issuers, certs, further \o Tail(ahead), walked \cup {next},
                               seen \cup {certs[next]}, chain \cup {next})

RefsOf(rels, kind) ==
    LET some == SelectSeq(rels, LAMBDA p : p.kind = kind)
    IN [k \in DOMAIN some |-> some[k].ref]

\* A mutant: certificates without a row are taken too.
RowOrNot(ref) == ref \in DOMAIN RelationIndex[scenario][scanned]

ChainExists(ref) == \E k \in DOMAIN Nodes : KeyOf(Nodes[k]) = ref /\ ~Nodes[k].locked

\* autoSelectChain: the certificate, its issuers and its keys, as far as they
\* have a row that is not locked.
Chain(r) ==
    LET refs == DOMAIN RelationIndex[scenario][scanned]
        issuers == [ref \in refs |-> RefsOf(Related(ref), "signedBy")]
        certs == [ref \in refs |-> CertAt(ref)]
        chain == ChainRefs(issuers, certs, issuers[r.ref], {r.ref}, {r.cert}, {})
    IN {ref \in {KeyOf(r)} \cup chain \cup ToSet(RefsOf(Related(r.ref), "key")) : ChainExists(ref)}

\* The chain is followed from the certificates selected, or from the cursor's.
Seeds == LET certs == SelectSeq(Collected, LAMBDA r : r.cert # "none")
         IN IF certs = <<>> /\ Rows # <<>> THEN <<Current>> ELSE certs

AutoChain ==
    /\ view = "multi"
    /\ selected' = selected \cup UNION {Chain(r) : r \in {s \in ToSet(Seeds) : s.cert # "none"}}
    /\ UNCHANGED <<scenario, view, store, list, screen, pane, doomed, returnTo>>

AskDelete ==
    /\ view = "multi" /\ Key("delete") /\ Count > 0
    /\ doomed' = FilesOf(Collected) /\ view' = "confirm"
    /\ UNCHANGED <<scenario, store, list, screen, pane, selected, returnTo>>

Decline ==
    /\ view = "confirm"
    /\ view' = "multi" /\ doomed' = <<>>
    /\ UNCHANGED <<scenario, store, list, screen, pane, selected, returnTo>>

\* doDeleteFiles stops at the first file that cannot be removed, and then the
\* rows stay as they were.
Delete ==
    /\ view = "confirm"
    /\ \E n \in 0..Len(doomed) :
          /\ \A k \in 1..n : doomed[k] \in disk
          /\ disk' = disk \ {doomed[k] : k \in 1..n}
          /\ IF n = Len(doomed) THEN view' = "loading" /\ detail' = NoRow /\ line' = 0
             ELSE view' = returnTo /\ UNCHANGED <<detail, line>>
    /\ doomed' = <<>> /\ selected' = {}
    /\ UNCHANGED <<scenario, scanned, failed, list, screen, focus, back, forward, returnTo>>

Next == \/ Move \/ Fold \/ FoldAll \/ OpenSearch \/ TypeSearch \/ CloseSearch \/ WordWrap
        \/ WindowSize \/ ToggleColumn \/ DisplayOption
        \/ OpenDetail \/ OpenBeside \/ CloseDetail \/ Tab \/ DetailMove \/ Follow \/ Back \/ Forward
        \/ Vanish \/ Rescan \/ ScanDone \/ ScanFailed
        \/ OpenMultiSelect \/ CloseMultiSelect \/ Space \/ AutoChain
        \/ AskDelete \/ Decline \/ Delete

Spec == Init /\ [][Next]_vars

-----------------------------------------------------------------------------
(* Properties *)

\* However rows are folded, filtered, wrapped and resized, the cursor is on a
\* row and the row is on the screen.  Two cases are left out, in which the code
\* draws with another height or width than it clamped for: an error line above
\* the list, and the wrapped columns of multi-select (treeViewBuilder, renderTree).
CursorShown ==
    /\ cursor \in 1..Larger(1, Len(Rows)) /\ top \in 1..cursor
    /\ LET drawn == (view \in {"tree", "search"} /\ ~failed) \/ (view = "multi" /\ mode # "wrap")
       IN drawn /\ Rows # <<>> => cursor \in Drawn

Shows(e) == detail' = e.shown /\ Rows'[cursor'] = e.shown
ShowsItem(e) == e.shown # NoRow /\ Nodes[e.shown].i > 0

\* Back and forward show the item that was shown, with the cursor on its row,
\* whatever was folded or filtered since (navigateBack, navigateForward).
BackShowsWhatWasLeft ==
    [][/\ Back /\ ShowsItem(Last(back)) => Shows(Last(back))
       /\ Forward /\ ShowsItem(Last(forward)) => Shows(Last(forward))]_pane

\* The same of every row; a bundle's header has no reference, and the first item
\* is shown in its place (ConvertStore, currentNavEntry).
BackShowsAnyRow ==
    [][Back /\ Last(back).shown # NoRow => Shows(Last(back))]_pane

Marked ==
    /\ Count = Len(Collected)
    /\ selected # {} => view \in {"multi", "confirm"}
    /\ view = "confirm" => ToSet(doomed) = {r.file : r \in ToSet(Collected)}

ChainRows == {r \in ToSet(Collected) : r.cert # "none"}

ChainWhole ==
    /\ \A r, q \in ChainRows : r.cert = q.cert => r = q
    /\ \A r \in ChainRows : \A p \in ToSet(Related(r.ref)) :
          p.kind = "signedBy" /\ ChainExists(p.ref) =>
              \E q \in ChainRows : q.cert = CertAt(p.ref)

\* What is counted as selected is what the list marks and what deleting takes
\* the files of, and a chain followed from one certificate has each certificate
\* once and misses none that has a row (multiSelectModel).
SelectionIsOne ==
    [][Marked' /\ (AutoChain /\ Len(Seeds) = 1 => ChainWhole')]_<<view, choice>>
=============================================================================
