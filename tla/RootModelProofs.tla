--------------------------- MODULE RootModelProofs ---------------------------
(***************************************************************************)
(* For any endpoints, any groups of actions but the proxy's, any start and *)
(* any number of commands: one load at a time, merged where it was asked   *)
(* for, and views that fit what they act on.  And for any tree, dialogs    *)
(* and other processes: the file dialog, which takes over while it is      *)
(* open, answers only with what it was opened for.                         *)
(***************************************************************************)
EXTENDS RootModel, FilePicker, FiniteSetTheorems, TLAPS

\* Commands that must not overlap: those behind the loading view, and a shell,
\* which ends in a scan.
Exclusive == Loaders \cup {"shell"}
Asking    == {"confirm", "shell"}
NothingRuns == \A c \in pending : c.kind \notin Exclusive

KnowsWayBack(mm) == mm.remote.load > 0 \/ mm.prevState = "menu" \/ mm.verify
HasFileForm(mm)  == /\ mm.form # None /\ mm.rows.owner # "trust"
                    /\ mm.prevState \in Trees \cup {"packetAnalyzer", "multiSelect"}

\* A view that stands: where it returns to is not the loading view, and it has what
\* it acts on.
Fits(mm) ==
  /\ mm.state \notin {"loading", "packetForm"}
  /\ mm.state \in {"menu", "password", "verifyPick"} => mm.prevState \in Trees \cup {"packetAnalyzer"}
  /\ mm.state = "form" => HasFileForm(mm)
  /\ mm.state = "remoteForm" => KnowsWayBack(mm)
  /\ mm.verify => mm.state = "remoteForm" /\ mm.form = "remote" /\ mm.popup \notin Asking
  /\ mm.state = "multiSelect" \/ (mm.state = "menu" /\ mm.menu = "actions") => mm.rows.owner # "trust"

\* The loading view while c runs: whatever view the result of c opens will stand.
Waits(mm, c) ==
  /\ mm.state = "loading" /\ mm.popup \notin Asking
  /\ c.kind = "submit" => HasFileForm(mm)
  /\ c.kind \in {"remote", "refetch"} => KnowsWayBack(mm) /\ c.target \in Targets \cup {None}
  /\ c.kind = "aia" /\ mm.root = "remoteFetch" /\ mm.remote.load > 0 => c.target \in Targets \cup {None}
  /\ mm.verify => c.kind = "remote" /\ mm.form = "remote"

Running ==
  /\ \A c, d \in pending : c.kind \in Exclusive /\ d.kind \in Exclusive => c = d
  /\ \A c \in pending : c.kind # "proxy"
  /\ \A c \in pending : c.kind \in Loaders => Waits(m, c)
  /\ \A c \in pending : c.kind = "shell" => m.popup \notin Asking /\ ~m.verify
  /\ (\A c \in pending : c.kind \notin Loaders) => Fits(m)

RootInv == TypeOK /\ Running

-----------------------------------------------------------------------------
(* The fields of the model.                                                *)

LEMMA SetView ==
  ASSUME NEW mm \in Model
  PROVE  /\ \A v \in Views \cup {"panic"} : [mm EXCEPT !.state = v] \in Model
         /\ \A v \in Views : [mm EXCEPT !.prevState = v] \in Model
         /\ \A v \in Trees : [mm EXCEPT !.back = v] \in Model
         /\ \A v \in Roots : [mm EXCEPT !.root = v] \in Model
         /\ \A v \in Roots : [mm EXCEPT !.prevRoot = v] \in Model
         /\ \A v \in {"functions", "actions", None} : [mm EXCEPT !.menu = v] \in Model
         /\ \A v \in {"file", "remote", "proxy", None} : [mm EXCEPT !.form = v] \in Model
         /\ \A v \in {"error", "confirm", "shell", None} : [mm EXCEPT !.popup = v] \in Model
         /\ \A v \in {"saveAll", None} : [mm EXCEPT !.confirm = v] \in Model
BY DEF Model

LEMMA SetData ==
  ASSUME NEW mm \in Model
  PROVE  /\ \A v \in BOOLEAN : [mm EXCEPT !.deleting = v] \in Model
         /\ \A v \in BOOLEAN : [mm EXCEPT !.verify = v] \in Model
         /\ \A v \in BOOLEAN : [mm EXCEPT !.verdict = v] \in Model
         /\ \A v \in BOOLEAN : [mm EXCEPT !.columns = v] \in Model
         /\ \A v \in 0..MaxLoads : [mm EXCEPT !.detail = v] \in Model
         /\ \A v \in 0..MaxLoads : [mm EXCEPT !.stores = v] \in Model
         /\ \A v \in 0..MaxLoads : [mm EXCEPT !.index = v] \in Model
         /\ \A v \in 1..MaxLoads : [mm EXCEPT !.ctx = v] \in Model
         /\ \A v \in Targets \cup {None} : [mm EXCEPT !.aia = v] \in Model
         /\ \A v \in 0..MaxLoads : [mm EXCEPT !.rows.judged = v] \in Model
         /\ \A v \in Targets \cup {"scan", None} : [mm EXCEPT !.rows.aia = v] \in Model
         /\ \A o \in Owners : \A l, j \in 0..MaxLoads : \A a \in Targets \cup {"scan", None} :
              [mm EXCEPT !.rows = [owner |-> o, load |-> l, aia |-> a, judged |-> j]] \in Model
         /\ \A l \in 0..MaxLoads : \A t \in Targets \cup {None} :
              [mm EXCEPT !.remote = [load |-> l, target |-> t]] \in Model
BY DEF Model

LEMMA Small == /\ 0 \in 0..MaxLoads /\ 1 \in 1..MaxLoads /\ 1..MaxLoads \subseteq 0..MaxLoads
               /\ Trees \subseteq Views /\ None \notin Targets
BY RootAssumption DEF Trees, Views

\* Rows are rebuilt from what the model holds; nothing else but the columns changes.
LEMMA Rebuilds ==
  ASSUME NEW mm \in Model
  PROVE  RebuildRemote(mm) \in Model /\ RebuildTrust(mm) \in Model
<1>1. /\ mm.remote.load \in 0..MaxLoads /\ mm.stores \in 0..MaxLoads
      /\ mm.aia \in Targets \cup {"scan", None} /\ None \in Targets \cup {"scan", None}
      /\ "remote" \in Owners /\ "trust" \in Owners /\ 0 \in 0..MaxLoads /\ TrustColumn \in BOOLEAN
  BY Small, RootAssumption DEF Model, Owners
<1> HIDE DEF Model
<1>2. [mm EXCEPT !.rows = [owner |-> "remote", load |-> mm.remote.load, aia |-> mm.aia, judged |-> 0]] \in Model
  BY <1>1, SetData
<1>3. [mm EXCEPT !.rows = [owner |-> "trust", load |-> mm.stores, aia |-> None, judged |-> 0]] \in Model
  BY <1>1, SetData
<1>4. RebuildRemote(mm) \in Model BY <1>1, <1>2, SetData DEF RebuildRemote
<1>5. RebuildTrust(mm) \in Model BY <1>3, SetData DEF RebuildTrust
<1> QED BY <1>4, <1>5

LEMMA RemoteFields ==
  ASSUME NEW mm \in Model
  PROVE  LET x == RebuildRemote(mm)
         IN /\ x.state = mm.state /\ x.prevState = mm.prevState /\ x.menu = mm.menu /\ x.form = mm.form
            /\ x.verify = mm.verify /\ x.remote = mm.remote /\ x.root = mm.root /\ x.popup = mm.popup
            /\ x.rows.owner = "remote"
BY DEF Model, RebuildRemote

LEMMA TrustFields ==
  ASSUME NEW mm \in Model
  PROVE  LET x == RebuildTrust(mm)
         IN /\ x.state = mm.state /\ x.prevState = mm.prevState /\ x.menu = mm.menu /\ x.form = mm.form
            /\ x.verify = mm.verify /\ x.remote = mm.remote /\ x.root = mm.root /\ x.popup = mm.popup
            /\ x.rows.owner = "trust"
BY DEF Model, RebuildTrust

\* Verdicts are filled in or blanked; no view is touched.
Undisturbed(mm, x) ==
  /\ x \in Model
  /\ x.state = mm.state /\ x.prevState = mm.prevState /\ x.menu = mm.menu /\ x.form = mm.form
  /\ x.verify = mm.verify /\ x.remote = mm.remote /\ x.root = mm.root /\ x.rows.owner = mm.rows.owner
Marked(mm, x) == Undisturbed(mm, x) /\ x.popup = mm.popup /\ x.rows.load = mm.rows.load

LEMMA Marks ==
  ASSUME NEW mm \in Model
  PROVE  /\ Marked(mm, Convert(mm)) /\ Marked(mm, Decorate(mm)) /\ Marked(mm, ApplyListerTrust(mm))
         /\ Marked(mm, Ensured(mm))
<1>2. \A j \in 0..MaxLoads : Marked(mm, [mm EXCEPT !.index = j])
  <2> SUFFICES ASSUME NEW j \in 0..MaxLoads PROVE Marked(mm, [mm EXCEPT !.index = j]) OBVIOUS
  <2>1. [mm EXCEPT !.index = j] \in Model BY SetData
  <2> QED BY <2>1 DEF Marked, Undisturbed, Model
<1>3. \A nn \in Model : nn.index \in 0..MaxLoads /\ nn.rows.load \in 0..MaxLoads
  BY DEF Model
<1>4. \A nn \in Model : Marked(nn, Convert(nn)) /\ Marked(nn, Decorate(nn))
  <2> SUFFICES ASSUME NEW nn \in Model PROVE Marked(nn, Convert(nn)) /\ Marked(nn, Decorate(nn)) OBVIOUS
  <2>1. \A j \in 0..MaxLoads : Marked(nn, [nn EXCEPT !.rows.judged = j])
    <3> SUFFICES ASSUME NEW j \in 0..MaxLoads PROVE Marked(nn, [nn EXCEPT !.rows.judged = j]) OBVIOUS
    <3>1. [nn EXCEPT !.rows.judged = j] \in Model BY SetData
    <3> QED BY <3>1 DEF Marked, Undisturbed, Model
  <2> QED BY <1>3, <2>1, Small DEF Convert, Decorate
<1>5. Marked(mm, ApplyListerTrust(mm))
  <2> DEFINE nn == [mm EXCEPT !.index = mm.rows.load]
  <2>1. Marked(mm, nn) BY <1>2, <1>3
  <2>2. Marked(nn, Decorate(nn)) BY <1>4, <2>1 DEF Marked, Undisturbed
  <2> HIDE DEF nn
  <2>3. Marked(mm, Decorate(nn)) BY <2>1, <2>2 DEF Marked, Undisturbed
  <2> QED BY <2>3 DEF ApplyListerTrust, nn
<1>6. Marked(mm, mm) BY DEF Marked, Undisturbed
<1> QED BY <1>4, <1>5, <1>6 DEF Ensured

LEMMA NoneIsNoName ==
  None \notin {"confirm", "shell", "error", "file", "remote", "proxy", "saveAll", "functions", "actions", "scan"}
BY RootAssumption

-----------------------------------------------------------------------------
(* The shapes of a step.                                                   *)

LEMMA Calm ==
  ASSUME RootInv, NEW views, Key(views), "loading" \notin views
  PROVE  /\ NothingRuns /\ Fits(m) /\ ~quit /\ m \in Model /\ m.popup = None /\ m.state \in views
BY DEF RootInv, Running, Key, NothingRuns, Exclusive, Loaders, TypeOK, Waits

\* The program rests in a view that fits, with nothing running but what may overlap.
LEMMA Settle ==
  ASSUME RootInv, NEW mm \in Model, m' = mm, Fits(mm), pending' \subseteq Command,
         \A c \in pending' : c.kind \notin Exclusive /\ c.kind # "proxy",
         loads' \in 1..MaxLoads, UNCHANGED <<cancelled, quit>>
  PROVE  RootInv'
BY DEF RootInv, TypeOK, Running, Exclusive, Fits, HasFileForm, KnowsWayBack

LEMMA StaySettled ==
  ASSUME RootInv, NothingRuns, NEW mm \in Model, Stay(mm), Fits(mm)
  PROVE  RootInv'
<1>1. m' = mm /\ pending' = pending /\ UNCHANGED <<loads, cancelled, quit>>
  BY DEF Stay, Go
<1> QED BY <1>1, Settle DEF RootInv, TypeOK, Running, NothingRuns

\* A step that changes no view, beside whatever runs.
LEMMA Beside ==
  ASSUME RootInv, NEW mm, m' = mm, Undisturbed(m, mm), mm.popup \in Asking => mm.popup = m.popup,
         pending' \subseteq pending, \A c \in pending \ pending' : c.kind \notin Exclusive,
         UNCHANGED <<loads, cancelled, quit>>
  PROVE  RootInv'
<1>1. TypeOK' BY DEF RootInv, TypeOK, Undisturbed
<1>2. \A c : Waits(m, c) => Waits(mm, c)
  BY DEF Waits, Undisturbed, HasFileForm, KnowsWayBack
<1>3. Fits(m) => Fits(mm)
  BY DEF Fits, Undisturbed, HasFileForm, KnowsWayBack
<1>4. /\ \A c \in pending' : c.kind \in Loaders => Waits(mm, c)
      /\ (\A c \in pending' : c.kind \notin Loaders) => Fits(mm)
  BY <1>2, <1>3 DEF RootInv, Running, Exclusive
<1>5. \A c \in pending' : c.kind = "shell" => mm.popup \notin Asking /\ ~mm.verify
  BY DEF RootInv, Running, Undisturbed
<1>6. /\ \A c, d \in pending' : c.kind \in Exclusive /\ d.kind \in Exclusive => c = d
      /\ \A c \in pending' : c.kind # "proxy"
  BY DEF RootInv, Running
<1>7. Running' BY <1>4, <1>5, <1>6 DEF Running, Waits, Fits, HasFileForm, KnowsWayBack
<1> QED BY <1>1, <1>7 DEF RootInv

\* Or it waits, in the loading view, for one command.
LEMMA Wait ==
  ASSUME RootInv, NEW mm \in Model, m' = mm, NEW c \in Command, c.kind \in Loaders, Waits(mm, c),
         NEW others \in SUBSET Command, pending' = others \cup {c},
         \A d \in others : d.kind \notin Exclusive /\ d.kind # "proxy",
         loads' \in 1..MaxLoads, UNCHANGED <<cancelled, quit>>
  PROVE  RootInv'
<1>1. pending' \subseteq Command OBVIOUS
<1>2. TypeOK' BY <1>1 DEF RootInv, TypeOK
<1>3. \A d \in pending' : d.kind \in Exclusive => d = c BY DEF Exclusive
<1>4. c.kind # "proxy" /\ c.kind # "shell" BY DEF Loaders
<1>5. Waits(m', c) BY DEF Waits
<1>6. Running' BY <1>3, <1>4, <1>5 DEF Running, Exclusive, Waits, HasFileForm, KnowsWayBack
<1> QED BY <1>2, <1>6 DEF RootInv

LEMMA NextLoad ==
  ASSUME RootInv, loads < MaxLoads PROVE loads + 1 \in 1..MaxLoads /\ loads + 1 \in 0..MaxLoads
<1>1. loads \in 1..MaxLoads BY DEF RootInv, TypeOK
<1> QED BY <1>1, RootAssumption

LEMMA Commands ==
  ASSUME RootInv, loads < MaxLoads, NEW kind \in Kinds, NEW ctx \in 0..MaxLoads,
         NEW target \in Targets \cup {"scan", None}
  PROVE  /\ Cmd(kind, loads + 1, ctx, target) \in Command
         /\ loads + 1 \in 1..MaxLoads
BY NextLoad DEF Cmd, Command

LEMMA BeginWaits ==
  ASSUME RootInv, NEW mm \in Model, NEW done, \A c \in pending \ done : c.kind \notin Exclusive,
         NEW kind \in Loaders, NEW ctx \in 0..MaxLoads, NEW target \in Targets \cup {"scan", None},
         Begin(mm, done, kind, ctx, target), Waits(mm, Cmd(kind, loads + 1, ctx, target))
  PROVE  RootInv'
<1> DEFINE c == Cmd(kind, loads + 1, ctx, target)
<1>1. /\ loads < MaxLoads /\ loads' = loads + 1 /\ m' = mm /\ pending' = (pending \ done) \cup {c}
      /\ UNCHANGED <<cancelled, quit>>
  BY DEF Begin, Go
<1>2. kind \in Kinds BY DEF Kinds, Loaders
<1>3. c \in Command /\ loads' \in 1..MaxLoads BY <1>1, <1>2, Commands
<1>4. c.kind = kind BY DEF Cmd
<1>5. pending \ done \in SUBSET Command /\ \A d \in pending \ done : d.kind # "proxy"
  BY DEF RootInv, TypeOK, Running
<1> HIDE DEF c
<1>6. Waits(mm, c) BY DEF c
<1> QED BY <1>1, <1>3, <1>4, <1>5, <1>6, Wait

\* The commands behind the loading view of a key.
LEMMA LoadWaits ==
  ASSUME RootInv, NEW mm \in Model, NEW done, \A c \in pending \ done : c.kind \notin Exclusive,
         NEW kind \in {"scan", "trust", "remote"}, NEW target \in Targets \cup {None},
         kind = "remote" => KnowsWayBack(mm),
         Load(mm, done, kind, target), mm.popup \notin Asking,
         mm.verify => kind = "remote" /\ mm.form = "remote"
  PROVE  RootInv'
<1> DEFINE nn == [[mm EXCEPT !.state = "loading"] EXCEPT !.ctx = loads + 1]
<1>1. loads < MaxLoads /\ Begin(nn, done, kind, loads + 1, target) BY DEF Load, Begin
<1>2. loads + 1 \in 1..MaxLoads /\ loads + 1 \in 0..MaxLoads BY <1>1, NextLoad
<1>3. [mm EXCEPT !.state = "loading"] \in Model BY SetView DEF Views
<1>4. nn \in Model BY <1>2, <1>3, SetData
<1>5. /\ nn.state = "loading" /\ nn.popup = mm.popup /\ nn.verify = mm.verify /\ nn.form = mm.form
      /\ nn.remote = mm.remote /\ nn.prevState = mm.prevState
  BY DEF Model
<1> HIDE DEF nn
<1>6. Waits(nn, Cmd(kind, loads + 1, loads + 1, target))
  BY <1>5 DEF Waits, Cmd, KnowsWayBack
<1> QED BY <1>1, <1>2, <1>4, <1>6, BeginWaits DEF Loaders

LEMMA UnstoppableWaits ==
  ASSUME RootInv, NothingRuns, NEW mm \in Model, NEW kind \in {"refetch", "unlock", "submit"},
         NEW target \in Targets \cup {None},
         LoadUnstoppable(mm, kind, target), mm.popup \notin Asking, ~mm.verify,
         kind = "refetch" => mm.remote.load > 0, kind = "submit" => HasFileForm(mm)
  PROVE  RootInv'
<1> DEFINE nn == [mm EXCEPT !.state = "loading"]
<1>1. Begin(nn, {}, kind, 0, target) BY DEF LoadUnstoppable
<1>2. nn \in Model BY SetView DEF Views
<1>3. /\ nn.state = "loading" /\ nn.popup = mm.popup /\ nn.verify = mm.verify /\ nn.form = mm.form
      /\ nn.remote = mm.remote /\ nn.prevState = mm.prevState /\ nn.rows = mm.rows
  BY DEF Model
<1> HIDE DEF nn
<1>4. Waits(nn, Cmd(kind, loads + 1, 0, target))
  BY <1>3 DEF Waits, Cmd, KnowsWayBack, HasFileForm
<1>5. \A c \in pending \ {} : c.kind \notin Exclusive BY DEF NothingRuns
<1>6. kind \in Loaders /\ 0 \in 0..MaxLoads /\ target \in Targets \cup {"scan", None}
  BY Small DEF Loaders
<1> QED BY <1>1, <1>2, <1>4, <1>5, <1>6, BeginWaits

LEMMA Fields ==
  ASSUME NEW mm \in Model
  PROVE  /\ mm.rows.load \in 0..MaxLoads /\ mm.remote.load \in 0..MaxLoads /\ mm.stores \in 0..MaxLoads
         /\ mm.prevState \in Views /\ mm.back \in Trees /\ mm.root \in Roots /\ mm.prevRoot \in Roots
         /\ mm.state \in Views \cup {"panic"} /\ mm.remote.target \in Targets \cup {None} /\ mm.ctx \in 1..MaxLoads
         /\ mm.columns \in BOOLEAN
BY DEF Model

-----------------------------------------------------------------------------
(* Keys.                                                                   *)

LEMMA TreeKeysKeep ==
  ASSUME RootInv, TreeKeys PROVE RootInv'
<1>1. ASSUME OpenDetail PROVE RootInv'
  <2>1. Key(Trees) /\ Stay([m EXCEPT !.detail = m.rows.load, !.state = "split"])
    BY <1>1 DEF OpenDetail
  <2>2. /\ NothingRuns /\ Fits(m) /\ m \in Model /\ m.popup = None /\ m.state \in Trees
    BY <2>1, Calm DEF Trees
  <2>3. [m EXCEPT !.detail = m.rows.load, !.state = "split"] \in Model
    BY <2>2, SetView, SetData, Small, Fields DEF Views, Trees
  <2>4. Fits([m EXCEPT !.detail = m.rows.load, !.state = "split"])
    BY <2>1, <2>2, Small DEF Fits, Model, Trees, HasFileForm, KnowsWayBack, Writable, View, Popup
  <2> QED BY <2>1, <2>2, <2>3, <2>4, StaySettled
<1>2. ASSUME CloseDetail PROVE RootInv'
  <2>1. Key({"split"}) /\ Stay([m EXCEPT !.detail = 0, !.state = "tree"])
    BY <1>2 DEF CloseDetail
  <2>2. /\ NothingRuns /\ Fits(m) /\ m \in Model /\ m.popup = None /\ m.state \in {"split"}
    BY <2>1, Calm DEF Trees
  <2>3. [m EXCEPT !.detail = 0, !.state = "tree"] \in Model
    BY <2>2, SetView, SetData, Small, Fields DEF Views, Trees
  <2>4. Fits([m EXCEPT !.detail = 0, !.state = "tree"])
    BY <2>1, <2>2, Small DEF Fits, Model, Trees, HasFileForm, KnowsWayBack, Writable, View, Popup
  <2> QED BY <2>1, <2>2, <2>3, <2>4, StaySettled
<1>3. ASSUME OpenSearch PROVE RootInv'
  <2>1. Key(Trees) /\ Stay(View(m, "search"))
    BY <1>3 DEF OpenSearch
  <2>2. /\ NothingRuns /\ Fits(m) /\ m \in Model /\ m.popup = None /\ m.state \in Trees
    BY <2>1, Calm DEF Trees
  <2>3. View(m, "search") \in Model
    BY <2>2, SetView, SetData, Small, Fields DEF View, Views, Trees
  <2>4. Fits(View(m, "search"))
    BY <2>1, <2>2, Small DEF Fits, Model, Trees, HasFileForm, KnowsWayBack, Writable, View, Popup
  <2> QED BY <2>1, <2>2, <2>3, <2>4, StaySettled
<1>4. ASSUME EndSearch PROVE RootInv'
  <2>1. Key({"search"}) /\ Stay(View(m, IF m.detail > 0 THEN "split" ELSE "tree"))
    BY <1>4 DEF EndSearch
  <2>2. /\ NothingRuns /\ Fits(m) /\ m \in Model /\ m.popup = None /\ m.state \in {"search"}
    BY <2>1, Calm DEF Trees
  <2>3. View(m, IF m.detail > 0 THEN "split" ELSE "tree") \in Model
    BY <2>2, SetView, SetData, Small, Fields DEF View, Views, Trees
  <2>4. Fits(View(m, IF m.detail > 0 THEN "split" ELSE "tree"))
    BY <2>1, <2>2, Small DEF Fits, Model, Trees, HasFileForm, KnowsWayBack, Writable, View, Popup
  <2> QED BY <2>1, <2>2, <2>3, <2>4, StaySettled
<1>5. ASSUME Rescan PROVE RootInv'
  <2>1. Key(Trees) /\ Load([m EXCEPT !.detail = 0], {}, "scan", None)
    BY <1>5 DEF Rescan, Choose
  <2>2. /\ NothingRuns /\ Fits(m) /\ m \in Model /\ m.popup = None /\ m.state \in Trees
    BY <2>1, Calm DEF Trees
  <2>3. [m EXCEPT !.detail = 0] \in Model
    BY <2>2, SetView, SetData, Small, Fields, RootAssumption 
  <2>4. ~[m EXCEPT !.detail = 0].verify /\ [m EXCEPT !.detail = 0].popup \notin Asking
    BY <2>2, NoneIsNoName DEF Fits, Model, Trees, Asking
  <2> QED BY <2>1, <2>2, <2>3, <2>4, LoadWaits DEF NothingRuns
<1> QED BY <1>1, <1>2, <1>3, <1>4, <1>5 DEF TreeKeys

LEMMA TrustKeysKeep ==
  ASSUME RootInv, TrustKeys PROVE RootInv'
<1>1. ASSUME ReloadStores PROVE RootInv'
  <2>1. Key(Trees) /\ Load([m EXCEPT !.stores = 0, !.detail = 0], {}, "trust", None)
    BY <1>1 DEF ReloadStores, Choose
  <2>2. /\ NothingRuns /\ Fits(m) /\ m \in Model /\ m.popup = None /\ m.state \in Trees
    BY <2>1, Calm DEF Trees
  <2>3. [m EXCEPT !.stores = 0, !.detail = 0] \in Model
    BY <2>2, SetView, SetData, Small, Fields, RootAssumption 
  <2>4. ~[m EXCEPT !.stores = 0, !.detail = 0].verify /\ [m EXCEPT !.stores = 0, !.detail = 0].popup \notin Asking
    BY <2>2, NoneIsNoName DEF Fits, Model, Trees, Asking
  <2> QED BY <2>1, <2>2, <2>3, <2>4, LoadWaits DEF NothingRuns
<1>2. ASSUME GoTrust PROVE RootInv'
  <2> DEFINE mm == [m EXCEPT !.root = "trustStore", !.detail = 0]
  <2>1. /\ Key({"menu"})
        /\ IF m.stores > 0 THEN Stay(View(RebuildTrust(mm), "tree")) ELSE Load(mm, {}, "trust", None)
    BY <1>2 DEF GoTrust, Choose
  <2>2. /\ NothingRuns /\ Fits(m) /\ m \in Model /\ m.popup = None /\ m.state \in {"menu"}
    BY <2>1, Calm
  <2>3. mm \in Model BY <2>2, SetView, SetData, Small DEF Roots
  <2>4. ~mm.verify /\ mm.popup \notin Asking BY <2>2, NoneIsNoName DEF Fits, Model, Asking
  <2> HIDE DEF mm
  <2>5. View(RebuildTrust(mm), "tree") \in Model BY <2>3, Rebuilds, SetView DEF View, Views, Trees
  <2>6. Fits(View(RebuildTrust(mm), "tree"))
    BY <2>3, <2>4, Rebuilds, TrustFields DEF Fits, Model, Trees, View
  <2>7. CASE m.stores > 0 BY <2>1, <2>2, <2>5, <2>6, <2>7, StaySettled
  <2>8. CASE ~(m.stores > 0) BY <2>1, <2>2, <2>3, <2>4, <2>8, LoadWaits DEF NothingRuns
  <2> QED BY <2>7, <2>8
<1>3. ASSUME ToggleGrouping PROVE RootInv'
  <2> DEFINE mm == [m EXCEPT !.detail = 0]
  <2>1. Key(Trees) /\ Stay(RebuildTrust(mm)) BY <1>3 DEF ToggleGrouping
  <2>2. NothingRuns /\ Fits(m) /\ m \in Model /\ m.state \in Trees BY <2>1, Calm DEF Trees
  <2>3. mm \in Model BY <2>2, SetData, Small
  <2>4. mm.state \in Trees /\ ~mm.verify BY <2>2 DEF Fits, Model, Trees
  <2> HIDE DEF mm
  <2>5. Fits(RebuildTrust(mm)) BY <2>3, <2>4, TrustFields DEF Fits, Trees
  <2> QED BY <2>1, <2>2, <2>3, <2>5, Rebuilds, StaySettled
<1> QED BY <1>1, <1>2, <1>3 DEF TrustKeys

LEMMA GoesToTree ==
  ASSUME NEW mm \in Model, ~mm.verify PROVE View(mm, "tree") \in Model /\ Fits(View(mm, "tree"))
<1>1. View(mm, "tree") \in Model BY SetView DEF View, Views, Trees
<1> QED BY <1>1 DEF View, Fits, Model

\* What is shown when the answer of a fetch is.
LEMMA ShowsRemote ==
  ASSUME NEW mm \in Model, ~mm.verify PROVE ShowRemote(mm) \in Model /\ Fits(ShowRemote(mm))
<1> DEFINE nn == [mm EXCEPT !.root = "remoteFetch"]
<1>1. nn \in Model BY SetView DEF Roots
<1>2. ~nn.verify BY DEF Model
<1> HIDE DEF nn
<1>3. RebuildRemote(nn) \in Model /\ RebuildRemote(nn).verify = nn.verify BY <1>1, Rebuilds, RemoteFields
<1>4. View(RebuildRemote(nn), "tree") \in Model BY <1>3, SetView DEF View, Views, Trees
<1>5. Fits(View(RebuildRemote(nn), "tree")) BY <1>2, <1>3 DEF Fits, View, Model, Trees
<1> QED BY <1>4, <1>5 DEF ShowRemote, nn

LEMMA FormFor ==
  ASSUME NEW mm \in Model, mm.state \in Views
  PROVE  /\ RemoteForm(mm) \in Model
         /\ RemoteForm(mm).state = "remoteForm" /\ RemoteForm(mm).prevState = mm.state
         /\ RemoteForm(mm).form = "remote" /\ RemoteForm(mm).verify = mm.verify
         /\ RemoteForm(mm).remote = mm.remote /\ RemoteForm(mm).popup = mm.popup
<1>1. RemoteForm(mm) \in Model
  <2>1. [mm EXCEPT !.form = "remote"] \in Model BY SetView
  <2>2. [[mm EXCEPT !.form = "remote"] EXCEPT !.prevState = mm.state] \in Model BY <2>1, SetView
  <2>3. [[[mm EXCEPT !.form = "remote"] EXCEPT !.prevState = mm.state] EXCEPT !.prevRoot = mm.root] \in Model
    BY <2>2, SetView, Fields
  <2> QED BY <2>3, SetView DEF RemoteForm, Views
<1> QED BY <1>1 DEF RemoteForm, Model

LEMMA LeavesForm ==
  ASSUME NEW mm \in Model, KnowsWayBack(mm)
  PROVE  LeaveRemoteForm(mm) \in Model /\ Fits(LeaveRemoteForm(mm))
<1>1. CASE mm.verify
  <2> DEFINE nn == [[mm EXCEPT !.verify = FALSE] EXCEPT !.root = mm.prevRoot]
  <2>1. nn \in Model /\ ~nn.verify
    <3>1. [mm EXCEPT !.verify = FALSE] \in Model BY SetData
    <3>2. nn \in Model BY <3>1, SetView, Fields
    <3> QED BY <3>2 DEF Model
  <2> HIDE DEF nn
  <2>2. View(nn, "tree") \in Model /\ Fits(View(nn, "tree")) BY <2>1, GoesToTree
  <2> QED BY <1>1, <2>2 DEF LeaveRemoteForm, nn
<1>2. CASE ~mm.verify /\ mm.remote.load > 0
  BY <1>2, ShowsRemote DEF LeaveRemoteForm
<1>3. CASE ~mm.verify /\ ~(mm.remote.load > 0)
  <2> DEFINE nn == [mm EXCEPT !.root = mm.prevRoot]
  <2>1. mm.prevState = "menu" BY <1>3 DEF KnowsWayBack
  <2>2. nn \in Model BY SetView, Fields
  <2>3. ~nn.verify BY <1>3 DEF Model
  <2>4. LeaveRemoteForm(mm) = View(nn, "tree") BY <1>3, <2>1 DEF LeaveRemoteForm
  <2> HIDE DEF nn
  <2> QED BY <2>2, <2>3, <2>4, GoesToTree
<1> QED BY <1>1, <1>2, <1>3

LEMMA Crashes ==
  ASSUME RootInv, NothingRuns, Fits(m), m \in Model, ~m.verify, Crash PROVE RootInv'
<1>1. m' = View(m, "panic") /\ UNCHANGED <<pending, loads, cancelled>> /\ quit' = TRUE BY DEF Crash
<1>2. View(m, "panic") \in Model BY SetView DEF View
<1>3. Fits(View(m, "panic")) BY DEF Fits, View, Model
<1> QED BY <1>1, <1>2, <1>3 DEF RootInv, TypeOK, Running, NothingRuns, Exclusive, Fits, HasFileForm, KnowsWayBack

LEMMA RemoteKeysKeep ==
  ASSUME RootInv, RemoteKeys PROVE RootInv'
<1>1. ASSUME GoRemote PROVE RootInv'
  <2> DEFINE mm == [m EXCEPT !.detail = 0]
  <2>1. /\ Key({"menu"})
        /\ IF m.remote.load > 0 THEN Stay(ShowRemote(mm)) ELSE Stay([RemoteForm(m) EXCEPT !.root = "remoteFetch"])
    BY <1>1 DEF GoRemote, Choose
  <2>2. NothingRuns /\ Fits(m) /\ m \in Model /\ m.state = "menu" BY <2>1, Calm
  <2>3. mm \in Model BY <2>2, SetData, Small
  <2>4. ~mm.verify BY <2>2 DEF Fits, Model
  <2> HIDE DEF mm
  <2>5. CASE m.remote.load > 0 BY <2>1, <2>2, <2>3, <2>4, <2>5, ShowsRemote, StaySettled
  <2>6. CASE ~(m.remote.load > 0)
    <3>1. m.state \in Views /\ RemoteForm(m) \in Model BY <2>2, FormFor DEF Views
    <3>2. [RemoteForm(m) EXCEPT !.root = "remoteFetch"] \in Model BY <3>1, SetView DEF Roots
    <3>3. Fits([RemoteForm(m) EXCEPT !.root = "remoteFetch"])
      BY <2>2, <3>1, FormFor DEF Fits, KnowsWayBack, Model
    <3> QED BY <2>1, <2>2, <2>6, <3>2, <3>3, StaySettled
  <2> QED BY <2>5, <2>6
<1>2. ASSUME NewRemote PROVE RootInv'
  <2>1. Key(Trees) /\ m.remote.load > 0 /\ Stay(RemoteForm(m)) BY <1>2 DEF NewRemote, InRemote
  <2>2. NothingRuns /\ Fits(m) /\ m \in Model /\ m.state \in Views BY <2>1, Small, Calm DEF Trees
  <2>3. RemoteForm(m) \in Model /\ Fits(RemoteForm(m)) BY <2>1, <2>2, FormFor DEF Fits, KnowsWayBack
  <2> QED BY <2>1, <2>2, <2>3, StaySettled
<1>3. ASSUME SubmitRemote PROVE RootInv'
  <2>1. PICK t \in Targets : Key({"remoteForm"}) /\ m.form # None /\ Load(m, {}, "remote", t) BY <1>3 DEF SubmitRemote
  <2>2. NothingRuns /\ Fits(m) /\ m \in Model /\ m.popup = None /\ m.state = "remoteForm" BY <2>1, Calm
  <2>3. KnowsWayBack(m) /\ (m.verify => m.form = "remote") BY <2>2 DEF Fits
  <2>4. m.popup \notin Asking BY <2>2, NoneIsNoName DEF Asking
  <2>5. \A c \in pending \ {} : c.kind \notin Exclusive BY <2>2 DEF NothingRuns
  <2> QED BY <2>1, <2>2, <2>3, <2>4, <2>5, LoadWaits
<1>4. ASSUME EscRemoteForm PROVE RootInv'
  <2> DEFINE mm == [m EXCEPT !.form = None]
  <2>1. Key({"remoteForm"}) /\ Stay(LeaveRemoteForm(mm)) BY <1>4 DEF EscRemoteForm
  <2>2. NothingRuns /\ Fits(m) /\ m \in Model /\ m.state = "remoteForm" BY <2>1, Calm
  <2>3. mm \in Model BY <2>2, SetView
  <2>4. KnowsWayBack(mm) BY <2>2 DEF Fits, KnowsWayBack, Model
  <2> HIDE DEF mm
  <2>5. LeaveRemoteForm(mm) \in Model /\ Fits(LeaveRemoteForm(mm)) BY <2>3, <2>4, LeavesForm
  <2> QED BY <2>1, <2>2, <2>5, StaySettled
<1>5. ASSUME TypeRemote PROVE RootInv'
  <2>1. Key({"remoteForm"}) /\ m.form = None /\ Crash BY <1>5 DEF TypeRemote
  <2>2. NothingRuns /\ Fits(m) /\ m \in Model BY <2>1, Calm
  <2>3. ~m.verify BY <2>1, <2>2, NoneIsNoName DEF Fits
  <2> QED BY <2>1, <2>2, <2>3, Crashes
<1> QED BY <1>1, <1>2, <1>3, <1>4, <1>5 DEF RemoteKeys

LEMMA RefetchKeeps ==
  ASSUME RootInv, Refetch PROVE RootInv'
<1> DEFINE mm == [m EXCEPT !.detail = 0]
<1>1. Key(Trees) /\ m.remote.load > 0 /\ LoadUnstoppable(mm, "refetch", m.remote.target)
  BY DEF Refetch, InRemote
<1>2. NothingRuns /\ Fits(m) /\ m \in Model /\ m.popup = None /\ m.state \in Trees BY <1>1, Calm DEF Trees
<1>3. mm \in Model /\ m.remote.target \in Targets \cup {None} BY <1>2, SetData, Small, Fields
<1>4. ~mm.verify /\ mm.popup \notin Asking /\ mm.remote = m.remote
  BY <1>2, NoneIsNoName DEF Fits, Model, Asking, Trees
<1> HIDE DEF mm
<1> QED BY <1>1, <1>2, <1>3, <1>4, UnstoppableWaits

LEMMA FetchAIAKeeps ==
  ASSUME RootInv, FetchAIA PROVE RootInv'
<1> DEFINE nn == [m EXCEPT !.detail = 0]
           mm == View(nn, "loading")
           target == CASE nn.ctx \in cancelled -> None [] nn.ctx \notin cancelled /\ InRemote -> nn.remote.target
                       [] OTHER -> "scan"
<1>1. Key(Trees) /\ Begin(mm, {}, "aia", nn.ctx, target)
  BY DEF FetchAIA, AIACommand
<1>2. NothingRuns /\ Fits(m) /\ m \in Model /\ m.popup = None /\ m.state \in Trees BY <1>1, Calm DEF Trees
<1>3. nn \in Model BY <1>2, SetData, Small
<1>4. mm \in Model BY <1>3, SetView DEF View, Views
<1>5. /\ nn.ctx \in 0..MaxLoads /\ nn.remote.target \in Targets \cup {None}
      /\ nn.root = m.root /\ nn.remote = m.remote /\ ~nn.verify /\ nn.popup = None
  BY <1>2, <1>3, Small, Fields DEF Fits, Trees, Model
<1>6. /\ mm.state = "loading" /\ mm.popup = None /\ ~mm.verify /\ mm.root = m.root /\ mm.remote = m.remote
  BY <1>3, <1>5 DEF View, Model
<1>7. target \in Targets \cup {"scan", None} /\ (InRemote => target \in Targets \cup {None})
  BY <1>5
<1> HIDE DEF nn, mm, target
<1>8. Waits(mm, Cmd("aia", loads + 1, nn.ctx, target))
  BY <1>6, <1>7, NoneIsNoName DEF Waits, Cmd, InRemote, Asking
<1>9. \A c \in pending \ {} : c.kind \notin Exclusive BY <1>2 DEF NothingRuns
<1> QED BY <1>1, <1>4, <1>5, <1>7, <1>8, <1>9, BeginWaits DEF Loaders

LEMMA VerifyKeysKeep ==
  ASSUME RootInv, VerifyKeys PROVE RootInv'
<1>1. ASSUME VerifyPick PROVE RootInv'
  <2>1. Key(Trees) /\ Stay([m EXCEPT !.prevState = m.state, !.state = "verifyPick"])
    BY <1>1 DEF VerifyPick
  <2>2. /\ NothingRuns /\ Fits(m) /\ m \in Model /\ m.popup = None /\ m.state \in Trees
    BY <2>1, Calm DEF Trees
  <2>3. [m EXCEPT !.prevState = m.state, !.state = "verifyPick"] \in Model
    BY <2>2, SetView, SetData, Small, Fields DEF Views, Trees
  <2>4. Fits([m EXCEPT !.prevState = m.state, !.state = "verifyPick"])
    BY <2>1, <2>2, Small DEF Fits, Model, Trees, HasFileForm, KnowsWayBack, Writable, View, Popup
  <2> QED BY <2>1, <2>2, <2>3, <2>4, StaySettled
<1>2. ASSUME VerifyPicked PROVE RootInv'
  <2>1. Key({"verifyPick"}) BY <1>2 DEF VerifyPicked
  <2>2. NothingRuns /\ Fits(m) /\ m \in Model /\ m.state = "verifyPick" /\ m.popup \notin Asking
    BY <2>1, Calm, NoneIsNoName DEF Asking
  <2>3. ASSUME Stay(View(m, m.prevState)) PROVE RootInv'
    <3>1. View(m, m.prevState) \in Model BY <2>2, SetView, Fields DEF View
    <3>2. Fits(View(m, m.prevState)) BY <2>2 DEF Fits, View, Model, Trees
    <3> QED BY <2>2, <2>3, <3>1, <3>2, StaySettled
  <2>4. ASSUME Stay(View(m, "trustVerify")) PROVE RootInv'
    <3>1. View(m, "trustVerify") \in Model BY <2>2, SetView DEF View, Views
    <3>2. Fits(View(m, "trustVerify")) BY <2>2 DEF Fits, View, Model
    <3> QED BY <2>2, <2>4, <3>1, <3>2, StaySettled
  <2>5. ASSUME Stay(RemoteForm([m EXCEPT !.verify = TRUE])) PROVE RootInv'
    <3> DEFINE mm == [m EXCEPT !.verify = TRUE]
    <3>1. mm \in Model BY <2>2, SetData
    <3>2. mm.verify /\ mm.state = "verifyPick" /\ mm.popup \notin Asking BY <2>2 DEF Model
    <3> HIDE DEF mm
    <3>3. mm.state \in Views BY <3>2 DEF Views
    <3>4. RemoteForm(mm) \in Model /\ Fits(RemoteForm(mm))
      BY <3>1, <3>2, <3>3, FormFor DEF Fits, KnowsWayBack
    <3> QED BY <2>2, <2>5, <3>4, StaySettled DEF mm
  <2> QED BY <1>2, <2>3, <2>4, <2>5 DEF VerifyPicked
<1>3. ASSUME LeaveVerify PROVE RootInv'
  <2> DEFINE mm == [m EXCEPT !.verdict = FALSE]
             nn == [mm EXCEPT !.root = "trustStore"]
  <2>1. Key({"trustVerify"}) BY <1>3 DEF LeaveVerify
  <2>2. NothingRuns /\ Fits(m) /\ m \in Model /\ m.state = "trustVerify" BY <2>1, Calm
  <2>3. mm \in Model /\ nn \in Model BY <2>2, SetView, SetData DEF Roots
  <2>4. ~mm.verify /\ ~nn.verify BY <2>2, <2>3 DEF Fits, Model
  <2>5. Stay(ShowRemote(mm)) \/ Stay(View(RebuildTrust(nn), "tree")) \/ Stay(View(mm, "tree"))
    BY <1>3 DEF LeaveVerify
  <2> HIDE DEF mm, nn
  <2>6. RebuildTrust(nn) \in Model /\ ~RebuildTrust(nn).verify BY <2>3, <2>4, Rebuilds, TrustFields
  <2> QED BY <2>2, <2>3, <2>4, <2>5, <2>6, ShowsRemote, GoesToTree, StaySettled
<1> QED BY <1>1, <1>2, <1>3 DEF VerifyKeys

\* Filling in verdicts touches no view, and loading the stores for them overlaps nothing.
LEMMA MarkedFits ==
  ASSUME NEW mm, NEW x, Marked(mm, x), Fits(mm) PROVE x \in Model /\ Fits(x)
BY DEF Marked, Undisturbed, Fits, HasFileForm, KnowsWayBack

LEMMA EnsureSettles ==
  ASSUME RootInv, NEW mm \in Model, Fits(mm), NEW done, \A c \in pending \ done : c.kind \notin Exclusive,
         Go(Ensured(mm), done, EnsureCmds(mm)), UNCHANGED loads
  PROVE  RootInv'
<1>1. /\ m' = Ensured(mm) /\ pending' = (pending \ done) \cup EnsureCmds(mm)
      /\ UNCHANGED <<loads, cancelled, quit>>
  BY DEF Go
<1>2. Ensured(mm) \in Model /\ Fits(Ensured(mm)) BY Marks, MarkedFits
<1>3. \A c \in EnsureCmds(mm) : c \in Command /\ c.kind = "listerTrust"
  BY Small, Fields DEF EnsureCmds, Cmd, Command, Kinds
<1>4. pending' \subseteq Command /\ loads' \in 1..MaxLoads
  BY <1>1, <1>3 DEF RootInv, TypeOK
<1>5. \A c \in pending' : c.kind \notin Exclusive /\ c.kind # "proxy"
  BY <1>1, <1>3 DEF RootInv, Running, Exclusive, Loaders
<1> QED BY <1>1, <1>2, <1>4, <1>5, Settle

LEMMA ColumnKeysKeep ==
  ASSUME RootInv, OpenColumns \/ ToggleColumn \/ CloseEditor PROVE RootInv'
<1>1. ASSUME OpenColumns PROVE RootInv'
  <2>1. Key(Trees) /\ Stay([m EXCEPT !.back = m.state, !.state = "columnEditor"])
    BY <1>1 DEF OpenColumns
  <2>2. /\ NothingRuns /\ Fits(m) /\ m \in Model /\ m.popup = None /\ m.state \in Trees
    BY <2>1, Calm DEF Trees
  <2>3. [m EXCEPT !.back = m.state, !.state = "columnEditor"] \in Model
    BY <2>2, SetView, SetData, Small, Fields DEF Views, Trees
  <2>4. Fits([m EXCEPT !.back = m.state, !.state = "columnEditor"])
    BY <2>1, <2>2, Small DEF Fits, Model, Trees, HasFileForm, KnowsWayBack, Writable, View, Popup
  <2> QED BY <2>1, <2>2, <2>3, <2>4, StaySettled
<1>2. ASSUME ToggleColumn PROVE RootInv'
  <2> DEFINE mm == [m EXCEPT !.columns = ~m.columns]
             shown == IF InTrust THEN Convert(mm) ELSE Decorate(mm)
  <2>1. /\ Key({"columnEditor"})
        /\ Crash \/ (Go(Ensured(shown), {}, EnsureCmds(shown)) /\ UNCHANGED loads)
    BY <1>2 DEF ToggleColumn
  <2>2. NothingRuns /\ Fits(m) /\ m \in Model /\ m.state = "columnEditor" BY <2>1, Calm
  <2>3. mm \in Model BY <2>2, SetData, Fields
  <2>4. mm.state = "columnEditor" /\ ~mm.verify /\ ~m.verify BY <2>2 DEF Fits, Model
  <2> HIDE DEF mm
  <2>5. Fits(mm) BY <2>4 DEF Fits
  <2>6. shown \in Model /\ Fits(shown) BY <2>3, <2>5, Marks, MarkedFits
  <2>7. \A c \in pending \ {} : c.kind \notin Exclusive BY <2>2 DEF NothingRuns
  <2> HIDE DEF shown
  <2> QED BY <2>1, <2>2, <2>4, <2>6, <2>7, Crashes, EnsureSettles
<1>3. ASSUME CloseEditor PROVE RootInv'
  <2>1. Key({"columnEditor", "options"}) /\ Stay(View(m, m.back))
    BY <1>3 DEF CloseEditor
  <2>2. /\ NothingRuns /\ Fits(m) /\ m \in Model /\ m.popup = None /\ m.state \in {"columnEditor", "options"}
    BY <2>1, Calm DEF Trees
  <2>3. View(m, m.back) \in Model
    BY <2>2, SetView, SetData, Small, Fields DEF View, Views, Trees
  <2>4. Fits(View(m, m.back))
    BY <2>1, <2>2, Small DEF Fits, Model, Trees, HasFileForm, KnowsWayBack, Writable, View, Popup
  <2> QED BY <2>1, <2>2, <2>3, <2>4, StaySettled
<1> QED BY <1>1, <1>2, <1>3

LEMMA OptionKeysKeep ==
  ASSUME RootInv, OpenOptions \/ ApplyOptions PROVE RootInv'
<1>1. ASSUME OpenOptions PROVE RootInv'
  <2>1. Key(Trees) /\ Stay([m EXCEPT !.back = m.state, !.state = "options"])
    BY <1>1 DEF OpenOptions
  <2>2. /\ NothingRuns /\ Fits(m) /\ m \in Model /\ m.popup = None /\ m.state \in Trees
    BY <2>1, Calm DEF Trees
  <2>3. [m EXCEPT !.back = m.state, !.state = "options"] \in Model
    BY <2>2, SetView, SetData, Small, Fields DEF Views, Trees
  <2>4. Fits([m EXCEPT !.back = m.state, !.state = "options"])
    BY <2>1, <2>2, Small DEF Fits, Model, Trees, HasFileForm, KnowsWayBack, Writable, View, Popup
  <2> QED BY <2>1, <2>2, <2>3, <2>4, StaySettled
<1>2. ASSUME ApplyOptions PROVE RootInv'
  <2> DEFINE mm == View(m, m.back)
             nn == [mm EXCEPT !.detail = 0]
  <2>1. Key({"options"}) BY <1>2 DEF ApplyOptions
  <2>2. NothingRuns /\ Fits(m) /\ m \in Model /\ m.state = "options" /\ m.popup = None BY <2>1, Calm
  <2>3. mm \in Model /\ nn \in Model BY <2>2, SetView, SetData, Fields, Small DEF View
  <2>4. /\ mm.state \in Trees /\ nn.state \in Trees /\ ~mm.verify /\ ~nn.verify /\ mm.popup \notin Asking
    BY <2>2, <2>3, Fields, NoneIsNoName DEF Fits, Model, View, Asking
  <2>5. Stay(RebuildTrust(nn)) \/ Load(mm, {}, "scan", None) \/ Stay(Convert(nn))
    BY <1>2 DEF ApplyOptions
  <2> HIDE DEF mm, nn
  <2>6. RebuildTrust(nn) \in Model /\ Fits(RebuildTrust(nn))
    BY <2>3, <2>4, Rebuilds, TrustFields DEF Fits, Trees
  <2>7. Fits(nn) BY <2>4 DEF Fits, Trees
  <2>8. Convert(nn) \in Model /\ Fits(Convert(nn)) BY <2>3, <2>7, Marks, MarkedFits
  <2>9. \A c \in pending \ {} : c.kind \notin Exclusive BY <2>2 DEF NothingRuns
  <2> QED BY <2>2, <2>3, <2>4, <2>5, <2>6, <2>8, <2>9, LoadWaits, StaySettled
<1> QED BY <1>1, <1>2

LEMMA MenuKeysKeep ==
  ASSUME RootInv, OpenFunctions \/ OpenActions \/ CloseMenu \/ GoLister \/ GoPacket PROVE RootInv'
<1>1. ASSUME OpenFunctions PROVE RootInv'
  <2> DEFINE mm == [m EXCEPT !.prevState = m.state, !.menu = "functions", !.state = "menu"]
  <2>1. Key(Trees \cup {"packetAnalyzer"}) /\ Stay(mm) BY <1>1 DEF OpenFunctions, OpenMenu
  <2>2. NothingRuns /\ Fits(m) /\ m \in Model /\ m.state \in Trees \cup {"packetAnalyzer"} BY <2>1, Calm DEF Trees
  <2>3. mm \in Model BY <2>2, SetView DEF Views, Trees
  <2>4. Fits(mm) BY <2>1, <2>2, NoneIsNoName DEF Fits, Model, Trees, Writable
  <2> QED BY <2>1, <2>2, <2>3, <2>4, StaySettled
<1>2. ASSUME OpenActions PROVE RootInv'
  <2> DEFINE mm == [m EXCEPT !.prevState = m.state, !.menu = "actions", !.state = "menu"]
  <2>1. Key(Trees) /\ Stay(mm) /\ Writable(m) BY <1>2 DEF OpenActions, OpenMenu
  <2>2. NothingRuns /\ Fits(m) /\ m \in Model /\ m.state \in Trees BY <2>1, Calm DEF Trees
  <2>3. mm \in Model BY <2>2, SetView DEF Views, Trees
  <2>4. Fits(mm) BY <2>1, <2>2, NoneIsNoName DEF Fits, Model, Trees, Writable
  <2> QED BY <2>1, <2>2, <2>3, <2>4, StaySettled
<1>3. ASSUME CloseMenu PROVE RootInv'
  <2>1. Key({"menu"}) /\ Stay(View(m, m.prevState))
    BY <1>3 DEF CloseMenu
  <2>2. /\ NothingRuns /\ Fits(m) /\ m \in Model /\ m.popup = None /\ m.state \in {"menu"}
    BY <2>1, Calm DEF Trees
  <2>3. View(m, m.prevState) \in Model
    BY <2>2, SetView, SetData, Small, Fields DEF View, Views, Trees
  <2>4. Fits(View(m, m.prevState))
    BY <2>1, <2>2, Small DEF Fits, Model, Trees, HasFileForm, KnowsWayBack, Writable, View, Popup
  <2> QED BY <2>1, <2>2, <2>3, <2>4, StaySettled
<1>4. ASSUME GoLister PROVE RootInv'
  <2>1. Key({"menu"}) /\ Load([m EXCEPT !.root = "certLister", !.columns = TrustColumn, !.detail = 0], {}, "scan", None)
    BY <1>4 DEF GoLister, Choose
  <2>2. /\ NothingRuns /\ Fits(m) /\ m \in Model /\ m.popup = None /\ m.state \in {"menu"}
    BY <2>1, Calm DEF Trees
  <2>3. [m EXCEPT !.root = "certLister", !.columns = TrustColumn, !.detail = 0] \in Model
    BY <2>2, SetView, SetData, Small, Fields, RootAssumption DEF Roots
  <2>4. ~[m EXCEPT !.root = "certLister", !.columns = TrustColumn, !.detail = 0].verify /\ [m EXCEPT !.root = "certLister", !.columns = TrustColumn, !.detail = 0].popup \notin Asking
    BY <2>2, NoneIsNoName DEF Fits, Model, Trees, Asking
  <2> QED BY <2>1, <2>2, <2>3, <2>4, LoadWaits DEF NothingRuns
<1>5. ASSUME GoPacket PROVE RootInv'
  <2>1. Key({"menu"}) /\ Stay([m EXCEPT !.root = "packetAnalyzer", !.state = "packetAnalyzer"])
    BY <1>5 DEF GoPacket, Choose
  <2>2. /\ NothingRuns /\ Fits(m) /\ m \in Model /\ m.popup = None /\ m.state \in {"menu"}
    BY <2>1, Calm DEF Trees
  <2>3. [m EXCEPT !.root = "packetAnalyzer", !.state = "packetAnalyzer"] \in Model
    BY <2>2, SetView, SetData, Small, Fields DEF Views, Roots
  <2>4. Fits([m EXCEPT !.root = "packetAnalyzer", !.state = "packetAnalyzer"])
    BY <2>1, <2>2, Small DEF Fits, Model, Trees, HasFileForm, KnowsWayBack, Writable, View, Popup
  <2> QED BY <2>1, <2>2, <2>3, <2>4, StaySettled
<1> QED BY <1>1, <1>2, <1>3, <1>4, <1>5

LEMMA FileKeysKeep ==
  ASSUME RootInv, Unlock \/ ChooseForm \/ SubmitForm \/ LeaveForm \/ DeleteFile PROVE RootInv'
<1>1. ASSUME Unlock PROVE RootInv'
  <2>1. ASSUME Key(Trees), Stay([m EXCEPT !.prevState = m.state, !.state = "password"]) PROVE RootInv'
    <3> DEFINE mm == [m EXCEPT !.prevState = m.state, !.state = "password"]
    <3>1. NothingRuns /\ Fits(m) /\ m \in Model /\ m.state \in Trees BY <2>1, Calm DEF Trees
    <3>2. mm \in Model BY <3>1, SetView DEF Views, Trees
    <3>3. Fits(mm) BY <3>1 DEF Fits, Model, Trees
    <3> QED BY <2>1, <3>1, <3>2, <3>3, StaySettled
  <2>2. ASSUME Key({"password"}), LoadUnstoppable(m, "unlock", None) PROVE RootInv'
    <3>1. NothingRuns /\ Fits(m) /\ m \in Model /\ m.popup = None /\ ~m.verify BY <2>2, Calm DEF Fits
    <3>2. m.popup \notin Asking BY <3>1, NoneIsNoName DEF Asking
    <3> QED BY <2>2, <3>1, <3>2, UnstoppableWaits
  <2>3. ASSUME Key({"password"}), Stay(View(m, m.prevState)) PROVE RootInv'
    <3>1. NothingRuns /\ Fits(m) /\ m \in Model /\ m.state = "password" BY <2>3, Calm
    <3>2. View(m, m.prevState) \in Model BY <3>1, SetView, Fields DEF View
    <3>3. Fits(View(m, m.prevState)) BY <3>1 DEF Fits, Model, Trees, View
    <3> QED BY <2>3, <3>1, <3>2, <3>3, StaySettled
  <2> QED BY <1>1, <2>1, <2>2, <2>3 DEF Unlock
<1>2. ASSUME ChooseForm PROVE RootInv'
  <2> DEFINE mm == [m EXCEPT !.form = "file", !.state = "form"]
  <2>1. Key({"menu"}) /\ m.menu = "actions" /\ Stay(mm) BY <1>2 DEF ChooseForm, Choose
  <2>2. NothingRuns /\ Fits(m) /\ m \in Model /\ m.state = "menu" BY <2>1, Calm
  <2>3. mm \in Model BY <2>2, SetView DEF Views
  <2>4. Fits(mm) BY <2>1, <2>2, NoneIsNoName DEF Fits, Model, HasFileForm
  <2> QED BY <2>1, <2>2, <2>3, <2>4, StaySettled
<1>3. ASSUME SubmitForm PROVE RootInv'
  <2>1. Key({"form"}) /\ LoadUnstoppable(m, "submit", None) BY <1>3 DEF SubmitForm
  <2>2. NothingRuns /\ m \in Model /\ m.popup = None /\ ~m.verify /\ HasFileForm(m) BY <2>1, Calm DEF Fits
  <2>3. m.popup \notin Asking BY <2>2, NoneIsNoName DEF Asking
  <2> QED BY <2>1, <2>2, <2>3, UnstoppableWaits
<1>4. ASSUME LeaveForm PROVE RootInv'
  <2> DEFINE mm == [m EXCEPT !.form = None, !.state = m.prevState]
  <2>1. Key({"form"}) /\ Stay(mm) BY <1>4 DEF LeaveForm
  <2>2. NothingRuns /\ Fits(m) /\ m \in Model /\ m.state = "form" BY <2>1, Calm
  <2>3. mm \in Model BY <2>2, SetView, Fields
  <2>4. Fits(mm) BY <2>2 DEF Fits, Model, HasFileForm, Trees
  <2> QED BY <2>1, <2>2, <2>3, <2>4, StaySettled
<1>5. ASSUME DeleteFile PROVE RootInv'
  <2> DEFINE mm == [m EXCEPT !.detail = 0]
             nn == Popup(View(m, "tree"), "error")
  <2>1. Key(Trees) /\ (Stay(nn) \/ Load(mm, {}, "scan", None)) BY <1>5 DEF DeleteFile
  <2>2. NothingRuns /\ Fits(m) /\ m \in Model /\ m.popup = None /\ m.state \in Trees BY <2>1, Calm DEF Trees
  <2>3. mm \in Model /\ nn \in Model
    BY <2>2, SetView, SetData, Small, GoesToTree DEF Popup, View, Views, Trees
  <2>4. ~mm.verify /\ mm.popup \notin Asking BY <2>2, NoneIsNoName DEF Fits, Model, Asking, Trees
  <2>5. Fits(nn) BY <2>2 DEF Fits, Model, Trees, Popup, View
  <2>6. \A c \in pending \ {} : c.kind \notin Exclusive BY <2>2 DEF NothingRuns
  <2> HIDE DEF mm, nn
  <2> QED BY <2>1, <2>2, <2>3, <2>4, <2>5, <2>6, StaySettled, LoadWaits
<1> QED BY <1>1, <1>2, <1>3, <1>4, <1>5

LEMMA SelectKeysKeep ==
  ASSUME RootInv, SelectKeys PROVE RootInv'
<1>1. ASSUME OpenMultiSelect PROVE RootInv'
  <2>1. Key(Trees) /\ Stay([m EXCEPT !.back = m.state, !.state = "multiSelect"]) /\ Writable(m)
    BY <1>1 DEF OpenMultiSelect
  <2>2. /\ NothingRuns /\ Fits(m) /\ m \in Model /\ m.popup = None /\ m.state \in Trees
    BY <2>1, Calm DEF Trees
  <2>3. [m EXCEPT !.back = m.state, !.state = "multiSelect"] \in Model
    BY <2>2, SetView, SetData, Small, Fields DEF Views, Trees
  <2>4. Fits([m EXCEPT !.back = m.state, !.state = "multiSelect"])
    BY <2>1, <2>2, Small DEF Fits, Model, Trees, HasFileForm, KnowsWayBack, Writable, View, Popup
  <2> QED BY <2>1, <2>2, <2>3, <2>4, StaySettled
<1>2. ASSUME LeaveMultiSelect PROVE RootInv'
  <2>1. Key({"multiSelect"}) /\ Stay(View(m, m.back))
    BY <1>2 DEF LeaveMultiSelect
  <2>2. /\ NothingRuns /\ Fits(m) /\ m \in Model /\ m.popup = None /\ m.state \in {"multiSelect"}
    BY <2>1, Calm DEF Trees
  <2>3. View(m, m.back) \in Model
    BY <2>2, SetView, SetData, Small, Fields DEF View, Views, Trees
  <2>4. Fits(View(m, m.back))
    BY <2>1, <2>2, Small DEF Fits, Model, Trees, HasFileForm, KnowsWayBack, Writable, View, Popup
  <2> QED BY <2>1, <2>2, <2>3, <2>4, StaySettled
<1>3. ASSUME Bundle PROVE RootInv'
  <2> DEFINE mm == [m EXCEPT !.form = "file", !.prevState = "multiSelect", !.state = "form"]
  <2>1. Key({"multiSelect"}) /\ Stay(mm) BY <1>3 DEF Bundle
  <2>2. NothingRuns /\ Fits(m) /\ m \in Model /\ m.state = "multiSelect" BY <2>1, Calm
  <2>3. mm \in Model BY <2>2, SetView DEF Views
  <2>4. Fits(mm) BY <2>2, NoneIsNoName DEF Fits, Model, HasFileForm
  <2> QED BY <2>1, <2>2, <2>3, <2>4, StaySettled
<1>4. ASSUME DeleteSelected PROVE RootInv'
  <2> DEFINE mm == [m EXCEPT !.popup = "confirm", !.deleting = TRUE]
  <2>1. Key({"multiSelect"}) /\ Stay(mm) BY <1>4 DEF DeleteSelected
  <2>2. NothingRuns /\ Fits(m) /\ m \in Model /\ m.state = "multiSelect" BY <2>1, Calm
  <2>3. mm \in Model BY <2>2, SetView, SetData
  <2>4. Fits(mm) BY <2>2 DEF Fits, Model
  <2> QED BY <2>1, <2>2, <2>3, <2>4, StaySettled
<1> QED BY <1>1, <1>2, <1>3, <1>4 DEF SelectKeys

\* A question is asked where nothing runs that must not overlap.
LEMMA Asked ==
  ASSUME RootInv, m.popup \in Asking PROVE NothingRuns /\ Fits(m) /\ m \in Model /\ ~m.verify
BY DEF RootInv, Running, NothingRuns, Exclusive, Waits, Fits, TypeOK

\* A command that may run beside others leaves the view as it is.
LEMMA BeginBeside ==
  ASSUME RootInv, NothingRuns, NEW mm \in Model, Fits(mm), NEW kind \in {"saveAll", "shell"},
         Begin(mm, {}, kind, 0, None), kind = "shell" => mm.popup \notin Asking /\ ~mm.verify
  PROVE  RootInv'
<1> DEFINE c == Cmd(kind, loads + 1, 0, None)
<1>1. loads < MaxLoads /\ loads' = loads + 1 /\ m' = mm /\ pending' = pending \cup {c} /\ UNCHANGED <<cancelled, quit>>
  BY DEF Begin, Go
<1>2. kind \in Kinds BY DEF Kinds
<1>3. c \in Command /\ loads' \in 1..MaxLoads BY <1>1, <1>2, Small, Commands
<1>4. c.kind = kind /\ c.kind \notin Loaders /\ c.kind # "proxy" BY DEF Cmd, Loaders
<1>5. TypeOK' BY <1>1, <1>3 DEF RootInv, TypeOK
<1> HIDE DEF c
<1>6. \A d \in pending' : d = c \/ (d.kind \notin Exclusive /\ d.kind # "proxy")
  BY <1>1 DEF RootInv, Running, NothingRuns
<1>7. Running' BY <1>1, <1>4, <1>6 DEF Running, Exclusive, Fits, HasFileForm, KnowsWayBack
<1> QED BY <1>5, <1>7 DEF RootInv

LEMMA PopupFits ==
  ASSUME NEW mm \in Model, Fits(mm), NEW kind \in {"error", "confirm", "shell", None},
         kind \in Asking => ~mm.verify
  PROVE  Popup(mm, kind) \in Model /\ Fits(Popup(mm, kind)) /\ Popup(mm, kind).popup = kind
<1>1. Popup(mm, kind) \in Model BY SetView DEF Popup
<1> QED BY <1>1 DEF Popup, Fits, Model, HasFileForm, KnowsWayBack

LEMMA PopupKeysKeep ==
  ASSUME RootInv, Shell \/ SaveAll \/ Confirm \/ Decline \/ Dismiss PROVE RootInv'
<1>1. ASSUME Shell PROVE RootInv'
  <2>1. ASSUME Key(Trees), Stay(Popup(m, "shell")) PROVE RootInv'
    <3>1. NothingRuns /\ Fits(m) /\ m \in Model /\ ~m.verify BY <2>1, Calm DEF Fits, Trees
    <3> QED BY <2>1, <3>1, PopupFits, StaySettled
  <2>2. ASSUME m.popup = "shell", Stay(Popup(m, None)) \/ Begin(Popup(m, None), {}, "shell", 0, None) PROVE RootInv'
    <3>1. NothingRuns /\ Fits(m) /\ m \in Model /\ ~m.verify BY <2>2, Asked DEF Asking
    <3>2. Popup(m, None) \in Model /\ Fits(Popup(m, None)) /\ Popup(m, None).popup \notin Asking
      BY <3>1, PopupFits, NoneIsNoName DEF Asking
    <3>3. ~Popup(m, None).verify BY <3>1 DEF Popup, Model
    <3> QED BY <2>2, <3>1, <3>2, <3>3, StaySettled, BeginBeside
  <2> QED BY <1>1, <2>1, <2>2 DEF Shell
<1>2. ASSUME SaveAll PROVE RootInv'
  <2> DEFINE mm == [m EXCEPT !.popup = "confirm", !.confirm = "saveAll"]
  <2>1. Key(Trees) /\ Stay(mm) BY <1>2 DEF SaveAll
  <2>2. NothingRuns /\ Fits(m) /\ m \in Model /\ m.state \in Trees BY <2>1, Calm DEF Trees
  <2>3. mm \in Model BY <2>2, SetView
  <2>4. Fits(mm) BY <2>2 DEF Fits, Model, Trees
  <2> QED BY <2>1, <2>2, <2>3, <2>4, StaySettled
<1>3. ASSUME Confirm PROVE RootInv'
  <2> DEFINE mm == Popup(m, None)
             aa == [mm EXCEPT !.confirm = None]
             dd == [mm EXCEPT !.deleting = FALSE, !.detail = 0]
             ee == [mm EXCEPT !.deleting = FALSE, !.popup = "error", !.state = m.back]
  <2>1. NothingRuns /\ Fits(m) /\ m \in Model /\ ~m.verify BY <1>3, Asked DEF Confirm, Asking
  <2>2. mm \in Model /\ Fits(mm) /\ mm.popup = None /\ ~mm.verify
    <3>1. mm \in Model /\ Fits(mm) /\ mm.popup = None BY <2>1, PopupFits
    <3> QED BY <2>1, <3>1 DEF Popup, Model
  <2>3. m.confirm \in {"saveAll", None} /\ m.back \in Trees BY <2>1 DEF Model
  <2>4. \/ m.confirm = "saveAll" /\ Begin(aa, {}, "saveAll", 0, None)
        \/ Load(dd, {}, "scan", None)
        \/ Stay(ee)
    BY <1>3, <2>3 DEF Confirm
  <2> HIDE DEF mm
  <2>5. aa \in Model /\ Fits(aa)
    <3>1. aa \in Model BY <2>2, SetView
    <3> QED BY <2>2, <3>1 DEF Fits, Model, HasFileForm, KnowsWayBack
  <2>6. dd \in Model BY <2>2, SetData, Small
  <2>7. ee \in Model
    <3>1. [[mm EXCEPT !.deleting = FALSE] EXCEPT !.popup = "error"] \in Model BY <2>2, SetView, SetData
    <3> QED BY <2>3, <3>1, SetView, Small
  <2>8. ASSUME Stay(ee) PROVE RootInv'
    <3>1. Fits(ee) BY <2>2, <2>3 DEF Fits, Model, Trees
    <3> QED BY <2>1, <2>7, <2>8, <3>1, StaySettled
  <2>9. ASSUME Load(dd, {}, "scan", None) PROVE RootInv'
    <3>1. ~dd.verify BY <2>2 DEF Model
    <3>2. dd.popup \notin Asking BY <2>2, NoneIsNoName DEF Model, Asking
    <3>3. \A c \in pending \ {} : c.kind \notin Exclusive BY <2>1 DEF NothingRuns
    <3> QED BY <2>6, <2>9, <3>1, <3>2, <3>3, LoadWaits
  <2> QED BY <2>1, <2>4, <2>5, <2>8, <2>9, BeginBeside
<1>4. ASSUME Decline PROVE RootInv'
  <2> DEFINE mm == [m EXCEPT !.popup = None, !.confirm = None, !.deleting = FALSE]
  <2>1. m.popup = "confirm" /\ Stay(mm) BY <1>4 DEF Decline
  <2>2. NothingRuns /\ Fits(m) /\ m \in Model /\ ~m.verify BY <2>1, Asked DEF Asking
  <2>3. mm \in Model BY <2>2, SetView, SetData
  <2>4. Fits(mm) BY <2>2 DEF Fits, Model, HasFileForm, KnowsWayBack
  <2> QED BY <2>1, <2>2, <2>3, <2>4, StaySettled
<1>5. ASSUME Dismiss PROVE RootInv'
  <2>1. m' = Popup(m, None) /\ UNCHANGED <<pending, loads, cancelled, quit>>
    BY <1>5 DEF Dismiss, Stay, Go
  <2>2. m \in Model BY DEF RootInv, TypeOK
  <2>3. Popup(m, None).popup = None /\ Undisturbed(m, Popup(m, None))
    <3>1. Popup(m, None) \in Model BY <2>2, SetView DEF Popup
    <3> QED BY <2>2, <3>1 DEF Popup, Undisturbed, Model
  <2> QED BY <2>1, <2>3, NoneIsNoName, Beside DEF Asking
<1> QED BY <1>1, <1>2, <1>3, <1>4, <1>5

-----------------------------------------------------------------------------
(* Results.                                                                *)

LEMMA Alone ==
  ASSUME RootInv, NEW c \in pending, c.kind \in Exclusive
  PROVE  \A d \in pending \ {c} : d.kind \notin Exclusive
BY DEF RootInv, Running

LEMMA Awaited ==
  ASSUME RootInv, NEW c \in pending, c.kind \in Loaders
  PROVE  /\ Waits(m, c) /\ m \in Model /\ c \in Command /\ m.popup \notin Asking
         /\ \A d \in pending \ {c} : d.kind \notin Exclusive
<1>1. \A d \in pending \ {c} : d.kind \notin Exclusive BY Alone DEF Exclusive
<1> QED BY <1>1 DEF RootInv, Running, TypeOK, Waits

LEMMA FinishSettles ==
  ASSUME RootInv, NEW c \in pending, \A d \in pending \ {c} : d.kind \notin Exclusive,
         NEW mm \in Model, Fits(mm), Finish(mm, c)
  PROVE  RootInv'
<1>1. m' = mm /\ pending' = pending \ {c} /\ UNCHANGED <<loads, cancelled, quit>> BY DEF Finish, Go
<1>2. /\ pending' \subseteq Command /\ loads' \in 1..MaxLoads
      /\ \A d \in pending' : d.kind \notin Exclusive /\ d.kind # "proxy"
  BY <1>1 DEF RootInv, TypeOK, Running
<1> QED BY <1>1, <1>2, Settle

LEMMA ScanResultKeeps ==
  ASSUME RootInv, NEW c \in pending, c.kind = "scan", ScanResult(c) PROVE RootInv'
<1> DEFINE mm == [m EXCEPT !.rows = [owner |-> "scan", load |-> c.load, aia |-> None, judged |-> 0], !.state = "tree"]
<1>1. /\ Waits(m, c) /\ m \in Model /\ c \in Command
      /\ \A d \in pending \ {c} : d.kind \notin Exclusive
  BY Awaited DEF Loaders
<1>2. ~m.verify BY <1>1 DEF Waits
<1>3. mm \in Model
  <2>1. "scan" \in Owners /\ c.load \in 0..MaxLoads /\ None \in Targets \cup {"scan", None} /\ 0 \in 0..MaxLoads
    BY <1>1, Small DEF Owners, Command
  <2>2. [m EXCEPT !.rows = [owner |-> "scan", load |-> c.load, aia |-> None, judged |-> 0]] \in Model
    BY <1>1, <2>1, SetData
  <2> QED BY <2>2, SetView DEF Views, Trees
<1>4. Fits(mm) BY <1>1, <1>2, <1>3 DEF Fits, Model
<1>5. Finish(View(m, "tree"), c) \/ (Go(Ensured(mm), {c}, EnsureCmds(mm)) /\ UNCHANGED loads) BY DEF ScanResult
<1> HIDE DEF mm
<1> QED BY <1>1, <1>2, <1>3, <1>4, <1>5, GoesToTree, FinishSettles, EnsureSettles

LEMMA RemoteResultKeeps ==
  ASSUME RootInv, NEW c \in pending, c.kind \in {"remote", "refetch"}, RemoteResult(c) PROVE RootInv'
<1>1. /\ Waits(m, c) /\ m \in Model /\ c \in Command /\ m.popup \notin Asking
      /\ \A d \in pending \ {c} : d.kind \notin Exclusive
  BY Awaited DEF Loaders
<1>2. /\ KnowsWayBack(m) /\ c.target \in Targets \cup {None} /\ c.load \in 0..MaxLoads
      /\ m.verify => m.form = "remote"
  BY <1>1 DEF Waits, Command
<1>3. View(m, "remoteForm") \in Model /\ Fits(View(m, "remoteForm"))
  <2>1. View(m, "remoteForm") \in Model BY <1>1, SetView DEF View, Views
  <2> QED BY <1>1, <1>2, <2>1 DEF Fits, View, Model, KnowsWayBack
<1>4. Popup(View(m, "remoteForm"), "error") \in Model /\ Fits(Popup(View(m, "remoteForm"), "error"))
  BY <1>3, PopupFits DEF Asking
<1>5. Fetched(c) \in Model /\ Fits(Fetched(c))
  <2> DEFINE nn == [m EXCEPT !.remote = [load |-> c.load, target |-> c.target], !.form = None, !.root = "remoteFetch"]
             mm == RebuildRemote(nn)
             vv == [mm EXCEPT !.verify = FALSE, !.verdict = TRUE, !.state = "trustVerify"]
  <2>1. nn \in Model
    <3>1. [m EXCEPT !.remote = [load |-> c.load, target |-> c.target]] \in Model BY <1>1, <1>2, SetData
    <3>2. [[m EXCEPT !.remote = [load |-> c.load, target |-> c.target]] EXCEPT !.form = None] \in Model
      BY <3>1, SetView
    <3> QED BY <3>2, SetView DEF Roots
  <2>2. nn.verify = m.verify BY <1>1 DEF Model
  <2> HIDE DEF nn
  <2>3. mm \in Model /\ mm.verify = m.verify BY <2>1, <2>2, Rebuilds, RemoteFields
  <2>4. Fetched(c) = IF m.verify THEN vv ELSE View(mm, "tree") BY DEF Fetched, nn
  <2> HIDE DEF mm
  <2>5. vv \in Model
    <3>1. [mm EXCEPT !.verify = FALSE] \in Model BY <2>3, SetData
    <3>2. [[mm EXCEPT !.verify = FALSE] EXCEPT !.verdict = TRUE] \in Model BY <3>1, SetData
    <3> QED BY <3>2, SetView DEF Views
  <2>6. Fits(vv) BY <2>3 DEF Fits, Model
  <2> HIDE DEF vv
  <2> QED BY <2>3, <2>4, <2>5, <2>6, GoesToTree
<1> QED BY <1>1, <1>3, <1>4, <1>5, FinishSettles DEF RemoteResult

LEMMA TrustResultKeeps ==
  ASSUME RootInv, NEW c \in pending, c.kind = "trust", TrustResult(c) PROVE RootInv'
<1> DEFINE cc == [m EXCEPT !.root = "certLister", !.columns = TrustColumn, !.state = "tree"]
           nn == [m EXCEPT !.stores = c.load]
<1>1. /\ Waits(m, c) /\ m \in Model /\ c \in Command
      /\ \A d \in pending \ {c} : d.kind \notin Exclusive
  BY Awaited DEF Loaders
<1>2. ~m.verify /\ c.load \in 0..MaxLoads BY <1>1 DEF Waits, Command
<1>3. cc \in Model
  <2>1. [m EXCEPT !.root = "certLister"] \in Model BY <1>1, SetView DEF Roots
  <2>2. [[m EXCEPT !.root = "certLister"] EXCEPT !.columns = TrustColumn] \in Model BY <2>1, SetData, RootAssumption
  <2> QED BY <2>2, SetView DEF Views, Trees
<1>4. Fits(cc) BY <1>1, <1>2 DEF Fits, Model
<1>5. nn \in Model BY <1>1, <1>2, SetData
<1>6. ~nn.verify BY <1>1, <1>2 DEF Model
<1>7. Finish(cc, c) \/ Finish(View(m, "tree"), c) \/ Finish(View(RebuildTrust(nn), "tree"), c)
  BY DEF TrustResult, TrustCancelled
<1> HIDE DEF cc, nn
<1>8. RebuildTrust(nn) \in Model /\ ~RebuildTrust(nn).verify BY <1>5, <1>6, Rebuilds, TrustFields
<1> QED BY <1>1, <1>2, <1>3, <1>4, <1>7, <1>8, GoesToTree, FinishSettles

LEMMA BesidesKeep ==
  ASSUME RootInv, NEW c \in pending, c.kind \notin Exclusive, NEW mm, Undisturbed(m, mm),
         mm.popup \in {m.popup, "error"}, Finish(mm, c)
  PROVE  RootInv'
<1>1. m' = mm /\ pending' = pending \ {c} /\ UNCHANGED <<loads, cancelled, quit>> BY DEF Finish, Go
<1>2. pending' \subseteq pending /\ \A d \in pending \ pending' : d.kind \notin Exclusive BY <1>1
<1>3. mm.popup \in Asking => mm.popup = m.popup BY DEF Asking
<1> QED BY <1>1, <1>2, <1>3, Beside

LEMMA BesideResultsKeep ==
  ASSUME RootInv, NEW c \in pending,
         (c.kind = "listerTrust" /\ ListerTrustResult(c)) \/ (c.kind = "saveAll" /\ SaveAllResult(c))
  PROVE  RootInv'
<1> DEFINE nn == [m EXCEPT !.stores = c.load]
<1>1. c.kind \notin Exclusive BY DEF Exclusive, Loaders
<1>2. m \in Model /\ c.load \in 0..MaxLoads BY DEF RootInv, TypeOK, Command
<1>3. Undisturbed(m, m) BY <1>2 DEF Undisturbed
<1>4. Undisturbed(m, Popup(m, "error")) /\ Popup(m, "error").popup = "error"
  <2>1. Popup(m, "error") \in Model BY <1>2, SetView DEF Popup
  <2> QED BY <1>2, <2>1 DEF Undisturbed, Popup, Model
<1>5. Undisturbed(m, ApplyListerTrust(nn)) /\ ApplyListerTrust(nn).popup = m.popup
  <2>1. nn \in Model BY <1>2, SetData
  <2>2. Undisturbed(m, nn) /\ nn.popup = m.popup BY <1>2, <2>1 DEF Undisturbed, Model
  <2> HIDE DEF nn
  <2>3. Marked(nn, ApplyListerTrust(nn)) BY <2>1, Marks
  <2> QED BY <2>2, <2>3 DEF Marked, Undisturbed
<1>6. Finish(m, c) \/ Finish(Popup(m, "error"), c) \/ Finish(ApplyListerTrust(nn), c)
  BY DEF ListerTrustResult, SaveAllResult
<1> HIDE DEF nn
<1> QED BY <1>1, <1>3, <1>4, <1>5, <1>6, BesidesKeep

LEMMA AIAResultKeeps ==
  ASSUME RootInv, NEW c \in pending, c.kind = "aia", AIAResult(c) PROVE RootInv'
<1>1. /\ Waits(m, c) /\ m \in Model /\ c \in Command
      /\ \A d \in pending \ {c} : d.kind \notin Exclusive
  BY Awaited DEF Loaders
<1>2. PICK found \in {None, c.target} :
        Finish(Decorate([m EXCEPT !.state = "tree", !.rows.aia = IF found = None THEN @ ELSE found,
                                  !.aia = IF InRemote THEN found ELSE @,
                                  !.index = IF m.stores > 0 THEN m.rows.load ELSE @]), c)
  BY DEF AIAResult
<1> DEFINE n1 == [m EXCEPT !.state = "tree"]
           n2 == [n1 EXCEPT !.rows.aia = IF found = None THEN m.rows.aia ELSE found]
           n3 == [n2 EXCEPT !.aia = IF InRemote THEN found ELSE m.aia]
           mm == [n3 EXCEPT !.index = IF m.stores > 0 THEN m.rows.load ELSE m.index]
<1>3. n1 \in Model BY <1>1, SetView DEF Views, Trees
<1>4. (IF found = None THEN m.rows.aia ELSE found) \in Targets \cup {"scan", None}
  BY <1>1 DEF Model, Command
<1>5. n2 \in Model BY <1>3, <1>4, SetData
<1>6. (IF InRemote THEN found ELSE m.aia) \in Targets \cup {None}
  BY <1>1 DEF Waits, InRemote, Model
<1>7. n3 \in Model BY <1>5, <1>6, SetData
<1>8. (IF m.stores > 0 THEN m.rows.load ELSE m.index) \in 0..MaxLoads BY <1>1 DEF Model
<1>9. mm \in Model BY <1>7, <1>8, SetData
<1>10. mm.state = "tree" /\ ~mm.verify
  <2>1. n1.state = "tree" /\ ~n1.verify BY <1>1 DEF Waits, Model
  <2>2. n2.state = "tree" /\ ~n2.verify BY <1>3, <2>1 DEF Model
  <2>3. n3.state = "tree" /\ ~n3.verify BY <1>5, <2>2 DEF Model
  <2> QED BY <1>7, <2>3 DEF Model
<1>11. Finish(Decorate(mm), c) BY <1>1, <1>2 DEF Model
<1> HIDE DEF mm
<1>12. Fits(mm) BY <1>10 DEF Fits
<1>13. Decorate(mm) \in Model /\ Fits(Decorate(mm)) BY <1>9, <1>12, Marks, MarkedFits
<1> QED BY <1>1, <1>11, <1>13, FinishSettles

LEMMA UnlockResultKeeps ==
  ASSUME RootInv, NEW c \in pending, c.kind = "unlock", UnlockResult(c) PROVE RootInv'
<1> DEFINE ww == View(m, IF m.detail > 0 THEN "split" ELSE "tree")
           mm == [m EXCEPT !.detail = 0, !.state = "tree"]
<1>1. /\ Waits(m, c) /\ m \in Model /\ \A d \in pending \ {c} : d.kind \notin Exclusive
  BY Awaited DEF Loaders
<1>2. ~m.verify BY <1>1 DEF Waits
<1>3. ww \in Model /\ mm \in Model BY <1>1, SetView, SetData, Small DEF View, Views, Trees
<1>4. Fits(ww) /\ Fits(mm) BY <1>1, <1>2, <1>3 DEF Fits, View, Model
<1>5. Finish(Popup(ww, "error"), c) \/ Finish(Convert(mm), c) BY DEF UnlockResult
<1> HIDE DEF ww, mm
<1>6. Popup(ww, "error") \in Model /\ Fits(Popup(ww, "error")) BY <1>3, <1>4, PopupFits DEF Asking
<1>7. Convert(mm) \in Model /\ Fits(Convert(mm)) BY <1>3, <1>4, Marks, MarkedFits
<1> QED BY <1>1, <1>5, <1>6, <1>7, FinishSettles

LEMMA SubmitResultKeeps ==
  ASSUME RootInv, NEW c \in pending, c.kind = "submit", SubmitResult(c) PROVE RootInv'
<1> DEFINE ff == View(m, "form")
           mm == [m EXCEPT !.form = None, !.detail = 0]
<1>1. /\ Waits(m, c) /\ m \in Model /\ m.popup \notin Asking
      /\ \A d \in pending \ {c} : d.kind \notin Exclusive
  BY Awaited DEF Loaders
<1>2. ~m.verify /\ HasFileForm(m) BY <1>1 DEF Waits
<1>3. ff \in Model /\ mm \in Model BY <1>1, SetView, SetData, Small DEF View, Views
<1>4. Fits(ff) BY <1>1, <1>2, <1>3 DEF Fits, HasFileForm, View, Model
<1>5. ~mm.verify /\ mm.popup \notin Asking BY <1>1, <1>2 DEF Model
<1>6. Finish(ff, c) \/ Finish(Popup(ff, "error"), c) \/ Load(mm, {c}, "scan", None) BY DEF SubmitResult
<1> HIDE DEF ff, mm
<1>7. Popup(ff, "error") \in Model /\ Fits(Popup(ff, "error")) BY <1>3, <1>4, PopupFits DEF Asking
<1> QED BY <1>1, <1>3, <1>4, <1>5, <1>6, <1>7, FinishSettles, LoadWaits

LEMMA ShellResultKeeps ==
  ASSUME RootInv, NEW c \in pending, c.kind = "shell", ShellResult(c) PROVE RootInv'
<1>1. \A d \in pending \ {c} : d.kind \notin Exclusive BY Alone DEF Exclusive
<1>2. Fits(m) /\ m \in Model /\ m.popup \notin Asking /\ ~m.verify
  BY <1>1 DEF RootInv, Running, TypeOK, Exclusive, Loaders
<1>3. Popup(m, "error") \in Model /\ Fits(Popup(m, "error")) BY <1>2, PopupFits DEF Asking
<1> QED BY <1>1, <1>2, <1>3, FinishSettles, LoadWaits DEF ShellResult

-----------------------------------------------------------------------------
(* Every step.                                                             *)

LEMMA ResultsKeep ==
  ASSUME RootInv, NEW kind \in Kinds, Result(kind) PROVE RootInv'
<1>1. PICK c \in pending :
        /\ c.kind = kind
        /\ CASE kind = "scan"        -> ScanResult(c)
             [] kind \in {"remote", "refetch"} -> RemoteResult(c)
             [] kind = "trust"       -> TrustResult(c)
             [] kind = "listerTrust" -> ListerTrustResult(c)
             [] kind = "aia"         -> AIAResult(c)
             [] kind = "unlock"      -> UnlockResult(c)
             [] kind = "submit"      -> SubmitResult(c)
             [] kind = "saveAll"     -> SaveAllResult(c)
             [] kind = "proxy"       -> ProxyResult(c)
             [] kind = "shell"       -> ShellResult(c)
  BY DEF Result
<1>2. CASE kind = "scan" BY <1>1, <1>2, ScanResultKeeps
<1>3. CASE kind \in {"remote", "refetch"} BY <1>1, <1>3, RemoteResultKeeps
<1>4. CASE kind = "trust" BY <1>1, <1>4, TrustResultKeeps
<1>5. CASE kind = "listerTrust" BY <1>1, <1>5, BesideResultsKeep
<1>6. CASE kind = "aia" BY <1>1, <1>6, AIAResultKeeps
<1>7. CASE kind = "unlock" BY <1>1, <1>7, UnlockResultKeeps
<1>8. CASE kind = "submit" BY <1>1, <1>8, SubmitResultKeeps
<1>9. CASE kind = "saveAll" BY <1>1, <1>9, BesideResultsKeep
<1>10. CASE kind = "shell" BY <1>1, <1>10, ShellResultKeeps
<1>11. kind # "proxy" BY <1>1 DEF RootInv, Running
<1> QED BY <1>2, <1>3, <1>4, <1>5, <1>6, <1>7, <1>8, <1>9, <1>10, <1>11 DEF Kinds

\* Keys that leave the model as it is.
LEMMA QuitKeysKeep ==
  ASSUME RootInv, EscLoading \/ CtrlC PROVE RootInv'
<1>1. UNCHANGED <<m, pending, loads>> BY DEF EscLoading, CtrlC
<1>2. RootInv /\ m.ctx \in 1..MaxLoads BY DEF RootInv, TypeOK, Model
<1>3. cancelled' \subseteq 1..MaxLoads /\ quit' \in BOOLEAN
  BY <1>2 DEF EscLoading, CtrlC, RootInv, TypeOK
<1>4. TypeOK' BY <1>1, <1>3 DEF RootInv, TypeOK
<1>5. Running' BY <1>1 DEF RootInv, Running, Waits, Fits, HasFileForm, KnowsWayBack
<1> QED BY <1>4, <1>5 DEF RootInv

LEMMA StutterKeeps ==
  ASSUME RootInv, UNCHANGED vars PROVE RootInv'
BY DEF vars, RootInv, TypeOK, Running, Waits, Fits, HasFileForm, KnowsWayBack

LEMMA StepKeepsInv ==
  ASSUME "proxy" \notin Features, RootInv, [Next]_vars PROVE RootInv'
<1>1. \/ TreeKeys \/ OpenFunctions \/ CloseMenu \/ Dismiss \/ EscLoading \/ CtrlC
      \/ GoLister \/ TrustKeys \/ RemoteKeys \/ Refetch \/ VerifyKeys \/ FetchAIA
      \/ OpenColumns \/ ToggleColumn \/ CloseEditor \/ OpenOptions \/ ApplyOptions
      \/ FileKeys \/ SelectKeys \/ SaveAll \/ Confirm \/ Decline \/ Shell \/ GoPacket
      \/ (\E kind \in Kinds : Result(kind)) \/ UNCHANGED vars
  BY DEF Next, Has
<1>2. ASSUME FileKeys PROVE RootInv' BY <1>2, FileKeysKeep, MenuKeysKeep DEF FileKeys
<1>3. ASSUME Dismiss \/ SaveAll \/ Confirm \/ Decline \/ Shell PROVE RootInv' BY <1>3, PopupKeysKeep
<1>4. ASSUME OpenFunctions \/ CloseMenu \/ GoLister \/ GoPacket PROVE RootInv' BY <1>4, MenuKeysKeep
<1>5. ASSUME OpenColumns \/ ToggleColumn \/ CloseEditor PROVE RootInv' BY <1>5, ColumnKeysKeep
<1>6. ASSUME OpenOptions \/ ApplyOptions PROVE RootInv' BY <1>6, OptionKeysKeep
<1>7. ASSUME \E kind \in Kinds : Result(kind) PROVE RootInv' BY <1>7, ResultsKeep
<1> QED BY <1>1, <1>2, <1>3, <1>4, <1>5, <1>6, <1>7, TreeKeysKeep, TrustKeysKeep, RemoteKeysKeep,
           RefetchKeeps, VerifyKeysKeep, FetchAIAKeeps, SelectKeysKeep, QuitKeysKeep, StutterKeeps

LEMMA InitInv == Init => RootInv
<1> SUFFICES ASSUME Init PROVE RootInv OBVIOUS
<1>1. PICK s \in Starts :
        /\ m = [state |-> IF s = "pcap" THEN "packetAnalyzer" ELSE "loading",
                root |-> CASE s = "lister" -> "certLister" [] s = "store" -> "trustStore" [] OTHER -> "packetAnalyzer",
                prevState |-> "loading", prevRoot |-> "certLister", back |-> "tree", menu |-> None, form |-> None,
                detail |-> 0, rows |-> NoRows, popup |-> None, confirm |-> None, deleting |-> FALSE,
                remote |-> NoRemote, aia |-> None, stores |-> 0, index |-> 0, verify |-> FALSE,
                verdict |-> FALSE, columns |-> TrustColumn, ctx |-> 1, proxy |-> FALSE]
        /\ pending = CASE s = "lister" -> {Cmd("scan", 1, 1, None)} [] s = "store" -> {Cmd("trust", 1, 1, None)} [] OTHER -> {}
  BY DEF Init
<1>2. loads = 1 /\ cancelled = {} /\ quit = FALSE BY DEF Init
<1>3. s \in {"lister", "store", "pcap"} BY RootAssumption
<1>4. m \in Model BY <1>1, <1>3, RootAssumption DEF Model, Views, Trees, Roots, Owners, NoRows, NoRemote
<1>5. 1 \in 1..MaxLoads BY RootAssumption
<1>6. Cmd("scan", 1, 1, None) \in Command /\ Cmd("trust", 1, 1, None) \in Command
  BY <1>5 DEF Cmd, Command, Kinds
<1>7. TypeOK BY <1>1, <1>2, <1>3, <1>4, <1>5, <1>6 DEF TypeOK
<1>8. /\ ~m.verify /\ m.popup = None /\ m.rows.owner = "none"
      /\ m.state = IF s = "pcap" THEN "packetAnalyzer" ELSE "loading"
  BY <1>1 DEF NoRows
<1>9. \A kind \in {"scan", "trust"} : /\ Cmd(kind, 1, 1, None).kind = kind
                                      /\ m.state = "loading" => Waits(m, Cmd(kind, 1, 1, None))
  BY <1>8, NoneIsNoName DEF Waits, Cmd, Asking
<1>10. Running
  <2>1. CASE s = "pcap"
    <3>1. pending = {} /\ m.state = "packetAnalyzer" BY <1>1, <2>1
    <3> QED BY <1>8, <3>1 DEF Running, Fits
  <2>2. CASE s # "pcap"
    <3>1. PICK kind \in {"scan", "trust"} : pending = {Cmd(kind, 1, 1, None)} BY <1>1, <1>3, <2>2
    <3>2. Waits(m, Cmd(kind, 1, 1, None)) /\ Cmd(kind, 1, 1, None).kind = kind BY <1>8, <1>9, <2>2
    <3> QED BY <3>1, <3>2 DEF Running, Loaders
  <2> QED BY <2>1, <2>2
<1> QED BY <1>7, <1>10 DEF RootInv

-----------------------------------------------------------------------------
(* What it shows.                                                          *)

LEMMA ServesLoading == RootInv => OneLoadAtATime
<1> SUFFICES ASSUME RootInv PROVE OneLoadAtATime OBVIOUS
<1>1. TypeOK BY DEF RootInv
<1>2. LoadingIsServed BY DEF RootInv, Running, Fits, LoadingIsServed
<1>3. ResultsLandWhereAsked
  <2> DEFINE running == {c \in pending : c.kind \in Loaders}
  <2> SUFFICES ASSUME running # {} PROVE Cardinality(running) = 1 /\ m.state = "loading"
    BY DEF ResultsLandWhereAsked
  <2>1. PICK c \in running : TRUE OBVIOUS
  <2>2. running = {c} BY <2>1 DEF RootInv, Running, Exclusive
  <2>3. m.state = "loading" BY <2>1 DEF RootInv, Running, Waits
  <2> QED BY <2>2, <2>3, FS_Singleton
<1> QED BY <1>1, <1>2, <1>3 DEF OneLoadAtATime

LEMMA FitsViews == RootInv => ViewsFit
<1> SUFFICES ASSUME RootInv PROVE ViewsFit OBVIOUS
<1>1. Fits(m) \/ \E c \in pending : Waits(m, c) BY DEF RootInv, Running
<1>2. ASSUME Fits(m) PROVE ViewsFit
  BY <1>2 DEF Fits, HasFileForm, ViewsFit, FormThere, VerifyBelongs, WritesOnlyFiles
<1>3. ASSUME NEW c \in pending, Waits(m, c) PROVE ViewsFit
  BY <1>3 DEF Waits, ViewsFit, FormThere, VerifyBelongs, WritesOnlyFiles
<1> QED BY <1>1, <1>2, <1>3

\* RootModel.Update without the proxy's keys: the loading view always has one command
\* behind it whose result ends it, no second one is started meanwhile, and a result of
\* one is merged in the view it was asked for.
THEOREM OneLoadRuns ==
  ASSUME "proxy" \notin Features PROVE Spec => []OneLoadAtATime
<1>1. RootInv /\ [Next]_vars => RootInv' BY StepKeepsInv
<1> QED BY <1>1, InitInv, ServesLoading, PTL DEF Spec

\* RootModel.Update without the proxy's keys: whatever results replace the rows, a view
\* with a form has one, a pending verification stays with its form or its fetch, and no
\* view that writes files stands over rows of the trust stores.
THEOREM ViewsStayFit ==
  ASSUME "proxy" \notin Features PROVE Spec => []ViewsFit
<1>1. RootInv /\ [Next]_vars => RootInv' BY StepKeepsInv
<1> QED BY <1>1, InitInv, FitsViews, PTL DEF Spec

-----------------------------------------------------------------------------
(* The file dialog (FilePicker).                                           *)

\* The rows are among those read, the cursor on one of them, and there is a window.
ListInv ==
  /\ cfg.type \in {"open", "save", "opendir"} /\ height \in Int
  /\ all \in Seq(Range(all)) /\ rows \in Seq(Range(all))
  /\ at \in Nat /\ at >= 1 /\ scroll \in Int /\ (rows # <<>> => at <= Len(rows))

\* A completion stays where it was seen, whatever is opened over it.
DropSeen ==
  path.drop # 0 =>
    /\ path.scroll < path.drop
    /\ path.drop <= path.scroll + DropMaxH - (IF path.scroll + DropMaxH < Len(path.comps) THEN 1 ELSE 0)
PathInv ==
  /\ path = [input |-> path.input, drop |-> path.drop, scroll |-> path.scroll, comps |-> path.comps]
  /\ path.drop \in Nat /\ path.scroll \in Int /\ path.comps \in Seq(Range(path.comps))
  /\ DropSeen

\* What is asked is about a path to save under; the second question comes once the
\* first was agreed to, and no filter changes in between.
NeedsConsent(p) == cfg.extensions /\ cfg.mode # "all" /\ ~everything /\ p.name.base \notin Pem
AskInv ==
  /\ cfg.mode \in {"confirm", "strict"}
  /\ modal = "confirm" =>
       LET p == confirm.payload
       IN  /\ cfg.type = "save" /\ p.name.base # ""
           /\ confirm = [kind |-> confirm.kind, payload |-> p, yes |-> confirm.yes]
           /\ confirm.kind \in {"extension", "overwrite"}
           /\ confirm.kind = "extension" => cfg.mode = "confirm"
           /\ confirm.kind = "overwrite" /\ NeedsConsent(p) =>
                cfg.mode = "confirm" /\ [kind |-> "extension", path |-> p] \in agreed

PickerInv == ListInv /\ PathInv /\ AskInv

\* The four things PickIsSound says of a step.
AnswersWell == (result'.how = "chosen" /\ result.how = "none") => Answers
StaysFit ==
  (all' # all \/ everything' # everything) /\ RowsFit =>
    RowsFit' \/ (everything' # everything /\ ~Readable(files, dir))
ShownNext ==
  rows' # <<>> => at' \in DOMAIN rows' /\ 0 <= scroll' /\ scroll' < at' /\ at' <= scroll' + ListHeight
StaysShown == UNCHANGED <<rows, at, scroll>> \/ ShownNext

-----------------------------------------------------------------------------
LEMMA Least == ASSUME NEW T, T \subseteq Nat, T # {} PROVE \E n \in T : \A k \in T : n <= k
<1> DEFINE R == OpToRel(<, Nat)
<1>1. IsWellFoundedOn(R, Nat)
  BY NatLessThanWellFounded
<1>2. \A x, y \in Nat : <<y, x>> \in R <=> y < x
  BY DEF OpToRel
<1> HIDE DEF R
<1>3. \E x \in T : \A y \in T : ~ (<<y, x>> \in R)
  BY <1>1, WFMin, Zenon
<1>4. \A x, y \in T : <<y, x>> \in R <=> y < x
  BY <1>2
<1>5. PICK x \in T : \A y \in T : ~ (y < x)
  BY <1>3, <1>4
<1>6. \A y \in T : x <= y
  BY <1>5
<1> QED
  BY <1>6

\* k[n] is what is kept of the first n members of s.
Keeps(k, s, S, N) ==
  /\ k = [n \in 0..N |-> k[n]]
  /\ \A n \in 0..N : k[n] = IF n = 0 THEN <<>> ELSE IF s[n] \in S THEN Append(k[n - 1], s[n]) ELSE k[n - 1]

LEMMA KeepsExists == ASSUME NEW s, NEW S, NEW N \in Nat PROVE \E k : Keeps(k, s, S, N)
<1> DEFINE T == {n \in Nat : ~ \E k : Keeps(k, s, S, n)}
<1> SUFFICES ASSUME T # {} PROVE FALSE
  OBVIOUS
<1>1. PICK n \in T : \A i \in T : n <= i
  BY Least
<1>2. CASE n = 0
  <2> DEFINE k == [i \in 0..0 |-> <<>>]
  <2>1. Keeps(k, s, S, 0)
    BY DEF Keeps
  <2> QED
    BY <1>2, <2>1
<1>3. CASE n # 0
  <2>1. n \in Nat /\ n - 1 \in Nat /\ n - 1 \notin T
    BY <1>1, <1>3
  <2>2. PICK k : Keeps(k, s, S, n - 1)
    BY <2>1
  <2> DEFINE last == IF s[n] \in S THEN Append(k[n - 1], s[n]) ELSE k[n - 1]
             longer == [i \in 0..n |-> IF i = n THEN last ELSE k[i]]
  <2>3. \A i \in 0..(n - 1) : longer[i] = k[i] /\ (i # 0 => longer[i - 1] = k[i - 1])
    BY <2>1
  <2>4. longer[n] = last /\ longer[n - 1] = k[n - 1] /\ longer = [i \in 0..n |-> longer[i]]
    BY <2>1
  <2> HIDE DEF longer
  <2>5. \A i \in 0..n : i = n \/ i \in 0..(n - 1)
    BY <2>1
  <2>6. Keeps(longer, s, S, n)
    BY <1>3, <2>1, <2>2, <2>3, <2>4, <2>5 DEF Keeps
  <2> QED
    BY <2>6
<1> QED
  BY <1>2, <1>3

\* What is kept of a list is a list of members of the set.
LEMMA OnlyType == ASSUME NEW s, NEW S, Len(s) \in Nat PROVE Only(s, S) \in Seq(S)
<1> DEFINE Def(k) == [n \in 0..Len(s) |-> IF n = 0 THEN <<>> ELSE IF s[n] \in S THEN Append(k[n - 1], s[n]) ELSE k[n - 1]]
           k == CHOOSE kept : kept = Def(kept)
<1>1. \E kept : kept = Def(kept)
  <2>1. PICK kept : Keeps(kept, s, S, Len(s))
    BY KeepsExists
  <2> QED
    BY <2>1 DEF Keeps
<1>2. k = Def(k)
  BY <1>1, Zenon
<1>3. Only(s, S) = k[Len(s)]
  BY Zenon DEF Only
<1> HIDE DEF k
<1>4. \A n \in 0..Len(s) : k[n] = IF n = 0 THEN <<>> ELSE IF s[n] \in S THEN Append(k[n - 1], s[n]) ELSE k[n - 1]
  BY <1>2
<1> DEFINE T == {n \in 0..Len(s) : k[n] \notin Seq(S)}
<1> SUFFICES ASSUME T # {} PROVE FALSE
  BY <1>3
<1>5. T \subseteq Nat
  OBVIOUS
<1>6. PICK n \in T : \A i \in T : n <= i
  <2> HIDE DEF T
  <2> QED
    BY <1>5, Least
<1>7. n \in 0..Len(s) /\ k[n] \notin Seq(S)
  OBVIOUS
<1>8. k[n] = IF n = 0 THEN <<>> ELSE IF s[n] \in S THEN Append(k[n - 1], s[n]) ELSE k[n - 1]
  BY <1>4, <1>7
<1>9. n # 0
  BY <1>7, <1>8
<1>10. n - 1 \in 0..Len(s) /\ n - 1 \notin T
  BY <1>6, <1>7, <1>9
<1>11. k[n - 1] \in Seq(S)
  BY <1>10
<1> QED
  BY <1>7, <1>8, <1>9, <1>11

LEMMA NameFilter == ASSUME NEW S, NEW list \in Seq(S), NEW q PROVE ApplyNameFilter(list, q) \in Seq(Range(list))
<1> DEFINE shown == {r \in Range(list) : r = DotDot \/ q <= Tree[r.entry].common}
<1>1. Len(list) \in Nat
  OBVIOUS
<1>2. ApplyNameFilter(list, q) \in Seq(shown)
  <2> HIDE DEF shown
  <2>1. Only(list, shown) \in Seq(shown)
    BY <1>1, OnlyType
  <2> QED  BY <2>1 DEF ApplyNameFilter, shown
<1>3. shown \subseteq Range(list)
  OBVIOUS
<1> HIDE DEF shown
<1> QED  BY <1>2, <1>3

\* A row lets through what the filter does.
Lets(row, e) == row # DotDot => (row.passes <=> PassesFilter(row.isDir, Name(row), e))

LEMMA ReadDirFits ==
  ASSUME NEW fs, NEW d, NEW h, NEW e
  PROVE  LET list == ReadDir(fs, d, h, e)
         IN  list \in Seq(Range(list)) /\ \A n \in DOMAIN list : Lets(list[n], e)
<1> DEFINE IsDir(k) == Tree[k].kind # "file" /\ DirThere(fs, Tree[k].to)
           Listed == {k \in fs : Tree[k].dir = d /\ (h \/ ~Tree[k].hidden)}
           Row(k) == [entry |-> k, isDir |-> IsDir(k), passes |-> PassesFilter(IsDir(k), Tree[k].name, e)]
           Those(dirs) == Only(Entries, {k \in Listed : IsDir(k) = dirs})
           Some(dirs) == [n \in DOMAIN Those(dirs) |-> Row(Those(dirs)[n])]
           Rows == {Row(k) : k \in fs} \cup {DotDot}
           up == IF d = Top THEN <<>> ELSE <<DotDot>>
<1>1. ReadDir(fs, d, h, e) = up \o Some(TRUE) \o Some(FALSE)
  BY DEF ReadDir
<1>2. Len(Entries) \in Nat
  <2>1. PICK n \in Nat : DOMAIN Tree = 1..n
    BY PickerAssumption
  <2>2. DOMAIN Entries = 1..n /\ Entries \in Seq(1..n)
    BY <2>1 DEF Entries
  <2> QED  BY <2>2
<1>3. ASSUME NEW dirs PROVE Some(dirs) \in Seq(Rows)
  <2> DEFINE S == {k \in Listed : IsDir(k) = dirs}
             ks == Only(Entries, S)
  <2>1. ks \in Seq(S)
    <3> HIDE DEF S
    <3> QED  BY <1>2, OnlyType
  <2>2. \A n \in DOMAIN ks : ks[n] \in fs
    <3>1. S \subseteq fs
      OBVIOUS
    <3> HIDE DEF S, ks
    <3> QED  BY <2>1, <3>1
  <2>3. \E n \in Nat : DOMAIN ks = 1..n
    <3> HIDE DEF S, ks
    <3> QED  BY <2>1
  <2>4. Some(dirs) = [n \in DOMAIN ks |-> Row(ks[n])]
    OBVIOUS
  <2> HIDE DEF ks, Row, Some
  <2>5. \A n \in DOMAIN ks : Row(ks[n]) \in Rows
    BY <2>2
  <2> HIDE DEF Rows
  <2> QED  BY <2>3, <2>4, <2>5
<1>4. up \in Seq(Rows)
  <2>1. DotDot \in Rows
    <3> HIDE DEF Row
    <3> QED  OBVIOUS
  <2> HIDE DEF Rows
  <2> QED  BY <2>1
<1>5. ReadDir(fs, d, h, e) \in Seq(Rows)
  <2>1. Some(TRUE) \in Seq(Rows) /\ Some(FALSE) \in Seq(Rows)
    <3> HIDE DEF Rows, Some
    <3> QED  BY <1>3, Zenon
  <2>2. \A x, y, z \in Seq(Rows) : x \o y \o z \in Seq(Rows)
    <3> HIDE DEF Rows
    <3> QED  OBVIOUS
  <2> HIDE DEF Rows, up, Some
  <2> QED  BY <1>1, <1>4, <2>1, <2>2, Zenon
<1>6. \A r \in Rows : Lets(r, e)
  <2>1. ASSUME NEW k \in fs PROVE Lets(Row(k), e)
    BY DEF Lets, Name
  <2>2. Lets(DotDot, e)
    BY DEF Lets
  <2> HIDE DEF Row
  <2> QED  BY <2>1, <2>2
<1> HIDE DEF Rows
<1> QED  BY <1>5, <1>6 DEF Range

-----------------------------------------------------------------------------
(* The window.                                                             *)

LEMMA MaxOf == ASSUME NEW x \in Int, NEW y \in Int
               PROVE Max({x, y}) \in {x, y} /\ Max({x, y}) >= x /\ Max({x, y}) >= y
<1>1. \E z \in {x, y} : \A w \in {x, y} : z >= w
  OBVIOUS
<1> QED  BY <1>1 DEF Max

LEMMA MinOf == ASSUME NEW x \in Int, NEW y \in Int
               PROVE Min({x, y}) \in {x, y} /\ Min({x, y}) <= x /\ Min({x, y}) <= y
<1>1. \E z \in {x, y} : \A w \in {x, y} : z <= w
  OBVIOUS
<1> QED  BY <1>1 DEF Min

LEMMA HeightOfList == ASSUME ListInv PROVE ListHeight \in Int /\ ListHeight >= 1
<1> DEFINE inner == BoxHeight - 12 - Parts[cfg.type] - (IF ShowsFilterBar THEN 2 ELSE 0)
<1>1. BoxHeight \in Int
  <2>1. Min({height, MaxBox}) \in Int
    BY PickerAssumption, MinOf DEF ListInv
  <2> QED  BY <2>1, PickerAssumption, MaxOf DEF BoxHeight
<1>2. Parts[cfg.type] \in Int
  BY DEF ListInv, Parts
<1>3. inner \in Int
  BY <1>1, <1>2
<1>4. ListHeight = Max({1, inner})
  BY DEF ListHeight
<1> HIDE DEF inner
<1> QED  BY <1>3, <1>4, MaxOf

\* Wherever the window was, it follows the cursor.
LEMMA ClampShows ==
  ASSUME ListInv, NEW s \in Int, NEW a \in Int, a >= 1
  PROVE  ClampScroll(s, a) \in Nat /\ ClampScroll(s, a) < a /\ a <= ClampScroll(s, a) + ListHeight
<1> DEFINE low == IF a - 1 < s THEN a - 1 ELSE Max({s, a - ListHeight})
<1>1. ListHeight \in Int /\ ListHeight >= 1
  BY HeightOfList
<1>2. s <= a - 1 => Max({s, a - ListHeight}) \in Int /\ Max({s, a - ListHeight}) <= a - 1
                    /\ Max({s, a - ListHeight}) >= a - ListHeight
  <2> DEFINE b == a - ListHeight
  <2>1. b \in Int /\ b <= a - 1
    BY <1>1
  <2> HIDE DEF b
  <2>2. Max({s, b}) \in {s, b} /\ Max({s, b}) >= b
    BY <2>1, MaxOf
  <2>3. s <= a - 1 => Max({s, b}) \in Int /\ Max({s, b}) <= a - 1 /\ Max({s, b}) >= b
    BY <2>1, <2>2
  <2> QED  BY <2>3 DEF b
<1>3. low \in Int /\ low <= a - 1 /\ low >= a - ListHeight
  BY <1>1, <1>2
<1>4. ClampScroll(s, a) = Max({0, low})
  BY DEF ClampScroll
<1> HIDE DEF low
<1>5. Max({0, low}) \in {0, low} /\ Max({0, low}) >= low /\ Max({0, low}) >= 0
  BY <1>3, MaxOf
<1> QED  BY <1>1, <1>3, <1>4, <1>5

\* And the highlighted completion, wherever the list was scrolled to.
LEMMA DropShows ==
  ASSUME NEW n \in Nat, NEW s \in Int, NEW len \in Nat
  PROVE  LET c == ClampDrop(n, s, len)
         IN  c \in Int /\ (n # 0 => c < n /\ n <= c + DropMaxH - (IF c + DropMaxH < len THEN 1 ELSE 0))
<1>1. DropMaxH \in Int /\ DropMaxH >= 2
  BY PickerAssumption
<1> DEFINE i == IF n = 0 THEN 0 ELSE n - 1
           up == IF i < s THEN i ELSE s
           down == IF i >= up + DropMaxH THEN i - DropMaxH + 1 ELSE up
           more == IF i = down + DropMaxH - 1 /\ down + DropMaxH < len THEN i - DropMaxH + 2 ELSE down
<1>2. ClampDrop(n, s, len) = IF more < 0 THEN 0 ELSE more
  BY DEF ClampDrop
<1>3. i \in Nat /\ (n # 0 => i = n - 1)
  OBVIOUS
<1> HIDE DEF i
<1>4. up \in Int /\ up <= i
  BY <1>3
<1> HIDE DEF up
<1>5. down \in Int /\ down <= i /\ i <= down + DropMaxH - 1
  BY <1>1, <1>3, <1>4
<1> HIDE DEF down
<1>6. more \in Int /\ more <= i /\ i + 1 <= more + DropMaxH - (IF more + DropMaxH < len THEN 1 ELSE 0)
  BY <1>1, <1>3, <1>5
<1> HIDE DEF more
<1> QED  BY <1>1, <1>2, <1>3, <1>6

-----------------------------------------------------------------------------
(* The list.                                                               *)

SameDialog == cfg' = cfg /\ height' = height /\ everything' = everything

\* A new listing, from its top.
LEMMA LoadKeeps ==
  ASSUME ListInv, NEW d, NEW h, LoadDir(d, h), SameDialog
  PROVE  ListInv' /\ StaysFit /\ StaysShown
<1>1. CASE ~Readable(files, d)
  <2>1. UNCHANGED listing
    BY <1>1 DEF LoadDir
  <2> QED  BY <2>1 DEF SameDialog, listing, ListInv, StaysFit, StaysShown
<1>2. CASE Readable(files, d)
  <2>1. all' = ReadDir(files, d, hidden, everything) /\ rows' = all' /\ at' = 1 /\ scroll' = 0
    BY <1>2 DEF LoadDir
  <2>2. all' \in Seq(Range(all')) /\ \A n \in DOMAIN all' : Lets(all'[n], everything)
    BY <2>1, ReadDirFits
  <2>3. ListInv'
    BY <2>1, <2>2 DEF ListInv, SameDialog
  <2>4. StaysFit
    BY <2>2 DEF StaysFit, RowsFit, Lets, SameDialog, PassesFilter
  <2>5. StaysShown
    <3>1. ListHeight \in Int /\ ListHeight >= 1
      BY HeightOfList
    <3> QED  BY <2>1, <2>2, <3>1 DEF StaysShown, ShownNext
  <2> QED  BY <2>3, <2>4, <2>5
<1> QED  BY <1>1, <1>2

\* The cursor on a row by its name, or else where it is to be shown.
LEMMA CursorKeeps ==
  ASSUME ListInv, NEW list, list \in Seq(Range(list)), NEW name, NEW otherwise, NEW s, s \in Int,
         SetCursorToEntry(list, name, otherwise, s), otherwise \in Nat, otherwise >= 1
  PROVE  \/ at' = otherwise /\ scroll' = s
         \/ at' \in DOMAIN list /\ scroll' \in Nat /\ scroll' < at' /\ at' <= scroll' + ListHeight
<1>1. CASE Named(list, name) = {}
  BY <1>1 DEF SetCursorToEntry
<1>2. CASE Named(list, name) # {}
  <2>1. at' \in Named(list, name) /\ scroll' = ClampScroll(s, at')
    BY <1>2 DEF SetCursorToEntry
  <2>2. at' \in DOMAIN list
    BY <2>1 DEF Named
  <2>3. at' \in Int /\ at' >= 1
    BY <2>2
  <2> QED  BY <2>1, <2>2, <2>3, ClampShows
<1> QED  BY <1>1, <1>2

LEMMA UpKeeps ==
  ASSUME ListInv, NavigateUp, SameDialog
  PROVE  ListInv' /\ StaysFit /\ StaysShown
<1> DEFINE name == Tree[DirEntry(dir)].name
<1> HIDE DEF name
<1>0. ListHeight \in Int /\ ListHeight >= 1
  BY HeightOfList
<1>1. CASE UNCHANGED listing
  BY <1>1 DEF SameDialog, listing, ListInv, StaysFit, StaysShown
<1>2. CASE /\ all' = ReadDir(files, dir', hidden, everything) /\ rows' = all'
           /\ SetCursorToEntry(rows', name, 1, 0)
  <2>1. all' \in Seq(Range(all')) /\ \A n \in DOMAIN all' : Lets(all'[n], everything)
    BY <1>2, ReadDirFits
  <2>2. \/ at' = 1 /\ scroll' = 0
        \/ at' \in DOMAIN rows' /\ scroll' \in Nat /\ scroll' < at' /\ at' <= scroll' + ListHeight
    BY <1>2, <2>1, CursorKeeps
  <2>3. at' \in Nat /\ at' >= 1 /\ scroll' \in Nat /\ (rows' # <<>> => at' \in 1..Len(rows'))
    BY <1>2, <2>1, <2>2
  <2>4. ListInv'
    BY <1>2, <2>1, <2>3 DEF ListInv, SameDialog
  <2>5. StaysFit
    BY <2>1 DEF StaysFit, RowsFit, Lets, SameDialog, PassesFilter
  <2>6. scroll' < at' /\ at' <= scroll' + ListHeight
    <3>1. CASE at' = 1 /\ scroll' = 0
      BY <1>0, <3>1
    <3> QED  BY <2>2, <3>1, Zenon
  <2>7. rows' # <<>> => at' \in DOMAIN rows'
    BY <1>2, <2>1, <2>3
  <2>8. StaysShown
    BY <2>3, <2>6, <2>7 DEF StaysShown, ShownNext
  <2> QED  BY <2>4, <2>5, <2>8
<1>3. CASE all' = all /\ rows' = rows /\ SetCursorToEntry(rows, name, at, scroll)
  <2>1. rows \in Seq(Range(rows))
    BY DEF ListInv, Range
  <2>2. \/ at' = at /\ scroll' = scroll
        \/ at' \in DOMAIN rows /\ scroll' \in Nat /\ scroll' < at' /\ at' <= scroll' + ListHeight
    BY <1>3, <2>1, CursorKeeps DEF ListInv
  <2>3. ListInv'
    BY <1>3, <2>1, <2>2 DEF ListInv, SameDialog
  <2>4. StaysFit /\ StaysShown
    BY <1>0, <1>3, <2>1, <2>2 DEF StaysFit, StaysShown, ShownNext, SameDialog
  <2> QED  BY <2>3, <2>4
<1> QED  BY <1>1, <1>2, <1>3 DEF NavigateUp, name

\* The directory is read again: the cursor and the window stay near where they were.
LEMMA ReloadKeeps ==
  ASSUME ListInv, NEW wanted, ReloadDir(wanted), cfg' = cfg, height' = height,
         everything' = everything \/ files' = files
  PROVE  ListInv' /\ StaysFit /\ StaysShown
<1>0. ListHeight \in Int /\ ListHeight >= 1
  BY HeightOfList
<1>1. CASE Readable(files', dir)
  <2> DEFINE kept == Max({1, Min({at, Len(rows')})})
             s == Min({scroll, Len(rows') - ListHeight})
             seen == ClampScroll(s, kept)
  <2>1. /\ all' = ReadDir(files', dir, hidden', everything') /\ rows' = ApplyNameFilter(all', query)
        /\ SetCursorToEntry(rows', wanted, kept, seen)
    BY <1>1 DEF ReloadDir
  <2>2. all' \in Seq(Range(all')) /\ \A n \in DOMAIN all' : Lets(all'[n], everything')
    BY <2>1, ReadDirFits
  <2>3. rows' \in Seq(Range(all'))
    BY <2>1, <2>2, NameFilter
  <2>4. rows' \in Seq(Range(rows')) /\ Len(rows') \in Nat
    BY <2>3 DEF Range
  <2>5. kept \in Nat /\ kept >= 1 /\ (rows' # <<>> => kept <= Len(rows'))
    <3>1. 1 \in Int /\ at \in Int /\ Len(rows') \in Int
      BY <2>4 DEF ListInv
    <3>2. Min({at, Len(rows')}) \in {at, Len(rows')} /\ Min({at, Len(rows')}) <= Len(rows')
      BY <3>1, MinOf, Zenon
    <3> DEFINE low == Min({at, Len(rows')})
    <3>3. low \in Int /\ low <= Len(rows')
      BY <3>1, <3>2
    <3> HIDE DEF low
    <3>4. Max({1, low}) \in {1, low} /\ Max({1, low}) >= 1
      BY <3>1, <3>3, MaxOf, Zenon
    <3>5. kept = Max({1, low})
      BY DEF low
    <3> HIDE DEF kept
    <3>6. rows' # <<>> => Len(rows') >= 1
      BY <2>4
    <3> QED  BY <2>4, <3>3, <3>4, <3>5, <3>6
  <2>6. s \in Int
    <3> DEFINE b == Len(rows') - ListHeight
    <3>1. b \in Int /\ scroll \in Int
      BY <1>0, <2>4 DEF ListInv
    <3> HIDE DEF b
    <3>2. Min({scroll, b}) \in {scroll, b}
      BY <3>1, MinOf
    <3>3. Min({scroll, b}) \in Int
      BY <3>1, <3>2
    <3> QED  BY <3>3 DEF b
  <2> HIDE DEF kept, s
  <2>7. seen \in Nat /\ seen < kept /\ kept <= seen + ListHeight
    BY <2>5, <2>6, ClampShows
  <2> HIDE DEF seen
  <2>8. \/ at' = kept /\ scroll' = seen
        \/ at' \in DOMAIN rows' /\ scroll' \in Nat /\ scroll' < at' /\ at' <= scroll' + ListHeight
    BY <2>1, <2>4, <2>5, <2>7, CursorKeeps
  <2>9. /\ at' \in Nat /\ at' >= 1 /\ scroll' \in Nat /\ (rows' # <<>> => at' \in 1..Len(rows'))
        /\ scroll' < at' /\ at' <= scroll' + ListHeight
    BY <2>4, <2>5, <2>7, <2>8
  <2>10. ListInv'
    BY <2>2, <2>3, <2>9 DEF ListInv
  <2>11. StaysFit
    BY <2>2 DEF StaysFit, RowsFit, Lets, PassesFilter
  <2>12. StaysShown
    BY <2>4, <2>9 DEF StaysShown, ShownNext
  <2> QED  BY <2>10, <2>11, <2>12
<1>2. CASE ~Readable(files', dir)
  <2>1. all' = all /\ rows' = rows /\ SetCursorToEntry(rows, wanted, at, scroll)
    BY <1>2 DEF ReloadDir
  <2>2. rows \in Seq(Range(rows)) /\ at \in Nat /\ at >= 1 /\ scroll \in Int
    BY DEF ListInv, Range
  <2>3. \/ at' = at /\ scroll' = scroll
        \/ at' \in DOMAIN rows /\ scroll' \in Nat /\ scroll' < at' /\ at' <= scroll' + ListHeight
    BY <2>1, <2>2, CursorKeeps
  <2>4. ListInv'
    BY <2>1, <2>2, <2>3 DEF ListInv
  <2>5. StaysShown
    BY <2>1, <2>2, <2>3 DEF StaysShown, ShownNext
  <2>6. StaysFit
    BY <1>2, <2>1 DEF StaysFit, RowsFit, PassesFilter
  <2> QED  BY <2>4, <2>5, <2>6
<1> QED  BY <1>1, <1>2

-----------------------------------------------------------------------------
(* The keys.                                                               *)

Sound == PickerInv' /\ AnswersWell /\ StaysFit /\ StaysShown

LEMMA ListStands ==
  ASSUME ListInv, UNCHANGED <<listing, cfg, height, everything>>
  PROVE  ListInv' /\ StaysFit /\ StaysShown
BY DEF ListInv, listing, StaysFit, StaysShown

LEMMA PathStands == ASSUME PathInv, UNCHANGED path PROVE PathInv'
BY DEF PathInv, DropSeen

LEMMA QuestionStands ==
  ASSUME AskInv, UNCHANGED <<cfg, confirm, agreed, everything>>, modal' = "confirm" => modal = "confirm"
  PROVE  AskInv'
BY DEF AskInv, NeedsConsent

LEMMA NoAnswer == ASSUME UNCHANGED result PROVE AnswersWell
BY DEF AnswersWell

LEMMA NothingAsked == ASSUME AskInv, cfg' = cfg, modal' # "confirm" PROVE AskInv'
BY DEF AskInv

\* What does not answer, and touches the list and the questions only as shown before.
LEMMA OnlyList ==
  ASSUME PickerInv, cfg' = cfg, UNCHANGED <<path, result>>,
         modal' # "confirm" \/ (modal' = modal /\ UNCHANGED <<confirm, agreed, everything>>),
         ListInv' /\ StaysFit /\ StaysShown
  PROVE  Sound
<1>1. PathInv' /\ AnswersWell
  BY PathStands, NoAnswer DEF PickerInv
<1>2. AskInv'
  BY QuestionStands, NothingAsked DEF PickerInv
<1> QED  BY <1>1, <1>2 DEF Sound, PickerInv

LEMMA ListingAlone ==
  ASSUME PickerInv, OnlyTheListing, modal' \in {modal, "none", "alert"},
         ListInv' /\ StaysFit /\ StaysShown
  PROVE  Sound
<1>1. UNCHANGED <<cfg, path, result, confirm, agreed, everything>>
  BY DEF OnlyTheListing, opened, popups, outcome, switches
<1> QED  BY <1>1, OnlyList

\* What leaves the list, the path and the questions alone, and does not answer.
LEMMA OnlyRest ==
  ASSUME PickerInv, UNCHANGED <<opened, listing, switches, height, confirm, path, outcome>>,
         modal' = "confirm" => modal = "confirm"
  PROVE  Sound
<1>1. UNCHANGED <<cfg, everything, result, agreed>>
  BY DEF opened, switches, outcome
<1>2. ListInv' /\ StaysFit /\ StaysShown
  BY <1>1, ListStands DEF PickerInv
<1>3. PathInv' /\ AskInv' /\ AnswersWell
  BY <1>1, PathStands, QuestionStands, NoAnswer DEF PickerInv
<1> QED  BY <1>2, <1>3 DEF Sound, PickerInv

LEMMA MoveCursorSound == ASSUME PickerInv, MoveCursor PROVE Sound
<1>1. /\ OnlyTheListing /\ UNCHANGED <<all, rows, modal>> /\ UNCHANGED <<cfg, height, everything>>
      /\ rows # <<>>
  BY DEF MoveCursor, OnlyTheListing, opened, switches
<1>2. /\ ListInv /\ ListHeight \in Int /\ ListHeight >= 1 /\ at \in 1..Len(rows) /\ scroll \in Int
      /\ Len(rows) \in Nat /\ DOMAIN rows = 1..Len(rows) /\ 1 \in Int /\ at \in Int /\ Len(rows) \in Int
  BY <1>1, HeightOfList DEF PickerInv, ListInv
<1>3. ASSUME NEW n \in 1..Len(rows), MoveTo(n)
      PROVE  at' \in 1..Len(rows) /\ scroll' \in Nat /\ scroll' < at' /\ at' <= scroll' + ListHeight
  <2>1. at' = n /\ scroll' = ClampScroll(scroll, n) /\ n \in Int /\ n >= 1
    BY <1>2, <1>3 DEF MoveTo
  <2> QED  BY <1>2, <2>1, ClampShows
<1>4. Max({1, at - ListHeight}) \in 1..Len(rows)
  <2> DEFINE b == at - ListHeight
  <2>1. b \in Int /\ b <= Len(rows)
    BY <1>2
  <2> HIDE DEF b
  <2>2. Max({1, b}) \in {1, b} /\ Max({1, b}) >= 1
    BY <1>2, <2>1, MaxOf, Zenon
  <2>3. Max({1, b}) \in 1..Len(rows)
    BY <1>2, <2>1, <2>2
  <2> QED  BY <2>3 DEF b
<1>5. Min({Len(rows), at + ListHeight}) \in 1..Len(rows)
  <2> DEFINE b == at + ListHeight
  <2>1. b \in Int /\ b >= 1
    BY <1>2
  <2> HIDE DEF b
  <2>2. Min({Len(rows), b}) \in {Len(rows), b} /\ Min({Len(rows), b}) <= Len(rows)
    BY <1>2, <2>1, MinOf, Zenon
  <2>3. Min({Len(rows), b}) \in 1..Len(rows)
    BY <1>2, <2>1, <2>2
  <2> QED  BY <2>3 DEF b
<1>6. (\E n \in 1..Len(rows) : MoveTo(n)) \/ (at' = 1 /\ scroll' = 0)
  <2>1. CASE at > 1 /\ MoveTo(at - 1)
    BY <1>2, <2>1
  <2>2. CASE at < Len(rows) /\ MoveTo(at + 1)
    BY <1>2, <2>2
  <2>3. CASE MoveTo(Len(rows))
    <3>1. Len(rows) \in 1..Len(rows)
      BY <1>2
    <3> QED  BY <2>3, <3>1
  <2>4. CASE \E n \in DOMAIN rows : MoveTo(n)
    BY <1>2, <2>4
  <2> QED  BY <1>4, <1>5, <2>1, <2>2, <2>3, <2>4 DEF MoveCursor
<1>7. at' \in 1..Len(rows) /\ scroll' \in Nat /\ scroll' < at' /\ at' <= scroll' + ListHeight
  <2>1. CASE at' = 1 /\ scroll' = 0
    BY <1>2, <2>1
  <2> QED  BY <1>3, <1>6, <2>1
<1>8. ListInv'
  BY <1>1, <1>2, <1>7 DEF ListInv
<1>9. StaysShown
  <2>1. at' \in DOMAIN rows' /\ 0 <= scroll'
    BY <1>1, <1>2, <1>7
  <2> QED  BY <1>7, <2>1 DEF StaysShown, ShownNext
<1>10. StaysFit
  BY <1>1 DEF StaysFit
<1> QED  BY <1>1, <1>8, <1>9, <1>10, ListingAlone

LEMMA NarrowSound ==
  ASSUME PickerInv, NEW on, NEW q, NEW s, Narrow(on, q, s), s = 0 \/ s = ClampScroll(scroll, 1)
  PROVE  Sound
<1>1. /\ OnlyTheListing /\ modal' = modal /\ UNCHANGED <<all, cfg, height, everything>>
      /\ rows' = ApplyNameFilter(all, q) /\ at' = 1 /\ scroll' = s
  BY DEF Narrow, OnlyTheListing, opened, switches
<1>2. ListInv /\ ListHeight \in Int /\ ListHeight >= 1 /\ scroll \in Int /\ all \in Seq(Range(all))
  BY HeightOfList DEF PickerInv, ListInv
<1>3. rows' \in Seq(Range(all))
  BY <1>1, <1>2, NameFilter
<1>4. ClampScroll(scroll, 1) \in Nat /\ ClampScroll(scroll, 1) < 1 /\ 1 <= ClampScroll(scroll, 1) + ListHeight
  <2>1. 1 \in Int /\ 1 >= 1
    OBVIOUS
  <2> QED  BY <1>2, <2>1, ClampShows
<1>5. scroll' \in Nat /\ scroll' < 1 /\ 1 <= scroll' + ListHeight
  <2>1. CASE s = 0
    BY <1>1, <1>2, <2>1
  <2> QED  BY <1>1, <1>4, <2>1
<1>6. ListInv'
  BY <1>1, <1>2, <1>3, <1>5 DEF ListInv
<1>7. rows' # <<>> => 1 \in DOMAIN rows'
  BY <1>3
<1>8. StaysFit /\ StaysShown
  BY <1>1, <1>5, <1>7 DEF StaysFit, StaysShown, ShownNext
<1> QED  BY <1>1, <1>6, <1>8, ListingAlone

LEMMA SearchSound == ASSUME PickerInv, Search PROVE Sound
BY NarrowSound DEF Search

LEMMA UpSound == ASSUME PickerInv, NavigateUp, OnlyTheListing PROVE Sound
<1>1. SameDialog /\ modal' \in {modal, "none", "alert"}
  BY DEF SameDialog, OnlyTheListing, opened, switches, NavigateUp
<1> QED  BY <1>1, UpKeeps, ListingAlone DEF PickerInv

LEMMA LoadSound == ASSUME PickerInv, NEW d, NEW h, LoadDir(d, h), OnlyTheListing PROVE Sound
<1>1. SameDialog /\ modal' \in {modal, "none", "alert"}
  BY DEF SameDialog, OnlyTheListing, opened, switches, LoadDir
<1> QED  BY <1>1, LoadKeeps, ListingAlone DEF PickerInv

\* An end with an answer: the rest stands.
LEMMA EndSound ==
  ASSUME PickerInv, NEW how, NEW paths, End(how, paths), modal' = modal,
         how = "chosen" => Answers
  PROVE  Sound
<1>1. UNCHANGED <<cfg, listing, height, everything, path, confirm, agreed>>
  BY DEF End, opened, switches, popups
<1>2. result' = [how |-> how, paths |-> paths]
  BY DEF End
<1>3. AnswersWell
  BY <1>2 DEF AnswersWell
<1>4. ListInv' /\ StaysFit /\ StaysShown
  BY <1>1, ListStands DEF PickerInv
<1>5. PathInv' /\ AskInv'
  BY <1>1, PathStands, QuestionStands DEF PickerInv
<1> QED  BY <1>3, <1>4, <1>5 DEF Sound, PickerInv

\* A row let through is one of those read.
LEMMA RowAnswers ==
  ASSUME PickerInv, cfg.type = "open", rows # <<>>, rows[at].passes, ~rows[at].isDir,
         End("chosen", {Path(dir, Plain(Name(rows[at])))})
  PROVE  Answers
<1> DEFINE row == rows[at]
<1>1. result'.paths = {Path(dir, Plain(Name(row)))}
  BY DEF End
<1>2. at \in DOMAIN rows /\ rows \in Seq(Range(all))
  BY DEF PickerInv, ListInv
<1>3. row \in Range(all)
  BY <1>2
<1>4. PICK n \in DOMAIN all : all[n] = row
  BY <1>3 DEF Range
<1>5. row # DotDot
  BY DEF DotDot
<1> DEFINE p == Path(dir, Plain(Name(row)))
<1>6. p.name.base = Name(row)
  BY DEF Path, Plain
<1> HIDE DEF row
<1>7. RowsFit => InForce(p)
  <2>1. row.passes /\ ~row.isDir
    BY DEF row
  <2>2. RowsFit => (row.passes <=> PassesFilter(row.isDir, Name(row), everything))
    BY <1>4, <1>5 DEF RowsFit
  <2>3. PassesFilter(row.isDir, Name(row), everything) => PassesFilter(FALSE, Name(row), everything)
    BY <2>1 DEF PassesFilter
  <2> QED  BY <1>6, <2>1, <2>2, <2>3 DEF InForce
<1>8. \A x \in result'.paths : x = p
  BY <1>1
<1> HIDE DEF p
<1>9. OpenAnswer
  BY <1>7, <1>8 DEF OpenAnswer
<1> QED  BY <1>9 DEF Answers

LEMMA ActivateSound == ASSUME PickerInv, ActivateEntry PROVE Sound
<1> DEFINE e == rows[at]
<1>1. CASE NavigateUp /\ OnlyTheListing
  BY <1>1, UpSound
<1>2. CASE LoadDir(Tree[e.entry].to, here) /\ OnlyTheListing
  BY <1>2, LoadSound
<1>3. CASE /\ ~e.isDir /\ cfg.type = "open" /\ rows # <<>>
           /\ e.passes /\ End("chosen", {Path(dir, Plain(Name(e)))}) /\ modal' = modal
  <2>1. Answers
    BY <1>3, RowAnswers
  <2> QED  BY <1>3, <2>1, EndSound
<1>4. CASE UNCHANGED <<opened, files, listing, switches, height, ticked, modal, popups, outcome>>
  <2>1. UNCHANGED <<opened, listing, switches, height, confirm, path, outcome, modal>>
    BY <1>4 DEF popups
  <2> QED  BY <2>1, OnlyRest
<1> QED
  BY <1>1, <1>2, <1>3, <1>4 DEF ActivateEntry

LEMMA EscapeSound == ASSUME PickerInv, Escape PROVE Sound
<1>1. CASE Narrow(FALSE, 0, 0)
  BY <1>1, NarrowSound
<1>2. CASE End("cancelled", {}) /\ modal' = modal
  BY <1>2, EndSound
<1> QED  BY <1>1, <1>2 DEF Escape

\* The focus, ticks, a typed name, an alert closed, other processes.
LEMMA RestSound ==
  ASSUME PickerInv, Tick \/ CycleFocus \/ TypeName \/ CloseAlert \/ OtherProcess
  PROVE  Sound
<1>1. /\ UNCHANGED <<opened, listing, switches, height, confirm, path, outcome>>
      /\ modal' = "confirm" => modal = "confirm"
  BY DEF Tick, CycleFocus, TypeName, CloseAlert, OtherProcess, popups
<1> QED  BY <1>1, OnlyRest

LEMMA SwitchSound == ASSUME PickerInv, Switch PROVE Sound
<1>1. /\ ReloadDir("") /\ UNCHANGED <<cfg, files, height, path, result>>
  BY DEF Switch, opened, popups, outcome
<1>2. modal' # "confirm"
  BY <1>1 DEF ReloadDir
<1> QED  BY <1>1, <1>2, ReloadKeeps, OnlyList DEF PickerInv

LEMMA SaveSound == ASSUME PickerInv, cfg.type = "save", modal = "none", DoSave PROVE Sound
<1> DEFINE p == Path(dir, filename)
           allowed == ~cfg.extensions \/ everything \/ cfg.mode = "all" \/ filename.base \in Pem
           Ask(kind) == modal' = "confirm" /\ confirm' = [kind |-> kind, payload |-> p, yes |-> FALSE]
<1>1. UNCHANGED <<opened, files, listing, switches, height, fields, path, mark, agreed>>
  BY DEF DoSave
<1>2. ListInv' /\ StaysFit /\ StaysShown /\ PathInv'
  BY <1>1, ListStands, PathStands DEF PickerInv, opened, switches
<1>3. cfg' = cfg /\ everything' = everything
  BY <1>1 DEF opened, switches
<1>4. p.name.base = filename.base
  BY DEF Path
<1>5. NeedsConsent(p) <=> ~allowed
  BY <1>4 DEF NeedsConsent
<1>6. cfg.mode \in {"confirm", "strict"}
  BY DEF PickerInv, AskInv
<1>7. \/ modal' = "alert" /\ UNCHANGED result
      \/ filename.base # "" /\ ~allowed /\ cfg.mode = "confirm" /\ Ask("extension") /\ UNCHANGED result
      \/ filename.base # "" /\ allowed /\ Ask("overwrite") /\ UNCHANGED result
      \/ filename.base # "" /\ allowed /\ ~AsksToOverwrite(p) /\ Chosen({p}) /\ UNCHANGED modal
  BY <1>6 DEF DoSave
<1> HIDE DEF p, allowed
<1>8. CASE modal' = "alert" /\ UNCHANGED result
  BY <1>2, <1>3, <1>8, NothingAsked, NoAnswer DEF Sound, PickerInv
<1>9. ASSUME filename.base # "", NEW kind \in {"extension", "overwrite"}, Ask(kind), UNCHANGED result,
             kind = "extension" => cfg.mode = "confirm", kind = "overwrite" => allowed
      PROVE  Sound
  <2>1. confirm' = [kind |-> kind, payload |-> p, yes |-> FALSE] /\ modal' = "confirm"
    BY <1>9
  <2>2. confirm'.payload = p /\ confirm'.kind = kind /\ confirm'.yes = FALSE
    BY <2>1
  <2>3. AskInv'
    BY <1>3, <1>4, <1>5, <1>6, <1>9, <2>1, <2>2 DEF AskInv, NeedsConsent
  <2> QED  BY <1>2, <1>9, <2>3, NoAnswer DEF Sound, PickerInv
<1>10. CASE filename.base # "" /\ allowed /\ ~AsksToOverwrite(p) /\ Chosen({p}) /\ UNCHANGED modal
  <2>1. result'.paths = {p}
    BY <1>10 DEF Chosen
  <2>2. SaveAnswer
    BY <1>4, <1>5, <1>10, <2>1 DEF SaveAnswer, NeedsConsent, AsksToOverwrite
  <2>3. AnswersWell
    BY <2>2 DEF AnswersWell, Answers
  <2>4. AskInv'
    BY <1>3, <1>10, NothingAsked DEF PickerInv
  <2> QED  BY <1>2, <2>3, <2>4 DEF Sound, PickerInv
<1> QED  BY <1>7, <1>8, <1>9, <1>10

LEMMA OKSound == ASSUME PickerInv, modal = "none", DoOK PROVE Sound
<1>0. cfg.type \in {"open", "save", "opendir"}
  BY DEF PickerInv, ListInv
<1>1. CASE cfg.type = "open" /\ ticked # {} /\ End("chosen", ticked) /\ modal' = modal
  <2>1. Answers
    BY <1>1 DEF Answers, OpenAnswer, End
  <2> QED  BY <1>1, <2>1, EndSound
<1>2. CASE /\ cfg.type = "open" /\ rows # <<>> /\ ~rows[at].isDir /\ rows[at].passes
           /\ End("chosen", {Path(dir, Plain(Name(rows[at])))}) /\ modal' = modal
  BY <1>2, RowAnswers, EndSound
<1>3. CASE cfg.type = "opendir" /\ End("chosen", {Path(dir, Plain(""))}) /\ modal' = modal
  <2>1. Answers
    BY <1>3 DEF Answers, End
  <2> QED  BY <1>3, <2>1, EndSound
<1>4. CASE cfg.type = "save" /\ DoSave
  BY <1>4, SaveSound
<1> QED  BY <1>0, <1>1, <1>2, <1>3, <1>4 DEF DoOK

LEMMA AcceptSound == ASSUME PickerInv, Accept PROVE Sound
<1>1. modal = "none"
  BY DEF Accept, OnMain
<1>2. CASE DoOK
  BY <1>1, <1>2, OKSound
<1>3. CASE /\ LoadDir(filename.dir, FALSE)
           /\ UNCHANGED <<opened, files, switches, height, where, ticked, popups, outcome>>
  <2>1. SameDialog /\ UNCHANGED <<path, result>> /\ modal' # "confirm"
    BY <1>1, <1>3 DEF SameDialog, opened, switches, popups, outcome, LoadDir
  <2> QED  BY <1>3, <2>1, LoadKeeps, OnlyList DEF PickerInv, SameDialog
<1>4. CASE End("cancelled", {}) /\ modal' = modal
  BY <1>4, EndSound
<1> QED  BY <1>2, <1>3, <1>4 DEF Accept

LEMMA AnswerSound == ASSUME PickerInv, AnswerConfirm PROVE Sound
<1> DEFINE p == confirm.payload
<1>1. /\ UNCHANGED <<opened, files, listing, switches, height, fields, path, mark>>
      /\ modal = "confirm" /\ cfg' = cfg /\ everything' = everything
  BY DEF AnswerConfirm, opened, switches
<1>2. ListInv' /\ StaysFit /\ StaysShown /\ PathInv'
  BY <1>1, ListStands, PathStands DEF PickerInv
<1>3. /\ cfg.type = "save" /\ p.name.base # "" /\ cfg.mode \in {"confirm", "strict"}
      /\ confirm = [kind |-> confirm.kind, payload |-> p, yes |-> confirm.yes]
      /\ confirm.kind \in {"extension", "overwrite"}
      /\ confirm.kind = "extension" => cfg.mode = "confirm"
      /\ confirm.kind = "overwrite" /\ NeedsConsent(p) =>
           cfg.mode = "confirm" /\ [kind |-> "extension", path |-> p] \in agreed
  BY <1>1 DEF PickerInv, AskInv
<1>4. CASE confirm' = [confirm EXCEPT !.yes = ~@] /\ UNCHANGED <<modal, result, agreed>>
  <2>1. /\ confirm' = [kind |-> confirm.kind, payload |-> p, yes |-> ~confirm.yes]
        /\ confirm'.kind = confirm.kind /\ confirm'.payload = p
    BY <1>3, <1>4, Zenon
  <2>2. confirm' = [kind |-> confirm'.kind, payload |-> confirm'.payload, yes |-> confirm'.yes]
    BY <2>1
  <2>3. AskInv'
    BY <1>1, <1>3, <1>4, <2>1, <2>2 DEF AskInv, NeedsConsent
  <2> QED  BY <1>2, <1>4, <2>3, NoAnswer DEF Sound, PickerInv
<1>5. CASE modal' = "none" /\ confirm' = NoQuestion /\ UNCHANGED <<result, agreed>>
  BY <1>1, <1>2, <1>5, NothingAsked, NoAnswer DEF Sound, PickerInv
<1> DEFINE consent == [kind |-> confirm.kind, path |-> p]
<1>6. CASE /\ confirm.kind = "extension" /\ AsksToOverwrite(p) /\ agreed' = agreed \union {consent}
           /\ modal' = "confirm" /\ result' = result
           /\ confirm' = [kind |-> "overwrite", payload |-> p, yes |-> FALSE]
  <2>1. confirm'.kind = "overwrite" /\ confirm'.payload = p /\ confirm'.yes = FALSE
    BY <1>6
  <2>2. cfg.mode = "confirm" /\ [kind |-> "extension", path |-> p] \in agreed'
    BY <1>3, <1>6
  <2>3. AskInv'
    BY <1>1, <1>3, <1>6, <2>1, <2>2 DEF AskInv
  <2> QED  BY <1>2, <1>6, <2>3, NoAnswer DEF Sound, PickerInv
<1>7. CASE /\ ~(confirm.kind = "extension" /\ AsksToOverwrite(p)) /\ agreed' = agreed \union {consent}
           /\ modal' = "none" /\ Chosen({p})
  <2>1. result'.paths = {p}
    BY <1>7 DEF Chosen
  <2>2. NeedsConsent(p) => cfg.mode = "confirm" /\ Agreed("extension", p)
    BY <1>3, <1>7 DEF Agreed
  <2>3. cfg.exists /\ There(files, p) => Agreed("overwrite", p)
    BY <1>3, <1>7 DEF Agreed, AsksToOverwrite
  <2>4. SaveAnswer
    <3> HIDE DEF p
    <3> QED  BY <1>3, <2>1, <2>2, <2>3 DEF SaveAnswer, NeedsConsent
  <2>5. AnswersWell
    BY <1>3, <2>4 DEF AnswersWell, Answers
  <2>6. AskInv'
    BY <1>1, <1>7, NothingAsked DEF PickerInv
  <2> QED  BY <1>2, <2>5, <2>6 DEF Sound, PickerInv
<1> QED  BY <1>4, <1>5, <1>6, <1>7 DEF AnswerConfirm

-----------------------------------------------------------------------------
(* The path dialog, bookmarks and directories.                             *)

LEMMA PathOpens == ASSUME NEW input, OpenPath(input) PROVE PathInv'
<1> DEFINE comps == Completions(input)
<1>1. comps \in Seq(Range(comps))
  <2>1. Len(Entries) \in Nat
    <3>1. PICK n \in Nat : DOMAIN Tree = 1..n
      BY PickerAssumption
    <3>2. DOMAIN Entries = 1..n /\ Entries \in Seq(1..n)
      BY <3>1 DEF Entries
    <3> QED  BY <3>2
  <2>2. \A S : Only(Entries, S) \in Seq(S)
    BY <2>1, OnlyType
  <2>3. comps = <<>> \/ \E S : comps = Only(Entries, S)
    BY DEF Completions
  <2>4. \E S : comps \in Seq(S)
    <3>1. <<>> \in Seq({})
      OBVIOUS
    <3> HIDE DEF comps
    <3> QED  BY <2>2, <2>3, <3>1
  <2> HIDE DEF comps
  <2> QED  BY <2>4 DEF Range
<1>2. path' = [input |-> input, drop |-> 0, scroll |-> 0, comps |-> comps]
  BY DEF OpenPath
<1> HIDE DEF comps
<1>3. path'.input = input /\ path'.drop = 0 /\ path'.scroll = 0 /\ path'.comps = comps
  BY <1>2
<1> QED  BY <1>1, <1>2, <1>3 DEF PathInv, DropSeen

LEMMA HighlightSeen == ASSUME PathInv, NEW n \in Nat, Highlight(n) PROVE PathInv'
<1> DEFINE s == ClampDrop(n, path.scroll, Len(path.comps))
<1>1. path.scroll \in Int /\ Len(path.comps) \in Nat /\ path.comps \in Seq(Range(path.comps))
  BY DEF PathInv
<1>2. path = [input |-> path.input, drop |-> path.drop, scroll |-> path.scroll, comps |-> path.comps]
  BY DEF PathInv
<1>3. path' = [path EXCEPT !.drop = n, !.scroll = s]
  BY DEF Highlight
<1>4. s \in Int /\ (n # 0 => s < n /\ n <= s + DropMaxH - (IF s + DropMaxH < Len(path.comps) THEN 1 ELSE 0))
  BY <1>1, DropShows
<1> HIDE DEF s
<1>5. path' = [input |-> path.input, drop |-> n, scroll |-> s, comps |-> path.comps]
  BY <1>2, <1>3
<1>6. path'.input = path.input /\ path'.drop = n /\ path'.scroll = s /\ path'.comps = path.comps
  BY <1>5
<1> QED  BY <1>1, <1>4, <1>5, <1>6 DEF PathInv, DropSeen

LEMMA NoPathSeen == ASSUME path' = NoPath PROVE PathInv'
<1>1. path'.drop = 0 /\ path'.scroll = 0 /\ path'.comps = <<>>
  BY DEF NoPath
<1>2. path' = [input |-> path'.input, drop |-> path'.drop, scroll |-> path'.scroll, comps |-> path'.comps]
  BY DEF NoPath
<1>3. path'.comps \in Seq(Range(path'.comps))
  BY <1>1
<1> QED  BY <1>1, <1>2, <1>3 DEF PathInv, DropSeen

\* The path dialog opens, changes and closes over the list.
LEMMA PathSound ==
  ASSUME PickerInv, OpenPathModal \/ EditPath \/ CloseModal
  PROVE  Sound
<1>1. /\ UNCHANGED <<cfg, listing, height, everything, result>>
      /\ modal' # "confirm"
  BY DEF OpenPathModal, EditPath, CloseModal, opened, switches, outcome
<1>2. PathInv'
  <2>1. CASE OpenPathModal
    BY <2>1, PathOpens DEF OpenPathModal
  <2>2. CASE EditPath
    <3>1. path.drop \in Nat
      BY DEF PickerInv, PathInv
    <3>2. CASE path.drop < Len(path.comps) /\ Highlight(path.drop + 1)
      <4>1. path.drop + 1 \in Nat
        BY <3>1
      <4> QED  BY <3>2, <4>1, HighlightSeen DEF PickerInv
    <3>3. CASE path.drop > 0 /\ Highlight(path.drop - 1)
      <4>1. path.drop - 1 \in Nat
        BY <3>1, <3>3
      <4> QED  BY <3>3, <4>1, HighlightSeen DEF PickerInv
    <3>4. CASE Highlight(1)
      BY <3>4, HighlightSeen DEF PickerInv
    <3>5. CASE TabComplete
      BY <3>4, <3>5, PathOpens DEF TabComplete
    <3> QED  BY <2>2, <3>2, <3>3, <3>5, PathOpens DEF EditPath
  <2>3. CASE CloseModal
    BY <2>3, NoPathSeen DEF CloseModal
  <2> QED  BY <2>1, <2>2, <2>3
<1>3. ListInv' /\ StaysFit /\ StaysShown /\ AskInv' /\ AnswersWell
  BY <1>1, ListStands, NothingAsked, NoAnswer DEF PickerInv
<1> QED  BY <1>2, <1>3 DEF Sound, PickerInv

LEMMA CommitSound == ASSUME PickerInv, CommitPath PROVE Sound
<1>1. /\ UNCHANGED <<opened, files, switches, height, where, ticked, confirm, mark, agreed>>
      /\ path' = NoPath /\ modal = "path"
  BY DEF CommitPath
<1>2. SameDialog
  BY <1>1 DEF SameDialog, opened, switches
<1>3. PathInv'
  BY <1>1, NoPathSeen
<1>4. ASSUME NEW d, NEW h, LoadDir(d, h), UNCHANGED result
      PROVE  Sound
  <2>1. modal' # "confirm"
    BY <1>1, <1>4 DEF LoadDir
  <2> QED  BY <1>2, <1>3, <1>4, <2>1, LoadKeeps, NothingAsked, NoAnswer DEF Sound, PickerInv, SameDialog
<1>5. ASSUME UNCHANGED <<listing, result>>, modal' \in {"none", "alert"}
      PROVE  Sound
  BY <1>2, <1>3, <1>5, ListStands, NothingAsked, NoAnswer DEF Sound, PickerInv, SameDialog
<1>6. ASSUME NEW input, cfg.type = "open", PassesFilter(FALSE, input.name, everything),
             Chosen({Path(input.dir, Plain(input.name))}), UNCHANGED listing, modal' = "none"
      PROVE  Sound
  <2> DEFINE p == Path(input.dir, Plain(input.name))
  <2>1. result'.paths = {p} /\ p.name.base = input.name
    BY <1>6 DEF Chosen, Path, Plain
  <2> HIDE DEF p
  <2>2. AnswersWell
    BY <1>6, <2>1 DEF AnswersWell, Answers, OpenAnswer, InForce
  <2> QED  BY <1>2, <1>3, <1>6, <2>2, ListStands, NothingAsked DEF Sound, PickerInv, SameDialog
<1> QED  BY <1>4, <1>5, <1>6 DEF CommitPath

LEMMA BookmarksSound == ASSUME PickerInv, Bookmarks PROVE Sound
<1>1. /\ UNCHANGED <<opened, switches, height, path, result>> /\ modal' # "confirm"
  BY DEF Bookmarks, outcome, LoadDir
<1>2. SameDialog
  BY <1>1 DEF SameDialog, opened, switches
<1>3. UNCHANGED listing \/ \E d, h : LoadDir(d, h)
  BY DEF Bookmarks
<1>4. ListInv' /\ StaysFit /\ StaysShown
  BY <1>2, <1>3, ListStands, LoadKeeps DEF PickerInv, SameDialog
<1> QED  BY <1>1, <1>2, <1>4, OnlyList DEF SameDialog

LEMMA NewDirSound == ASSUME PickerInv, NewDir PROVE Sound
<1>1. /\ UNCHANGED <<opened, switches, height, path, result>> /\ modal' # "confirm"
  BY DEF NewDir, popups, outcome, ReloadDir
<1>2. SameDialog
  BY <1>1 DEF SameDialog, opened, switches
<1>3. UNCHANGED listing \/ \E name : ReloadDir(name)
  BY DEF NewDir
<1>4. ListInv' /\ StaysFit /\ StaysShown
  BY <1>2, <1>3, ListStands, ReloadKeeps DEF PickerInv, SameDialog
<1> QED  BY <1>1, <1>2, <1>4, OnlyList DEF SameDialog

LEMMA ResizeSound == ASSUME PickerInv, Resize PROVE Sound
<1>1. /\ UNCHANGED <<cfg, listing, everything, path, result, modal, confirm, agreed>> /\ height' \in Int
  BY PickerAssumption DEF Resize, opened, switches, popups, outcome
<1>2. ListInv' /\ StaysFit /\ StaysShown
  BY <1>1 DEF PickerInv, ListInv, StaysFit, StaysShown, listing
<1> QED  BY <1>1, <1>2, OnlyList

-----------------------------------------------------------------------------
(* The theorem.                                                            *)

LEMMA PickerStarts == PickerInit => PickerInv
<1> SUFFICES ASSUME NEW s \in Sessions, NewPickerModel(s) PROVE PickerInv
  BY DEF PickerInit
<1>1. cfg = Dialogs[s.dialog] /\ height \in TermHeights
  BY DEF NewPickerModel
<1>2. cfg.type \in {"open", "save", "opendir"} /\ cfg.mode \in {"confirm", "strict"}
  <2>1. \A t : FieldPicker(t).type = t /\ FieldPicker(t).mode = "confirm"
    BY DEF FieldPicker, New
  <2>2. /\ Dialogs.openField = FieldPicker("open") /\ Dialogs.directoryField = FieldPicker("opendir")
        /\ Dialogs.saveField = FieldPicker("save")
    BY DEF Dialogs
  <2>3. /\ Dialogs.saveChain.type = "save" /\ Dialogs.saveChain.mode = "confirm"
        /\ Dialogs.verifyFile.type = "open" /\ Dialogs.verifyFile.mode = "confirm"
        /\ Dialogs.saveCertificate.type = "save" /\ Dialogs.saveCertificate.mode = "confirm"
        /\ Dialogs.openSeveral.type = "open" /\ Dialogs.openSeveral.mode = "confirm"
        /\ Dialogs.saveNew.type = "save" /\ Dialogs.saveNew.mode = "confirm"
        /\ Dialogs.saveStrict.type = "save" /\ Dialogs.saveStrict.mode = "strict"
    BY DEF Dialogs, New
  <2> QED  BY <1>1, <2>1, <2>2, <2>3, PickerAssumption
<1>3. all \in Seq(Range(all)) /\ rows = all /\ at = 1 /\ scroll = 0 /\ height \in Int
  <2>1. all = ReadDir(files, dir, hidden, everything) \/ all = <<>>
    BY DEF NewPickerModel
  <2>2. <<>> \in Seq(Range(<<>>))
    OBVIOUS
  <2>3. all \in Seq(Range(all))
    BY <2>1, <2>2, ReadDirFits
  <2> QED  BY <2>3, PickerAssumption DEF NewPickerModel
<1>4. ListInv
  BY <1>2, <1>3 DEF ListInv
<1>5. PathInv
  <2>1. path = NoPath
    BY DEF NewPickerModel
  <2>2. path.drop = 0 /\ path.scroll = 0 /\ path.comps = <<>>
    BY <2>1 DEF NoPath
  <2>3. path = [input |-> path.input, drop |-> path.drop, scroll |-> path.scroll, comps |-> path.comps]
    BY <2>1 DEF NoPath
  <2>4. path.comps \in Seq(Range(path.comps))
    BY <2>2
  <2> QED  BY <2>2, <2>3, <2>4 DEF PathInv, DropSeen
<1>6. modal # "confirm"
  BY DEF NewPickerModel
<1> QED  BY <1>2, <1>4, <1>5, <1>6 DEF PickerInv, AskInv

LEMMA PickerSteps == ASSUME PickerInv, PickerNext PROVE Sound
BY MoveCursorSound, SearchSound, UpSound, ActivateSound, EscapeSound, RestSound, SwitchSound,
   AcceptSound, AnswerSound, PathSound, CommitSound, BookmarksSound, NewDirSound, ResizeSound
DEF PickerNext, Up

\* Only a resize changes the window's height.
LEMMA SameWindow == ASSUME UNCHANGED <<cfg, height>> PROVE ListHeight' = ListHeight
BY DEF ListHeight, BoxHeight, ShowsFilterBar

LEMMA HeightNext == ASSUME ListInv' PROVE ListHeight' \in Int
<1> DEFINE inner == BoxHeight' - 12 - Parts[cfg'.type] - (IF ShowsFilterBar' THEN 2 ELSE 0)
<1>1. BoxHeight' \in Int
  <2> DEFINE low == Min({height', MaxBox})
  <2>1. low \in Int
    BY PickerAssumption, MinOf DEF ListInv
  <2>2. BoxHeight' = Max({MinBox, low})
    BY DEF BoxHeight
  <2> HIDE DEF low
  <2> QED  BY <2>1, <2>2, PickerAssumption, MaxOf
<1>2. Parts[cfg'.type] \in Int
  BY DEF ListInv, Parts
<1>3. inner \in Int
  BY <1>1, <1>2
<1>4. ListHeight' = Max({1, inner})
  BY DEF ListHeight
<1> HIDE DEF inner
<1>5. \A x \in Int : Max({1, x}) \in Int
  <2>1. 1 \in Int
    OBVIOUS
  <2> QED  BY <2>1, MaxOf
<1>6. Max({1, inner}) \in Int
  BY <1>3, <1>5
<1> QED  BY <1>4, <1>6, Zenon

LEMMA HeightStands == ListInv /\ PickerNext => UNCHANGED <<cfg, height>> \/ Resize
<1>1. MoveCursor \/ Search \/ Up \/ Tick \/ ActivateEntry => UNCHANGED <<cfg, height>>
  <2>1. OnlyTheListing => UNCHANGED <<cfg, height>>
    BY DEF OnlyTheListing, opened
  <2>2. MoveCursor \/ Search \/ Up => OnlyTheListing
    BY Zenon DEF MoveCursor, Search, Narrow, Up
  <2>3. Tick => UNCHANGED <<cfg, height>>
    BY DEF Tick, opened
  <2>4. ActivateEntry => UNCHANGED <<cfg, height>>
    BY <2>1 DEF ActivateEntry, End, opened
  <2> QED  BY <2>1, <2>2, <2>3, <2>4
<1>2. Escape \/ CycleFocus \/ Switch => UNCHANGED <<cfg, height>>
  BY DEF Escape, Narrow, End, CycleFocus, Switch, OnlyTheListing, opened
<1>3. ListInv /\ (Accept \/ TypeName) => UNCHANGED <<cfg, height>>
  <2>1. \A how, paths : End(how, paths) => UNCHANGED <<cfg, height>>
    BY DEF End, opened
  <2>2. DoSave => UNCHANGED <<cfg, height>>
    BY DEF DoSave, opened
  <2>3. ListInv /\ DoOK => UNCHANGED <<cfg, height>>
    BY <2>1, <2>2 DEF DoOK, ListInv
  <2> QED  BY <2>1, <2>2, <2>3 DEF Accept, TypeName, opened
<1>4. AnswerConfirm \/ CloseAlert \/ OpenPathModal \/ EditPath \/ CommitPath => UNCHANGED <<cfg, height>>
  BY DEF AnswerConfirm, CloseAlert, OpenPathModal, EditPath, CommitPath, opened
<1>5. Bookmarks \/ NewDir \/ CloseModal \/ OtherProcess => UNCHANGED <<cfg, height>>
  BY DEF Bookmarks, NewDir, CloseModal, OtherProcess, opened
<1> QED  BY <1>1, <1>2, <1>3, <1>4, <1>5 DEF PickerNext

\* What is on the screen stays there, unless the terminal becomes smaller.
LEMMA WindowFollows ==
  ASSUME PickerInv, PickerNext, Sound
  PROVE  /\ RowShown => RowShown' \/ ListHeight' < ListHeight
         /\ (rows' # rows \/ at' # at) => RowShown'
<1>1. CASE UNCHANGED <<cfg, height>>
  <2>1. ListHeight' = ListHeight
    BY <1>1, SameWindow
  <2> QED  BY <2>1 DEF Sound, StaysShown, ShownNext, RowShown
<1>2. CASE Resize
  <2>1. UNCHANGED <<rows, at, scroll>>
    BY <1>2 DEF Resize, listing
  <2>2. ListHeight \in Int /\ ListHeight' \in Int
    <3>1. ListInv /\ ListInv'
      BY DEF Sound, PickerInv
    <3> QED  BY <3>1, HeightNext, HeightOfList
  <2>3. rows # <<>> => at \in Int /\ scroll \in Int
    BY DEF PickerInv, ListInv
  <2> QED  BY <2>1, <2>2, <2>3 DEF RowShown
<1> QED  BY <1>1, <1>2, HeightStands DEF PickerInv

\* For any tree, any dialogs and anything other processes do: the dialog answers only
\* with what its caller asked for, the highlighted completion can be seen, and only a
\* terminal that becomes smaller hides the row the keys act on, until the rows or the
\* cursor change.
THEOREM PicksAreSound == PickerSpec => PickIsSound
<1> DEFINE Bracket == /\ (result'.how = "chosen" /\ result.how = "none") => Answers
                      /\ (all' # all \/ everything' # everything) /\ RowsFit =>
                           RowsFit' \/ (everything' # everything /\ ~Readable(files, dir))
                      /\ RowShown => RowShown' \/ ListHeight' < ListHeight
                      /\ (rows' # rows \/ at' # at) => RowShown'
                      /\ DropShown'
<1>1. PickerInv /\ [PickerNext]_pickerVars => PickerInv'
  <2>1. PickerInv /\ PickerNext => PickerInv'
    BY PickerSteps DEF Sound
  <2>2. ASSUME PickerInv, UNCHANGED pickerVars PROVE PickerInv'
    <3>1. UNCHANGED <<listing, cfg, height, everything>> /\ UNCHANGED path
          /\ UNCHANGED <<cfg, confirm, agreed, everything>> /\ modal' = modal
      BY <2>2 DEF pickerVars, opened, switches, popups, outcome
    <3> QED  BY <2>2, <3>1, ListStands, PathStands, QuestionStands DEF PickerInv
  <2> QED  BY <2>1, <2>2
<1>2. PickerInv /\ [PickerNext]_pickerVars => [Bracket]_pickerVars
  <2>1. PickerInv /\ PickerNext => Sound
    BY PickerSteps
  <2>2. PickerInv /\ PickerNext => /\ RowShown => RowShown' \/ ListHeight' < ListHeight
                                   /\ (rows' # rows \/ at' # at) => RowShown'
    BY <2>1, WindowFollows
  <2>3. Sound => /\ (result'.how = "chosen" /\ result.how = "none") => Answers
                 /\ (all' # all \/ everything' # everything) /\ RowsFit =>
                      RowsFit' \/ (everything' # everything /\ ~Readable(files, dir))
                 /\ DropShown'
    BY DEF Sound, AnswersWell, StaysFit, PickerInv, PathInv, DropSeen, DropShown
  <2> QED  BY <2>1, <2>2, <2>3
<1>3. PickerInit => RowShown
  <2>1. ASSUME PickerInit PROVE RowShown
    <3>1. ListInv /\ at = 1 /\ scroll = 0
      BY <2>1, PickerStarts DEF PickerInit, NewPickerModel, PickerInv
    <3>2. ListHeight \in Int /\ ListHeight >= 1
      BY <3>1, HeightOfList
    <3>3. rows # <<>> => at \in DOMAIN rows
      BY <3>1 DEF ListInv
    <3> QED  BY <3>1, <3>2, <3>3 DEF RowShown
  <2> QED  BY <2>1
<1>4. PickerSpec => RowShown /\ [][Bracket]_pickerVars
  BY PickerStarts, <1>1, <1>2, <1>3, PTL DEF PickerSpec
<1> QED  BY <1>4 DEF PickIsSound
=============================================================================
