------------------------------ MODULE RootModel ------------------------------
(***************************************************************************)
(* internal/tui: RootModel, the single model behind every view of the TUI. *)
(* Update is called with one message at a time: a key, or the result of a  *)
(* command that was started earlier and ran meanwhile.  A result is merged *)
(* into whatever the model is by then; what keeps that safe is that most   *)
(* commands are started together with the view "loading", which takes no   *)
(* key but Esc and Ctrl+C.                                                 *)
(*                                                                         *)
(* Modelled: the views, what is shown in them (rows: which store, with     *)
(* which fetched issuers and verdicts), the open form, popups and pending  *)
(* questions, the scan context, and every command with each of its         *)
(* outcomes.  Left out: cursor, scrolling, folding, check and diff views   *)
(* (they return where they came from), and what is typed into a form.  A   *)
(* question asked in place (confirmDelete, confirmOverwrite,               *)
(* confirmDiscard) is one step with the key that answers it.               *)
(***************************************************************************)
EXTENDS Naturals, FiniteSets

CONSTANTS
  Targets,        \* remote endpoints
  Features,       \* groups of actions in play, a subset of AllFeatures
  Starts,         \* how the program is started: members of {"lister", "store", "pcap"}
  TrustColumn,    \* tuiOpts.ActiveCols contains a trust column
  MaxLoads,       \* bound: commands started in one session
  None

AllFeatures == {"remote", "refetch", "verify", "trust", "aia", "lister", "columns", "options",
                "files", "shell", "packet", "proxy", "save"}

ASSUME RootAssumption ==
  /\ Features \subseteq AllFeatures /\ Starts \subseteq {"lister", "store", "pcap"}
  /\ TrustColumn \in BOOLEAN /\ MaxLoads \in Nat \ {0} /\ None \notin Targets
  /\ None \notin {"functions", "actions", "file", "remote", "proxy", "error", "confirm", "shell", "saveAll", "scan"}

VARIABLES
  m,          \* the RootModel
  pending,    \* commands running, each to end in one result message
  loads,      \* commands started so far
  cancelled,  \* contexts Esc has cancelled (a context is named by the load it was made for)
  quit

vars == <<m, pending, loads, cancelled, quit>>

Trees  == {"tree", "split"}
Views  == Trees \cup {"loading", "search", "password", "menu", "form", "multiSelect", "columnEditor", "options",
                      "remoteForm", "packetAnalyzer", "packetForm", "trustVerify", "verifyPick"}
Roots  == {"certLister", "remoteFetch", "packetAnalyzer", "trustStore"}
Owners == {"none", "scan", "remote", "trust"}

\* m.store and the rows made from it.  load: the command that brought the data;
\* aia: the target (or "scan") whose fetched issuers are rows too; judged: the
\* load of the store whose trust index fills the trust column (0: it is blank).
NoRows == [owner |-> "none", load |-> 0, aia |-> None, judged |-> 0]
NoRemote == [load |-> 0, target |-> None]
Kinds == {"scan", "remote", "refetch", "trust", "listerTrust", "aia", "unlock", "submit", "saveAll", "proxy", "shell"}
Cmd(kind, load, ctx, target) == [kind |-> kind, load |-> load, ctx |-> ctx, target |-> target]

\* NewRootModel and Init.
Init ==
  \E s \in Starts :
    /\ m = [state |-> IF s = "pcap" THEN "packetAnalyzer" ELSE "loading",
            root |-> CASE s = "lister" -> "certLister" [] s = "store" -> "trustStore" [] OTHER -> "packetAnalyzer",
            prevState |-> "loading", prevRoot |-> "certLister", back |-> "tree", menu |-> None, form |-> None,
            detail |-> 0, rows |-> NoRows, popup |-> None, confirm |-> None, deleting |-> FALSE,
            remote |-> NoRemote, aia |-> None, stores |-> 0, index |-> 0, verify |-> FALSE,
            verdict |-> FALSE, columns |-> TrustColumn, ctx |-> 1, proxy |-> FALSE]
    /\ pending = CASE s = "lister" -> {Cmd("scan", 1, 1, None)} [] s = "store" -> {Cmd("trust", 1, 1, None)} [] OTHER -> {}
    /\ loads = 1 /\ cancelled = {} /\ quit = FALSE

-----------------------------------------------------------------------------
(* The steps Update is made of.                                            *)

Go(mm, done, new) == m' = mm /\ pending' = (pending \ done) \cup new /\ UNCHANGED <<cancelled, quit>>
Stay(mm)          == Go(mm, {}, {}) /\ UNCHANGED loads
Finish(mm, c)     == Go(mm, {c}, {}) /\ UNCHANGED loads
Begin(mm, done, kind, ctx, target) ==
  loads < MaxLoads /\ loads' = loads + 1 /\ Go(mm, done, {Cmd(kind, loads + 1, ctx, target)})

\* resetScanContext and a command under the new context, behind the loading view;
\* or a command that no context of the model stops (0).
Load(mm, done, kind, target) == Begin([mm EXCEPT !.state = "loading", !.ctx = loads + 1], done, kind, loads + 1, target)
LoadUnstoppable(mm, kind, target) == Begin([mm EXCEPT !.state = "loading"], {}, kind, 0, target)

\* While a shell runs the keys are its own.
Key(views) == ~quit /\ m.popup = None /\ m.state \in views /\ \A c \in pending : c.kind # "shell"
Has(feature) == feature \in Features
InTrust  == m.root = "trustStore"
InRemote == m.root = "remoteFetch" /\ m.remote.load > 0
Popup(mm, kind) == [mm EXCEPT !.popup = kind]
View(mm, view)  == [mm EXCEPT !.state = view]

\* isReadOnlySource of the row at the cursor: the guard is on the rows; the
\* fetched issuers among remote rows have none.  A filter that leaves no row,
\* and so nothing to act on, is left out.
OnScreen(mm) == mm.root \notin {"trustStore", "remoteFetch"}
Writable(mm) == mm.rows.owner \in {"none", "scan"} \/ (mm.rows.owner = "remote" /\ mm.rows.aia # None)

RebuildRemote(mm) ==
  [mm EXCEPT !.rows = [owner |-> "remote", load |-> mm.remote.load, aia |-> mm.aia, judged |-> 0],
             !.columns = TrustColumn]
RebuildTrust(mm) ==
  [mm EXCEPT !.rows = [owner |-> "trust", load |-> mm.stores, aia |-> None, judged |-> 0], !.columns = TRUE]

\* ConvertStore makes rows without verdicts; decorateListerNodes fills them from
\* the index at hand, whichever store it was computed for.
Convert(mm)  == [mm EXCEPT !.rows.judged = 0]
Decorate(mm) == [mm EXCEPT !.rows.judged = mm.index]
ApplyListerTrust(mm) == Decorate([mm EXCEPT !.index = mm.rows.load])

\* ensureListerTrust, with which a scan and the column editor end.
NeedsTrust(mm) == mm.root # "trustStore" /\ mm.rows.owner # "none" /\ mm.columns /\ mm.index = 0
Ensured(mm)    == IF NeedsTrust(mm) /\ mm.stores > 0 THEN ApplyListerTrust(mm) ELSE mm
EnsureCmds(mm) == IF NeedsTrust(mm) /\ mm.stores = 0 THEN {Cmd("listerTrust", mm.rows.load, 0, None)} ELSE {}

-----------------------------------------------------------------------------
(* Keys of the tree and split views.                                       *)

OpenDetail  == Key(Trees) /\ m.rows.owner # "none" /\ Stay([m EXCEPT !.detail = m.rows.load, !.state = "split"])
CloseDetail == Key({"split"}) /\ Stay([m EXCEPT !.detail = 0, !.state = "tree"])

OpenSearch == Key(Trees) /\ Stay(View(m, "search"))
EndSearch  == Key({"search"}) /\ Stay(View(m, IF m.detail > 0 THEN "split" ELSE "tree"))

\* r, by root view: reload the stores, fetch again, or scan.
ReloadStores == Key(Trees) /\ InTrust /\ Load([m EXCEPT !.stores = 0, !.detail = 0], {}, "trust", None)
Refetch      == Key(Trees) /\ InRemote /\ LoadUnstoppable([m EXCEPT !.detail = 0], "refetch", m.remote.target)
Rescan       == Key(Trees) /\ ~InTrust /\ ~InRemote /\ Load([m EXCEPT !.detail = 0], {}, "scan", None)

\* startAIAFetch, under the context of the last load.
\* A context that is cancelled already lets it fetch nothing.
NoCommand(mm) == Stay(View(mm, "loading"))
AIACommand(mm) ==
  Begin(View(mm, "loading"), {}, "aia", mm.ctx,
        CASE mm.ctx \in cancelled -> None [] mm.ctx \notin cancelled /\ InRemote -> mm.remote.target [] OTHER -> "scan")
FetchAIA == Key(Trees) /\ ~InTrust /\ m.rows.owner # "none" /\ AIACommand([m EXCEPT !.detail = 0])

Unlock ==
  \/ Key(Trees) /\ m.rows.owner = "scan" /\ Stay([m EXCEPT !.prevState = m.state, !.state = "password"])
  \/ Key({"password"}) /\ (LoadUnstoppable(m, "unlock", None) \/ Stay(View(m, m.prevState)))

OpenMenu(menu) == Stay([m EXCEPT !.prevState = m.state, !.menu = menu, !.state = "menu"])
OpenFunctions  == Key(Trees \cup {"packetAnalyzer"}) /\ ~m.proxy /\ OpenMenu("functions")
OpenActions    == Key(Trees) /\ Writable(m) /\ OpenMenu("actions")
CloseMenu      == Key({"menu"}) /\ Stay(View(m, m.prevState))
Choose(menu)   == Key({"menu"}) /\ m.menu = menu

Shell ==
  \/ Key(Trees) /\ Stay(Popup(m, "shell"))
  \/ /\ ~quit /\ m.popup = "shell"
     /\ \/ Stay(Popup(m, None))
        \/ loads + 2 <= MaxLoads /\ Begin(Popup(m, None), {}, "shell", 0, None)

\* Ctrl+D in the tree, answered with y.
DeleteFile ==
  /\ Key(Trees) /\ m.rows.owner # "none" /\ Writable(m)
  /\ Stay(Popup(View(m, "tree"), "error")) \/ Load([m EXCEPT !.detail = 0], {}, "scan", None)

-----------------------------------------------------------------------------
(* The functions menu: switching root views.                               *)

GoLister == Choose("functions") /\ Load([m EXCEPT !.root = "certLister", !.columns = TrustColumn, !.detail = 0], {}, "scan", None)

GoPacket == Choose("functions") /\ Stay([m EXCEPT !.root = "packetAnalyzer", !.state = "packetAnalyzer"])

\* openTrustStores; stores in hand are shown again.
GoTrust ==
  /\ Choose("functions")
  /\ LET mm == [m EXCEPT !.root = "trustStore", !.detail = 0]
     IN IF m.stores > 0 THEN Stay(View(RebuildTrust(mm), "tree")) ELSE Load(mm, {}, "trust", None)

SwapsPrevious(mm) == [mm EXCEPT !.form = "remote", !.prevState = mm.state, !.prevRoot = mm.state, !.state = "remoteForm"]
RemoteForm(mm) == [mm EXCEPT !.form = "remote", !.prevState = mm.state, !.prevRoot = mm.root, !.state = "remoteForm"]
ShowRemote(mm) == View(RebuildRemote([mm EXCEPT !.root = "remoteFetch"]), "tree")
GoRemote ==
  /\ Choose("functions")
  /\ IF m.remote.load > 0 THEN Stay(ShowRemote([m EXCEPT !.detail = 0]))
     ELSE Stay([RemoteForm(m) EXCEPT !.root = "remoteFetch"])

-----------------------------------------------------------------------------
(* The remote form and the trust store's verify action.                    *)

NewRemote == Key(Trees) /\ InRemote /\ Stay(RemoteForm(m))

SubmitRemote == Key({"remoteForm"}) /\ m.form # None /\ \E t \in Targets : Load(m, {}, "remote", t)

\* Esc: leaveRemoteForm.
KeepsVerify(mm) == IF mm.verify THEN View([mm EXCEPT !.root = mm.prevRoot], "tree") ELSE mm
LeaveRemoteForm(mm) ==
  CASE mm.verify -> View([mm EXCEPT !.verify = FALSE, !.root = mm.prevRoot], "tree")
    [] ~mm.verify /\ mm.remote.load > 0 -> ShowRemote(mm)
    [] OTHER -> View([mm EXCEPT !.root = mm.prevRoot],
                     IF mm.prevState \in {"remoteForm", "loading", "menu"} THEN "tree" ELSE mm.prevState)
EscRemoteForm == Key({"remoteForm"}) /\ Stay(LeaveRemoteForm([m EXCEPT !.form = None]))

\* V: a file is verified at once, an endpoint through the remote form.
VerifyPick == Key(Trees) /\ InTrust /\ Stay([m EXCEPT !.prevState = m.state, !.state = "verifyPick"])
VerifyPicked ==
  /\ Key({"verifyPick"})
  /\ \/ Stay(View(m, m.prevState))
     \/ Stay(View(m, "trustVerify"))
     \/ m.rows.owner # "none" /\ Stay(RemoteForm([m EXCEPT !.verify = TRUE]))
LeaveVerify ==
  /\ Key({"trustVerify"})
  /\ LET mm == [m EXCEPT !.verdict = FALSE]
     IN \/ m.verdict /\ m.remote.load > 0 /\ Stay(ShowRemote(mm))
        \/ Stay(View(IF m.verdict THEN RebuildTrust([mm EXCEPT !.root = "trustStore"]) ELSE mm, "tree"))

-----------------------------------------------------------------------------
(* Forms that write files, multi-select, and the questions in a popup.     *)

ChooseForm == Choose("actions") /\ Stay([m EXCEPT !.form = "file", !.state = "form"])
ClosesOnSubmit ==
  Key({"form"}) /\ m.form # None /\ loads + 2 <= MaxLoads /\ LoadUnstoppable([m EXCEPT !.form = None], "submit", None)
SubmitForm == Key({"form"}) /\ m.form # None /\ loads + 2 <= MaxLoads /\ LoadUnstoppable(m, "submit", None)
LeaveForm  == Key({"form"}) /\ Stay([m EXCEPT !.form = None, !.state = m.prevState])

OpenMultiSelect  == Key(Trees) /\ Writable(m) /\ Stay([m EXCEPT !.back = m.state, !.state = "multiSelect"])
LeaveMultiSelect == Key({"multiSelect"}) /\ Stay(View(m, m.back))
Bundle == Key({"multiSelect"}) /\ Stay([m EXCEPT !.form = "file", !.prevState = "multiSelect", !.state = "form"])
DeleteSelected == Key({"multiSelect"}) /\ m.rows.owner # "none" /\ Stay([m EXCEPT !.popup = "confirm", !.deleting = TRUE])

SaveAll == Key(Trees) /\ InRemote /\ Stay([m EXCEPT !.popup = "confirm", !.confirm = "saveAll"])

\* y: the action stored with the popup, or else the deletion (doDeleteFiles).
Confirm ==
  LET mm == Popup(m, None) IN
  /\ ~quit /\ m.popup = "confirm"
  /\ \/ m.confirm # None /\ Begin([mm EXCEPT !.confirm = None], {}, m.confirm, 0, None)
     \/ /\ m.confirm = None
        /\ \/ Load([mm EXCEPT !.deleting = FALSE, !.detail = 0], {}, "scan", None)
           \/ Stay([mm EXCEPT !.deleting = FALSE, !.popup = "error", !.state = m.back])
Decline == ~quit /\ m.popup = "confirm" /\ Stay([m EXCEPT !.popup = None, !.confirm = None, !.deleting = FALSE])
Dismiss == ~quit /\ m.popup = "error" /\ Stay(Popup(m, None))

-----------------------------------------------------------------------------
(* The column and options editors, and grouping.                           *)

Crash == m' = View(m, "panic") /\ quit' = TRUE /\ UNCHANGED <<pending, loads, cancelled>>

OpenColumns == Key(Trees) /\ Stay([m EXCEPT !.back = m.state, !.state = "columnEditor"])
\* A column is switched: ConvertStore(m.store) needs a store.
ToggleColumn ==
  /\ Key({"columnEditor"})
  /\ LET mm == [m EXCEPT !.columns = ~m.columns]
         shown == IF InTrust THEN Convert(mm) ELSE Decorate(mm)
     IN IF m.rows.owner = "none" THEN Crash
        ELSE Go(Ensured(shown), {}, EnsureCmds(shown)) /\ UNCHANGED loads
CloseEditor == Key({"columnEditor", "options"}) /\ Stay(View(m, m.back))

OpenOptions == Key(Trees) /\ Stay([m EXCEPT !.back = m.state, !.state = "options"])
ScansBehind ==
  Key({"options"}) /\ ~InTrust /\ Begin([View(m, m.back) EXCEPT !.ctx = loads + 1], {}, "scan", loads + 1, None)
\* Closed with nothing changed (CloseEditor), or with a store, scan or display
\* option changed.
ApplyOptions ==
  /\ Key({"options"})
  /\ LET mm == View(m, m.back)
     IN \/ InTrust /\ Stay(RebuildTrust([mm EXCEPT !.detail = 0]))
        \/ ~InTrust /\ Load(mm, {}, "scan", None)
        \/ m.rows.owner # "none" /\ Stay(Convert([mm EXCEPT !.detail = 0]))

ToggleGrouping == Key(Trees) /\ InTrust /\ Stay(RebuildTrust([m EXCEPT !.detail = 0]))

-----------------------------------------------------------------------------
(* The proxy of the packet analyzer.                                       *)

ProxyForm   == Key({"packetAnalyzer"}) /\ ~m.proxy /\ Stay([m EXCEPT !.form = "proxy", !.state = "packetForm"])
SubmitProxy == Key({"packetForm"}) /\ m.form # None /\ Begin(View(m, "packetAnalyzer"), {}, "proxy", 0, None)
LeavePacketForm == Key({"packetForm"}) /\ Stay([m EXCEPT !.form = None, !.state = "packetAnalyzer"])
StopProxy   == Key({"packetAnalyzer"}) /\ m.proxy /\ Stay([m EXCEPT !.proxy = FALSE])

-----------------------------------------------------------------------------
(* Esc while loading, and Ctrl+C.                                          *)

EscLoading ==
  /\ Key({"loading"}) /\ cancelled' = cancelled \cup {m.ctx}
  /\ UNCHANGED <<m, pending, loads, quit>>

QuitViews == Views \ {"search", "password", "form"}
CtrlC == Key(QuitViews) /\ quit' = TRUE /\ UNCHANGED <<m, pending, loads, cancelled>>

\* Any other key in the remote form goes to the form.
TypeRemote == Key({"remoteForm"}) /\ m.form = None /\ Crash

-----------------------------------------------------------------------------
(* Results of commands.                                                    *)

\* A context cancelled by now may have been cancelled after the command had its
\* answer, so cancelled commands end in the other ways too.
Cancelled(c) == c.ctx \in cancelled

\* handleScanComplete; a cancelled scan shows what it found so far.
ScanResult(c) ==
  \/ Finish(View(m, "tree"), c)
  \/ LET mm == [m EXCEPT !.rows = [owner |-> "scan", load |-> c.load, aia |-> None, judged |-> 0], !.state = "tree"]
     IN Go(Ensured(mm), {c}, EnsureCmds(mm)) /\ UNCHANGED loads

\* handleRemoteFetchResult; an answer to a pending verification is a verdict.
Fetched(c) ==
  LET mm == RebuildRemote([m EXCEPT !.remote = [load |-> c.load, target |-> c.target], !.form = None, !.root = "remoteFetch"])
  IN IF m.verify THEN [mm EXCEPT !.verify = FALSE, !.verdict = TRUE, !.state = "trustVerify"] ELSE View(mm, "tree")
RemoteResult(c) ==
  \/ Cancelled(c) /\ Finish(View(m, "remoteForm"), c)
  \/ Finish(Popup(View(m, "remoteForm"), "error"), c)
  \/ Finish(Fetched(c), c)

\* handleTrustStoreLoaded.
ForgetsView(c) == Cancelled(c) /\ Finish([m EXCEPT !.root = "certLister", !.columns = TrustColumn], c)
TrustCancelled(c) == Cancelled(c) /\ Finish([m EXCEPT !.root = "certLister", !.columns = TrustColumn, !.state = "tree"], c)
TrustResult(c) ==
  \/ TrustCancelled(c)
  \/ Finish(View(m, "tree"), c)
  \/ Finish(View(RebuildTrust([m EXCEPT !.stores = c.load]), "tree"), c)

\* handleListerTrustLoaded, whatever is shown by then.
ListerTrustResult(c) ==
  \/ Finish(Popup(m, "error"), c)
  \/ Finish(ApplyListerTrust([m EXCEPT !.stores = c.load]), c)

\* handleAIAFetched; a cancelled fetch is no error.
AIAResult(c) ==
  \E found \in {None, c.target} :
    LET mm == [m EXCEPT !.state = "tree", !.rows.aia = IF found = None THEN @ ELSE found,
                        !.aia = IF InRemote THEN found ELSE @,
                        !.index = IF m.stores > 0 THEN m.rows.load ELSE @]
    IN Finish(Decorate(mm), c)

UnlockResult(c) ==
  \/ Finish(Popup(View(m, IF m.detail > 0 THEN "split" ELSE "tree"), "error"), c)
  \/ Finish(Convert([m EXCEPT !.detail = 0, !.state = "tree"]), c)

\* handleFormResult: the file exists, an error, or done and everything rescanned.
SubmitResult(c) ==
  \/ Finish(View(m, "form"), c)
  \/ Finish(Popup(View(m, "form"), "error"), c)
  \/ Load([m EXCEPT !.form = None, !.detail = 0], {c}, "scan", None)

SaveAllResult(c) == Finish(m, c) \/ Finish(Popup(m, "error"), c)

\* handleProxyStart.
ProxyResult(c) ==
  \/ Finish([m EXCEPT !.form = None, !.proxy = TRUE, !.state = "packetAnalyzer"], c)
  \/ Finish(Popup(View(m, IF m.form = "proxy" THEN "packetForm" ELSE m.state), "error"), c)

\* shellExitMsg: the shell could not be started, or everything is scanned again.
ShellResult(c) == Finish(Popup(m, "error"), c) \/ Load(m, {c}, "scan", None)

Result(kind) ==
  \E c \in pending :
    /\ ~quit /\ c.kind = kind
    /\ CASE kind = "scan"        -> ScanResult(c)
         [] kind \in {"remote", "refetch"} -> RemoteResult(c)
         [] kind = "trust"       -> TrustResult(c)
         [] kind = "listerTrust" -> ListerTrustResult(c)
         [] kind = "aia"         -> AIAResult(c)
         [] kind = "unlock"      -> UnlockResult(c)
         [] kind = "submit"      -> SubmitResult(c)
         [] kind = "saveAll"     -> SaveAllResult(c)
         [] kind = "proxy"       -> ProxyResult(c)
         [] kind = "shell"       -> ShellResult(c)

-----------------------------------------------------------------------------
TreeKeys  == OpenDetail \/ CloseDetail \/ OpenSearch \/ EndSearch \/ Rescan
TrustKeys == ReloadStores \/ GoTrust \/ ToggleGrouping
RemoteKeys == GoRemote \/ NewRemote \/ SubmitRemote \/ EscRemoteForm \/ TypeRemote
VerifyKeys == VerifyPick \/ VerifyPicked \/ LeaveVerify
FileKeys  == Unlock \/ OpenActions \/ ChooseForm \/ SubmitForm \/ LeaveForm \/ DeleteFile
SelectKeys == OpenMultiSelect \/ LeaveMultiSelect \/ Bundle \/ DeleteSelected
ProxyKeys == ProxyForm \/ SubmitProxy \/ LeavePacketForm \/ StopProxy

Next ==
  \/ TreeKeys \/ OpenFunctions \/ CloseMenu \/ Dismiss \/ EscLoading \/ CtrlC
  \/ Has("lister") /\ GoLister
  \/ Has("trust") /\ TrustKeys
  \/ Has("remote") /\ RemoteKeys
  \/ Has("refetch") /\ Refetch
  \/ Has("verify") /\ VerifyKeys
  \/ Has("aia") /\ FetchAIA
  \/ Has("columns") /\ (OpenColumns \/ ToggleColumn \/ CloseEditor)
  \/ Has("options") /\ (OpenOptions \/ ApplyOptions \/ CloseEditor)
  \/ Has("files") /\ (FileKeys \/ SelectKeys)
  \/ Has("save") /\ SaveAll
  \/ Confirm \/ Decline
  \/ Has("shell") /\ Shell
  \/ Has("packet") /\ GoPacket
  \/ Has("proxy") /\ ProxyKeys
  \/ \E kind \in Kinds : Result(kind)

\* Every command ends: scans and stores are finite, fetches and AIA have
\* timeouts, and the shell is the user's to leave.
Fairness == \A kind \in Kinds : WF_vars(Result(kind))
Spec == Init /\ [][Next]_vars /\ Fairness

-----------------------------------------------------------------------------
(* Properties.                                                             *)

Model ==
  [state : Views \cup {"panic"}, root : Roots, prevState : Views, prevRoot : Roots,
   back : Trees, menu : {"functions", "actions", None}, form : {"file", "remote", "proxy", None},
   detail : 0..MaxLoads,
   rows : [owner : Owners, load : 0..MaxLoads, aia : Targets \cup {"scan", None}, judged : 0..MaxLoads],
   popup : {"error", "confirm", "shell", None}, confirm : {"saveAll", None}, deleting : BOOLEAN,
   remote : [load : 0..MaxLoads, target : Targets \cup {None}], aia : Targets \cup {None},
   stores : 0..MaxLoads, index : 0..MaxLoads, verify : BOOLEAN, verdict : BOOLEAN, columns : BOOLEAN,
   ctx : 1..MaxLoads, proxy : BOOLEAN]
Command == [kind : Kinds, load : 0..MaxLoads, ctx : 0..MaxLoads, target : Targets \cup {"scan", None}]

TypeOK ==
  /\ m \in Model /\ pending \subseteq Command
  /\ loads \in 1..MaxLoads /\ cancelled \subseteq 1..MaxLoads /\ quit \in BOOLEAN

\* Commands whose result ends the loading view.
Loaders == {"scan", "remote", "refetch", "trust", "aia", "unlock", "submit"}

\* The loading view always has a command behind it whose result ends it: no
\* path into it forgets the command, and no result that lands meanwhile takes
\* the command's place (startScan, startAIAFetch, every state = stateLoading).
LoadingIsServed == m.state = "loading" /\ ~quit => \E c \in pending : c.kind \in Loaders

\* Results are merged into the model they were asked for: while one of these
\* commands runs the program stays in the loading view, where no key changes
\* what is shown, and no second one is started.
ResultsLandWhereAsked ==
  LET running == {c \in pending : c.kind \in Loaders}
  IN running # {} => Cardinality(running) = 1 /\ m.state \in {"loading", "panic"}

\* One load at a time, shown as such, and merged where it was asked for.
OneLoadAtATime == TypeOK /\ LoadingIsServed /\ ResultsLandWhereAsked

\* A form view has a form: a failed submit finds the one it was made from
\* (handleFormResult, handleProxyStart keep it for the error).
FormThere == m.state \in {"form", "packetForm"} => m.form # None

\* A pending verification belongs to the form that asks for its endpoint or to
\* the fetch that answers it; anywhere else the next ordinary fetch would be
\* shown as a verdict (pendingVerify).
VerifyBelongs == m.verify => m.state \in {"remoteForm", "loading"} /\ m.form = "remote"

\* docs/tui.md: "no action that writes is offered on a store entry": whatever
\* results replace the rows meanwhile, the views that write files never stand
\* over rows of the trust stores.
WritesOnlyFiles ==
  m.state \in {"multiSelect", "form"} \/ (m.state = "menu" /\ m.menu = "actions") => m.rows.owner # "trust"

\* The views fit what they act on: a form view its form, a pending verification its
\* form or fetch, and the views that write the rows of files.
ViewsFit == FormThere /\ VerifyBelongs /\ WritesOnlyFiles

\* Liveness: every load ends, and the loading view with it.
LoadingEnds == m.state = "loading" ~> m.state # "loading" \/ quit

\* The rest is known not to hold (README, Known divergences): what the repository
\* says of the program and its views do not keep.

\* model_remote.go: "the form stays and the first reason is shown", for a fetch
\* of which every target failed.
RemoteFormStays == m.state = "remoteForm" => m.form = "remote"

\* ensureListerTrust, which a switched column ends with, allows for a model
\* without a store; so does the options editor.
ColumnsNeedNoStore == m.state # "panic"

\* keypolicy.go: Esc "undoes the most recent transient state: cancel a load".
EscCancelsTheLoad ==
  m.state = "loading" /\ m.ctx \in cancelled => \A c \in pending : c.kind \in Loaders => c.ctx \in cancelled

\* model_aia.go: aiaFetchCmd "chases AIA for every certificate in the current
\* scan", so what it asks for can be found.
AIAIsChased == \A c \in pending : c.kind = "aia" => c.target # None

\* handleTrustStoreLoaded: Esc leads "back to the cert lister".
ListerListsFiles == m.state \in Trees /\ m.root = "certLister" => m.rows.owner \in {"none", "scan"}

\* RootModel.prevRoot: "leaving the form returns to where the user actually was".
LeavesFormForItsView == m.state \in Trees => m.root # "packetAnalyzer"

\* handleUnlockResult: "Close detail if open (structure changed)".
DetailIsOfTheRows == m.state = "split" => m.detail \in {0, m.rows.load}

\* Update on a finished scan: a trust column "needs its data loaded before it can
\* render anything".
TrustColumnIsFilled ==
  /\ m.state \in Trees /\ m.root = "certLister" /\ m.rows.owner = "scan" /\ m.columns
  /\ \A c \in pending : c.kind # "listerTrust"
  /\ m.stores > 0
  => m.rows.judged = m.rows.load

\* RootModel.remoteAIA "holds the issuers fetched alongside a remote result".
AIAIsOfTheResult == m.rows.owner = "remote" => m.rows.aia \in {None, m.remote.target}

\* The popup asks "Delete %d file(s)?" and y deletes them.
ConfirmDeletes == m.popup = "confirm" /\ m.deleting => m.confirm = None

\* keypolicy.go: "Ctrl+C quits from anywhere."
CtrlCQuits == ~quit => ENABLED CtrlC

\* "Stop the proxy first": no other root view while it runs.
ProxyIsInView == m.proxy => m.root = "packetAnalyzer"

=============================================================================
