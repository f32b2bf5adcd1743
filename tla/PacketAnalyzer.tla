---------------------------- MODULE PacketAnalyzer ----------------------------
(***************************************************************************)
(* internal/tui: the packet analyzer view and the proxies it starts.       *)
(*                                                                         *)
(* Four kinds of actors share its state.  The Bubble Tea event loop runs   *)
(* one handler at a time; commands (starting a proxy, analysing a capture, *)
(* waiting for a session) run in goroutines of their own and come back as  *)
(* messages in any order; the connection handlers of a proxy call          *)
(* OnConnection, which appends to the lists under mu and then sends on the *)
(* bounded sessionChan; and the handlers of a stopped proxy live on, since *)
(* Proxy.Stop closes the listener only (module Proxy).                     *)
(***************************************************************************)
EXTENDS Naturals, Sequences, FiniteSets

CONSTANTS
  Proxies,    \* bound: attempts to start a proxy
  Conns,      \* bound: connections, each accepted by one proxy
  Captured,   \* sessions of the pcap file that may be opened
  Matching,   \* the sessions the one non-empty filter lets through
  ChanCap,    \* capacity of sessionChan (64)
  Patient,    \* the user presses nothing while a proxy start is pending
  None

ASSUME AnalyzerAssumption ==
  /\ ChanCap \in Nat \ {0}
  /\ Patient \in BOOLEAN
  /\ None \notin Proxies
  /\ IsFiniteSet(Proxies)

Sessions == Conns \cup Captured
ListStates == {"idle", "sessions", "running"}
Gens == 0..Cardinality(Proxies)   \* stop channels made

VARIABLES
  ui,        \* RootModel.state and activeFormKind; packetAnalyzerModel.state,
             \* proxy, and whether pcapFile and proxyListen are set
  filter,    \* filterExpr, as the set of sessions it matches
  all,       \* allSessions
  shown,     \* sessions
  loop,      \* where the event loop is when it is inside a reset of the lists
  chan,      \* sessionChan
  stopCh,    \* m.stopCh, as the number of channels made before it
  closedChs, \* the ones that were closed
  waiters,   \* waitForSession commands blocked, per stop channel they captured
  arrived,   \* ProxySessionMsg on their way to the event loop
  px,        \* life of each proxy
  loading,   \* a pcap analysis is running
  conn       \* life of each connection

lists   == <<all, shown>>
waiting == <<waiters, arrived>>
stops   == <<stopCh, closedChs>>
vars == <<ui, filter, lists, loop, chan, stops, waiting, px, loading, conn>>

TypeOK ==
  /\ ui \in [screen : {"analyzer", "form", "elsewhere"}, form : {"none", "pcap", "proxy"},
             pa : ListStates \cup {"loading", "detail", "cert", "filter", "dump"},
             proxy : Proxies \cup {None}, pcap : BOOLEAN, listen : BOOLEAN]
  /\ filter \in {Sessions, Matching}
  /\ all \in Seq(Sessions) /\ shown \in Seq(Sessions)
  /\ loop \in {"free", "pcapReset", "proxyReset", "drain", "receive"}
  /\ loading \in BOOLEAN
  /\ chan \in Seq(Conns) /\ Len(chan) <= ChanCap
  /\ stopCh \in Gens /\ closedChs \subseteq Gens
  /\ waiters \in [Gens -> Nat] /\ arrived \in Nat
  /\ px \in [Proxies -> {"new", "starting", "started", "refused", "owned", "failed", "stopped"}]
  /\ conn \in [Conns -> [pc : {"new", "open", "sending", "done"}, px : Proxies \cup {None}]]

\* The view is opened empty from the menu, or by `certdiag tui pcap`, or by
\* `certdiag tui proxy`.
Init ==
  /\ \E pcap \in BOOLEAN, start \in Proxies \cup {None} :
       /\ start # None => ~pcap
       /\ ui = [screen |-> "analyzer", form |-> "none", pa |-> IF pcap THEN "loading" ELSE "idle",
                proxy |-> None, pcap |-> FALSE, listen |-> start # None]
       /\ loading = pcap
       /\ stopCh = IF start = None THEN 0 ELSE 1
       /\ px = [p \in Proxies |-> IF p = start THEN "starting" ELSE "new"]
  /\ filter \in {Sessions, Matching}
  /\ all = <<>> /\ shown = <<>> /\ loop = "free"
  /\ chan = <<>> /\ closedChs = {}
  /\ waiters = [g \in Gens |-> 0] /\ arrived = 0
  /\ conn = [c \in Conns |-> [pc |-> "new", px |-> None]]

-----------------------------------------------------------------------------
(* Connection handlers: the proxy calls OnConnection.                      *)

Connect(c) ==
  /\ conn[c].pc = "new"
  /\ \E p \in Proxies : px[p] \in {"started", "owned"} /\ conn' = [conn EXCEPT ![c] = [pc |-> "open", px |-> p]]
  /\ UNCHANGED <<ui, filter, lists, loop, chan, stops, waiting, px, loading>>

Step(c, from, to) == conn[c].pc = from /\ conn' = [conn EXCEPT ![c].pc = to]

\* One connection is one session: under mu, append it to allSessions and, if the
\* filter lets it through, to sessions; then send it on the channel.
OnConnection(c) ==
  /\ Step(c, "open", IF c \in filter THEN "sending" ELSE "done")
  /\ all' = Append(all, c)
  /\ shown' = IF c \in filter THEN Append(shown, c) ELSE shown
  /\ UNCHANGED <<ui, filter, loop, chan, stops, waiting, px, loading>>

\* The send blocks the handler, which still owes its peers the forwarding of
\* one direction, while the channel is full.
SendUpTo(c, cap) ==
  /\ Len(chan) < cap
  /\ Step(c, "sending", "done")
  /\ chan' = Append(chan, c)
  /\ UNCHANGED <<ui, filter, lists, loop, stops, waiting, px, loading>>
SendOver(c) == SendUpTo(c, ChanCap + 1)
Send(c)     == SendUpTo(c, ChanCap)

-----------------------------------------------------------------------------
(* Commands: goroutines the event loop starts.                             *)

\* proxy.Start, then the ProxyStartMsg is on its way.
Listen(p) ==
  /\ px[p] = "starting"
  /\ \E result \in {"started", "refused"} : px' = [px EXCEPT ![p] = result]
  /\ UNCHANGED <<ui, filter, lists, loop, chan, stops, waiting, loading, conn>>

\* waitForSession ends with a session or when the stop channel it captured closes.
WaiterTakes(g) ==
  /\ waiters[g] > 0 /\ chan # <<>>
  /\ waiters' = [waiters EXCEPT ![g] = @ - 1]
  /\ chan' = Tail(chan) /\ arrived' = arrived + 1
  /\ UNCHANGED <<ui, filter, lists, loop, stops, px, loading, conn>>

WaiterStops(g) ==
  /\ waiters[g] > 0 /\ g \in closedChs
  /\ waiters' = [waiters EXCEPT ![g] = @ - 1]
  /\ UNCHANGED <<ui, filter, lists, loop, chan, stops, arrived, px, loading, conn>>

-----------------------------------------------------------------------------
(* The event loop: messages.                                               *)

NewWaiter == waiters' = [waiters EXCEPT ![stopCh] = @ + 1]
NoWaiter  == waiters' = waiters

StartHandled(p, wait) ==
  /\ loop = "free" /\ px[p] = "started"
  /\ ui' = [ui EXCEPT !.screen = "analyzer", !.form = "none", !.proxy = p, !.pa = "running"]
  /\ px' = [px EXCEPT ![p] = "owned"]
  /\ wait
  /\ UNCHANGED <<filter, lists, loop, chan, stops, arrived, loading, conn>>
StartUnwatched(p)   == StartHandled(p, NoWaiter)
HandleProxyStart(p) == StartHandled(p, NewWaiter)

\* The form is kept for a correction if it is still there.
HandleStartError(p) ==
  /\ loop = "free" /\ px[p] = "refused"
  /\ ui' = IF ui.form = "proxy" THEN [ui EXCEPT !.screen = "form"] ELSE [ui EXCEPT !.pa = "idle"]
  /\ px' = [px EXCEPT ![p] = "failed"]
  /\ UNCHANGED <<filter, lists, loop, chan, stops, waiting, loading, conn>>

SessionHandled(again) ==
  /\ loop = "free" /\ arrived > 0 /\ arrived' = arrived - 1
  /\ IF again THEN NewWaiter ELSE NoWaiter
  /\ UNCHANGED <<ui, filter, lists, loop, chan, stops, px, loading, conn>>
SessionInListOnly  == SessionHandled(ui.pa = "running")
HandleProxySession == SessionHandled(ui.proxy # None)

\* matches over the list: the sessions a filter lets through, in order.
Filtered(s, f) ==
  LET kept[n \in 0..Len(s)] ==
        IF n = 0 THEN <<>> ELSE IF s[n] \in f THEN Append(kept[n - 1], s[n]) ELSE kept[n - 1]
  IN  kept[Len(s)]

HandlePcap(ok) ==
  /\ loop = "free" /\ loading /\ loading' = FALSE
  /\ IF ok
     THEN \E sessions \in {<<>>} \cup {<<s>> : s \in Captured} :
            /\ all' = sessions /\ shown' = Filtered(sessions, filter)
            /\ ui' = [ui EXCEPT !.pcap = TRUE, !.pa = "sessions"]
     ELSE ui' = [ui EXCEPT !.pa = "idle"] /\ UNCHANGED lists
  /\ UNCHANGED <<filter, loop, chan, stops, waiting, px, conn>>

-----------------------------------------------------------------------------
(* The event loop: keys.                                                   *)

Pending == \E p \in Proxies : px[p] \in {"starting", "started", "refused"}

\* A key reaches the view (or the form over it) when the loop is free.
Key(screen) == loop = "free" /\ ui.screen = screen /\ (Patient => ~Pending)
ListKey     == Key("analyzer") /\ ui.pa \in ListStates
Running     == ui.pa = "running"

\* restoreListState
StoppedList(u, visible) ==
  [u EXCEPT !.pa = IF visible = <<>> /\ ~u.pcap /\ ~u.listen THEN "idle" ELSE "sessions"]
Restored(u, visible) ==
  IF u.proxy # None THEN [u EXCEPT !.pa = "running"] ELSE StoppedList(u, visible)

OnlyUI == UNCHANGED <<filter, lists, loop, chan, stops, waiting, px, loading, conn>>

\* 'o' and 'p'; F leads to another view and back, with or without a proxy form.
FormWhen(allowed) ==
  /\ allowed
  /\ \E kind \in {"pcap", "proxy"} : ui' = [ui EXCEPT !.form = kind, !.screen = "form"]
  /\ OnlyUI
OpenFormAnyTime == FormWhen(ListKey \/ Key("elsewhere"))
OpenForm        == FormWhen((ListKey /\ ~Running) \/ Key("elsewhere"))

CancelForm ==
  /\ Key("form") /\ ui' = [ui EXCEPT !.form = "none", !.screen = "analyzer"] /\ OnlyUI

Leave ==
  /\ \/ ListKey /\ ~Running /\ ui' = [ui EXCEPT !.screen = "elsewhere"]
     \/ Key("elsewhere") /\ ui' = [ui EXCEPT !.screen = "analyzer"]
  /\ OnlyUI

\* Submitting either form assigns nil to the two lists, one after the other and
\* without mu, while handlers of an earlier proxy may be appending.
SubmitForm ==
  /\ Key("form")
  /\ ui.form = "proxy" => \E p \in Proxies : px[p] = "new"
  /\ shown' = <<>> /\ all' = all
  /\ IF ui.form = "proxy"
     THEN loop' = "proxyReset" /\ ui' = [ui EXCEPT !.screen = "analyzer", !.listen = TRUE]
     ELSE loop' = "pcapReset" /\ ui' = [ui EXCEPT !.screen = "analyzer", !.form = "none", !.pcap = TRUE, !.pa = "loading"]
  /\ UNCHANGED <<filter, chan, stops, waiting, px, loading, conn>>

PcapReset ==
  /\ loop = "pcapReset" /\ loop' = "free"
  /\ all' = <<>> /\ loading' = TRUE
  /\ UNCHANGED <<ui, filter, shown, chan, stops, waiting, px, conn>>

\* startProxy resets once more, forgets the pcap file and drains the channel: it
\* receives as long as the channel was not empty when it looked.
ProxyReset ==
  /\ loop = "proxyReset" /\ loop' = "drain"
  /\ all' = <<>> /\ shown' = <<>> /\ ui' = [ui EXCEPT !.pcap = FALSE]
  /\ UNCHANGED <<filter, chan, stops, waiting, px, loading, conn>>

DrainLook ==
  /\ loop = "drain" /\ chan # <<>> /\ loop' = "receive"
  /\ UNCHANGED <<ui, filter, lists, chan, stops, waiting, px, loading, conn>>

DrainReceive ==
  /\ loop = "receive" /\ chan # <<>>
  /\ chan' = Tail(chan) /\ loop' = "drain"
  /\ UNCHANGED <<ui, filter, lists, stops, waiting, px, loading, conn>>

BeginProxy(p, next) ==
  /\ loop = "drain" /\ chan = <<>> /\ loop' = "free"
  /\ px[p] = "new" /\ px' = [px EXCEPT ![p] = "starting"]
  /\ stopCh' = next
  /\ UNCHANGED <<ui, filter, lists, chan, closedChs, waiting, loading, conn>>
StartSameStop(p) == BeginProxy(p, stopCh)
StartProxy(p)    == BeginProxy(p, stopCh + 1)

\* 's': Stop closes the listener; closing a closed channel would panic.
Stopped(closed) ==
  /\ ListKey /\ Running
  /\ IF ui.proxy = None THEN ui' = [ui EXCEPT !.pa = "sessions"] /\ UNCHANGED <<px, closedChs>>
     ELSE /\ px' = [px EXCEPT ![ui.proxy] = "stopped"]
          /\ ui' = [ui EXCEPT !.proxy = None, !.pa = "sessions"]
          /\ closedChs' = closedChs \cup closed
  /\ UNCHANGED <<filter, lists, loop, chan, stopCh, waiting, loading, conn>>
StopLeavesOpen == Stopped({})
StopProxy      == Stopped({stopCh})

Clear ==
  /\ ListKey /\ all' = <<>> /\ shown' = <<>>
  /\ ui' = IF Running THEN ui ELSE [ui EXCEPT !.pcap = FALSE, !.listen = FALSE, !.pa = "idle"]
  /\ UNCHANGED <<filter, loop, chan, stops, waiting, px, loading, conn>>

\* Enter, '/' and D leave the list; a proxy may be running behind each of them.
OpenFromList ==
  /\ ListKey
  /\ \E view \in {"detail", "filter", "dump"} :
       (view # "filter" => shown # <<>>) /\ ui' = [ui EXCEPT !.pa = view]
  /\ OnlyUI

DetailKeys ==
  /\ Key("analyzer")
  /\ \/ ui.pa = "detail" /\ ui' = [ui EXCEPT !.pa = "cert"]
     \/ ui.pa = "cert" /\ ui' = [ui EXCEPT !.pa = "detail"]
     \/ ui.pa = "detail" /\ ui' = [ui EXCEPT !.pa = IF ui.proxy # None THEN "running" ELSE "sessions"]
     \/ ui.pa \in {"filter", "dump"} /\ ui' = Restored(ui, shown)
  /\ OnlyUI

Apply(f, visible) ==
  /\ Key("analyzer") /\ ui.pa = "filter"
  /\ filter' = f
  /\ shown' = visible
  /\ ui' = Restored(ui, visible)
  /\ UNCHANGED <<all, loop, chan, stops, waiting, px, loading, conn>>
NarrowShown == \E f \in {Sessions, Matching} : Apply(f, Filtered(shown, f))
ApplyFilter == \E f \in {Sessions, Matching} : Apply(f, Filtered(all, f))

-----------------------------------------------------------------------------
Handler(c) == OnConnection(c) \/ Send(c)
Waiter(g)  == WaiterTakes(g) \/ WaiterStops(g)
Messages   == (\E p \in Proxies : HandleProxyStart(p) \/ HandleStartError(p))
              \/ HandleProxySession \/ (\E ok \in BOOLEAN : HandlePcap(ok))
InReset    == PcapReset \/ ProxyReset \/ DrainLook \/ DrainReceive \/ (\E p \in Proxies : StartProxy(p))
Keys       == OpenForm \/ CancelForm \/ Leave \/ SubmitForm \/ StopProxy \/ Clear
              \/ OpenFromList \/ DetailKeys \/ ApplyFilter

Next ==
  \/ \E c \in Conns : Connect(c) \/ Handler(c)
  \/ \E p \in Proxies : Listen(p)
  \/ \E g \in Gens : Waiter(g)
  \/ Messages \/ InReset \/ Keys

Spec == Init /\ [][Next]_vars

\* Goroutines are scheduled and messages are handled; the user and the peers
\* promise nothing.
Fairness ==
  /\ \A c \in Conns : WF_vars(Handler(c))
  /\ \A p \in Proxies : WF_vars(Listen(p))
  /\ \A g \in Gens : WF_vars(Waiter(g))
  /\ WF_vars(Messages) /\ WF_vars(InReset)
FairSpec == Spec /\ Fairness

-----------------------------------------------------------------------------
(* Properties.                                                             *)

\* A proxy that listens and whose start was handled is the one the view holds,
\* so that 's' can stop it: no listener is left behind without an owner.
NoOrphanListener == \A p \in Proxies : px[p] = "owned" => ui.proxy = p

\* Once no start is pending the list view says RUNNING exactly when there is a
\* proxy to stop, whatever view (detail, filter, dump) it was reached from: the
\* key handlers test the state, the message handlers test the pointer.
RunningMeansProxy ==
  (~Pending /\ ui.pa \in ListStates) => (Running <=> ui.proxy # None)

\* While a proxy is held somebody will receive from sessionChan: a waiter on the
\* open stop channel, or a message whose handler makes the next waiter.
SomebodyReceives == ui.proxy # None => waiters[stopCh] > 0 \/ arrived > 0

\* Stopping never closes the stop channel a second time.
StopChannelOpen == ui.proxy # None => stopCh \notin closedChs

\* What stops a proxy and what receives from it belong together, whatever view the
\* user goes to (startProxy, stopProxy, waitForSession).
ProxyIsHeld == NoOrphanListener /\ RunningMeansProxy /\ SomebodyReceives /\ StopChannelOpen

\* Until a second proxy is started or a capture is opened, the displayed
\* sessions are the filtered image of all sessions, in the same order; without
\* that proviso it is known not to hold (README, Known divergences).
ListsAgree == loop = "free" => shown = Filtered(all, filter)
FirstProxyListsAgree == TypeOK /\ (stopCh <= 1 /\ ~ui.pcap => ListsAgree)

\* While its proxy keeps running a connection handler is not held back by
\* sessionChan for ever.
SendsCompleteWhileOwned ==
  \A c \in Conns : conn[c].pc = "sending" ~>
    (conn[c].pc = "done" \/ (conn[c].px # None /\ px[conn[c].px] = "stopped"))

\* Stopping strands no waitForSession goroutine: all of them end.
WaitersEnd == ui.proxy = None ~> (ui.proxy # None \/ \A g \in Gens : waiters[g] = 0)

\* Nobody waits for ever on the session channel: neither the handlers that send to
\* it while their proxy runs nor the goroutines that receive from it.
EverybodyGetsOn == SendsCompleteWhileOwned /\ WaitersEnd

\* The send without the proviso, which is known not to hold (README, Known
\* divergences): a handler always gets on with forwarding.
SendsComplete == \A c \in Conns : conn[c].pc = "sending" ~> conn[c].pc = "done"

\* startProxy gets past its drain and the event loop is free again, which is known
\* not to hold.
DrainEnds == loop = "drain" ~> loop = "free"
=============================================================================
