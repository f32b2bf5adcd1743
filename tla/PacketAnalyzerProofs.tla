------------------------- MODULE PacketAnalyzerProofs -------------------------
(***************************************************************************)
(* For any number of starts, connections and sessions and any capacity of  *)
(* the session channel: the view holds its proxy (ProxyIsHeld) under a     *)
(* patient user, and the two lists agree (FirstProxyListsAgree) under any. *)
(***************************************************************************)
EXTENDS PacketAnalyzer, FiniteSetTheorems, WellFoundedInduction, TLAPS

Screens == {"analyzer", "form", "elsewhere"}
PxStates == {"new", "starting", "started", "refused", "owned", "failed", "stopped"}
PendingStates == {"starting", "started", "refused"}
InProxyReset == loop \in {"proxyReset", "drain", "receive"}
Begun == {p \in Proxies : px[p] # "new"}

Types ==
  /\ ui \in [screen : Screens, form : {"none", "pcap", "proxy"}, pa : ListStates \cup {"loading", "detail", "cert", "filter", "dump"},
             proxy : Proxies \cup {None}, pcap : BOOLEAN, listen : BOOLEAN]
  /\ px \in [Proxies -> PxStates]
  /\ waiters \in [Gens -> Nat] /\ arrived \in Nat

\* Each start makes one stop channel, and only channels that were made are closed.
Channels == stopCh = Cardinality(Begun) /\ closedChs \subseteq 0..stopCh

\* The view holds the one proxy that listens, and its state says so.
Held ==
  /\ \A p \in Proxies : px[p] = "owned" <=> ui.proxy = p
  /\ ui.pa = "running" => ui.proxy # None
  /\ ui.pa \in {"idle", "sessions", "loading"} => ui.proxy = None

\* A start begins when nothing runs, and nothing else begins before it is answered.
OneStart ==
  /\ \A p, q \in Proxies : px[p] \in PendingStates /\ px[q] \in PendingStates => p = q
  /\ InProxyReset => ~Pending
  /\ InProxyReset \/ Pending \/ ui.screen # "analyzer" => ui.pa \in {"idle", "sessions"}
  /\ loading \/ loop = "pcapReset" => ui.pa = "loading"

Watched == ui.proxy # None => waiters[stopCh] > 0 \/ arrived > 0
OpenChannel == ui.proxy # None \/ Pending => stopCh \notin closedChs

AnalyzerInv == Types /\ Channels /\ Held /\ OneStart /\ Watched /\ OpenChannel

LEMMA ChannelMade == ASSUME Types, Channels PROVE IsFiniteSet(Begun) /\ stopCh \in Nat /\ stopCh \in Gens
<1>1. Begun \subseteq Proxies /\ IsFiniteSet(Proxies)
  BY AnalyzerAssumption DEF Begun
<1>2. IsFiniteSet(Begun) /\ Cardinality(Begun) \in Nat /\ Cardinality(Proxies) \in Nat /\ Cardinality(Begun) <= Cardinality(Proxies)
  BY <1>1, FS_Subset, FS_CardinalityType
<1> QED
  BY <1>2 DEF Channels, Gens

LEMMA AnalyzerInit == Init => AnalyzerInv
<1> SUFFICES ASSUME NEW pcap \in BOOLEAN, NEW start \in Proxies \cup {None}, start # None => ~pcap,
                    ui = [screen |-> "analyzer", form |-> "none", pa |-> IF pcap THEN "loading" ELSE "idle",
                          proxy |-> None, pcap |-> FALSE, listen |-> start # None],
                    loading = pcap, stopCh = IF start = None THEN 0 ELSE 1,
                    px = [p \in Proxies |-> IF p = start THEN "starting" ELSE "new"],
                    loop = "free", closedChs = {}, waiters = [g \in Gens |-> 0], arrived = 0
             PROVE  AnalyzerInv
  BY DEF Init
<1>1. Types
  BY DEF Types, Screens, ListStates, PxStates
<1>2. Channels
  <2>1. CASE start = None
    <3>1. Begun = {}
      BY <2>1, AnalyzerAssumption DEF Begun
    <3> QED
      BY <2>1, <3>1, FS_EmptySet DEF Channels
  <2>2. CASE start # None
    <3>1. Begun = {start}
      BY <2>2 DEF Begun
    <3> QED
      BY <2>2, <3>1, FS_Singleton DEF Channels
  <2> QED
    BY <2>1, <2>2
<1>3. Held /\ OneStart /\ Watched /\ OpenChannel
  BY AnalyzerAssumption DEF Held, OneStart, Watched, OpenChannel, Pending, PendingStates, InProxyReset
<1> QED
  BY <1>1, <1>2, <1>3 DEF AnalyzerInv

(* Steps that leave the proxies and the channels alone.                    *)
LEMMA OthersKeep ==
  ASSUME AnalyzerInv, UNCHANGED <<ui, px, stops, waiting, loading>>,
         loop' = loop \/ (InProxyReset /\ InProxyReset')
  PROVE  AnalyzerInv'
<1>1. UNCHANGED <<ui, px, stopCh, closedChs, waiters, arrived, loading>>
  BY DEF stops, waiting
<1>2. Pending' = Pending /\ Begun' = Begun /\ (InProxyReset' <=> InProxyReset)
  BY <1>1 DEF Pending, Begun, InProxyReset
<1>3. loop' = "pcapReset" => loop = "pcapReset"
  BY DEF InProxyReset
<1> QED
  BY <1>1, <1>2, <1>3 DEF AnalyzerInv, Types, Channels, Held, OneStart, Watched, OpenChannel

(* Keys that move between views of the list.                               *)
LEMMA ViewsKeep ==
  ASSUME AnalyzerInv, UNCHANGED <<px, stops, waiting, loading, loop>>, ~Pending, loop = "free", ~loading,
         ui' \in [screen : Screens, form : {"none", "pcap", "proxy"}, pa : ListStates \cup {"loading", "detail", "cert", "filter", "dump"},
                  proxy : Proxies \cup {None}, pcap : BOOLEAN, listen : BOOLEAN],
         ui'.proxy = ui.proxy,
         ui'.pa = "running" => ui.proxy # None,
         ui'.pa \in {"idle", "sessions", "loading"} => ui.proxy = None,
         ui'.screen # "analyzer" => ui'.pa \in {"idle", "sessions"}
  PROVE  AnalyzerInv'
<1>1. UNCHANGED <<stopCh, closedChs, waiters, arrived>>
  BY DEF stops, waiting
<1>2. Pending' = Pending /\ Begun' = Begun /\ ~InProxyReset'
  BY DEF Pending, Begun, InProxyReset
<1> QED
  BY <1>1, <1>2 DEF AnalyzerInv, Types, Channels, Held, OneStart, Watched, OpenChannel

LEMMA KeysOfViews ==
  ASSUME AnalyzerInv, Patient, OpenForm \/ CancelForm \/ Leave \/ Clear \/ OpenFromList \/ DetailKeys \/ ApplyFilter
  PROVE  AnalyzerInv'
<1>1. /\ loop = "free" /\ ~Pending /\ UNCHANGED <<px, stops, waiting, loading, loop>>
      /\ ui.pa \in ListStates \/ ui.screen # "analyzer" \/ ui.pa \in {"detail", "cert", "filter", "dump"}
  BY Zenon DEF OpenForm, FormWhen, CancelForm, Leave, Clear, OpenFromList, DetailKeys, ApplyFilter, Apply, OnlyUI, ListKey, Key
<1>2. ~loading
  BY <1>1 DEF AnalyzerInv, OneStart, ListStates
<1>3. /\ Types /\ Held /\ OneStart
  BY DEF AnalyzerInv
<1>4. CASE OpenForm \/ CancelForm \/ Leave
  BY <1>1, <1>2, <1>3, <1>4, ViewsKeep
  DEF OpenForm, FormWhen, CancelForm, Leave, OnlyUI, ListKey, Key, Running, Types, Held, OneStart, Screens, ListStates
<1>5. CASE Clear
  <2>1. CASE ui' = ui
    BY <1>1, <1>2, <1>3, <2>1, ViewsKeep DEF Types, Held, OneStart
  <2>2. CASE ~Running /\ ui' = [ui EXCEPT !.pcap = FALSE, !.listen = FALSE, !.pa = "idle"]
    <3>1. ui.pa \in {"idle", "sessions"}
      BY <1>5, <2>2 DEF Clear, ListKey, Running, ListStates
    <3>2. ui'.proxy = ui.proxy /\ ui'.pa = "idle"
      BY <1>3, <2>2 DEF Types
    <3> QED
      BY <1>1, <1>2, <1>3, <2>2, <3>1, <3>2, ViewsKeep DEF Types, Held, ListStates
  <2> QED
    BY <1>5, <2>1, <2>2 DEF Clear
<1>6. CASE OpenFromList
  <2>1. PICK view \in {"detail", "filter", "dump"} : ui' = [ui EXCEPT !.pa = view]
    BY <1>6 DEF OpenFromList
  <2>2. ui.screen = "analyzer"
    BY <1>6 DEF OpenFromList, ListKey, Key
  <2> QED
    BY <1>1, <1>2, <1>3, <2>1, <2>2, ViewsKeep DEF Types
<1>7. CASE DetailKeys \/ ApplyFilter
  BY <1>1, <1>2, <1>3, <1>7, ViewsKeep
  DEF DetailKeys, ApplyFilter, Apply, Restored, StoppedList, OnlyUI, Key, Types, Held, OneStart, Screens, ListStates
<1> QED
  BY <1>4, <1>5, <1>6, <1>7

(* A form is submitted where no proxy runs and no start is pending.        *)
LEMMA SubmitKeeps == ASSUME AnalyzerInv, Patient, SubmitForm PROVE AnalyzerInv'
<1>1. loop = "free" /\ ui.screen = "form" /\ ~Pending /\ UNCHANGED <<px, stopCh, closedChs, waiters, arrived, loading>>
  BY DEF SubmitForm, Key, stops, waiting
<1>2. Pending' = Pending /\ Begun' = Begun /\ ui.pa \in {"idle", "sessions"} /\ ui.proxy = None /\ ~loading
  BY <1>1 DEF Pending, Begun, AnalyzerInv, Held, OneStart
<1>3. CASE ui' = [ui EXCEPT !.screen = "analyzer", !.listen = TRUE] /\ loop' = "proxyReset"
  <2>1. Types' /\ ui'.pa = ui.pa /\ ui'.proxy = ui.proxy /\ InProxyReset' /\ loop' # "pcapReset"
    BY <1>1, <1>3 DEF AnalyzerInv, Types, Screens, InProxyReset
  <2> QED
    BY <1>1, <1>2, <2>1 DEF AnalyzerInv, Channels, Held, OneStart, Watched, OpenChannel
<1>4. CASE /\ ui' = [ui EXCEPT !.screen = "analyzer", !.form = "none", !.pcap = TRUE, !.pa = "loading"]
           /\ loop' = "pcapReset"
  <2>1. Types' /\ ui'.pa = "loading" /\ ui'.proxy = ui.proxy /\ ui'.screen = "analyzer" /\ ~InProxyReset'
    BY <1>1, <1>4 DEF AnalyzerInv, Types, Screens, InProxyReset
  <2> QED
    BY <1>1, <1>2, <2>1 DEF AnalyzerInv, Channels, Held, OneStart, Watched, OpenChannel
<1> QED
  BY <1>3, <1>4 DEF SubmitForm

LEMMA PcapKeeps == ASSUME AnalyzerInv, PcapReset \/ (\E ok \in BOOLEAN : HandlePcap(ok)) PROVE AnalyzerInv'
<1>1. /\ loading \/ loop = "pcapReset"
      /\ loop' = "free" /\ UNCHANGED <<px, stopCh, closedChs, waiters, arrived>>
  BY DEF PcapReset, HandlePcap, stops, waiting
<1>2. Pending' = Pending /\ Begun' = Begun /\ ui.pa = "loading" /\ ui.proxy = None /\ ~Pending /\ ui.screen = "analyzer"
  BY <1>1 DEF Pending, Begun, AnalyzerInv, Held, OneStart
<1>3. \/ ui' = ui
      \/ ~loading' /\ ui' = [ui EXCEPT !.pcap = TRUE, !.pa = "sessions"]
      \/ ~loading' /\ ui' = [ui EXCEPT !.pa = "idle"]
  BY DEF PcapReset, HandlePcap
<1>4. Types'
  BY <1>1, <1>3 DEF AnalyzerInv, Types, ListStates
<1>5. Held' /\ OneStart' /\ Watched' /\ OpenChannel'
  BY <1>1, <1>2, <1>3 DEF AnalyzerInv, Types, Held, OneStart, Watched, OpenChannel, InProxyReset, Pending
<1> QED
  BY <1>1, <1>2, <1>4, <1>5 DEF AnalyzerInv, Channels

(* The reset forgets the capture and drains.                               *)
LEMMA ResetKeeps == ASSUME AnalyzerInv, ProxyReset PROVE AnalyzerInv'
<1>1. InProxyReset /\ InProxyReset' /\ loop' # "pcapReset" /\ UNCHANGED <<px, stopCh, closedChs, waiters, arrived, loading>>
      /\ ui' = [ui EXCEPT !.pcap = FALSE]
  BY DEF ProxyReset, InProxyReset, stops, waiting
<1>2. Pending' = Pending /\ Begun' = Begun
  BY <1>1 DEF Pending, Begun
<1>3. Types'
  BY <1>1 DEF AnalyzerInv, Types
<1> QED
  BY <1>1, <1>2, <1>3 DEF AnalyzerInv, Types, Channels, Held, OneStart, Watched, OpenChannel

LEMMA StartKeeps == ASSUME AnalyzerInv, NEW p \in Proxies, StartProxy(p) PROVE AnalyzerInv'
<1>1. /\ loop = "drain" /\ loop' = "free" /\ px[p] = "new" /\ px' = [px EXCEPT ![p] = "starting"] /\ stopCh' = stopCh + 1
      /\ UNCHANGED <<ui, closedChs, waiters, arrived, loading>>
  BY DEF StartProxy, BeginProxy, waiting
<1>2. InProxyReset /\ ~InProxyReset' /\ ~Pending /\ ui.proxy = None /\ ui.pa \in {"idle", "sessions"}
  BY <1>1 DEF InProxyReset, AnalyzerInv, Held, OneStart
<1>3. Types'
  BY <1>1 DEF AnalyzerInv, Types, PxStates
<1>4. Channels'
  <2>1. IsFiniteSet(Begun) /\ stopCh \in Nat
    BY ChannelMade DEF AnalyzerInv
  <2>2. Begun' = Begun \cup {p} /\ p \notin Begun
    BY <1>1 DEF Begun, AnalyzerInv, Types
  <2>3. Cardinality(Begun') = Cardinality(Begun) + 1
    BY <2>1, <2>2, FS_AddElement
  <2> QED
    BY <1>1, <2>1, <2>3 DEF AnalyzerInv, Channels
<1>5. Held' /\ OneStart' /\ Watched'
  BY <1>1, <1>2 DEF AnalyzerInv, Types, Held, OneStart, Watched, Pending, PendingStates, InProxyReset
<1>6. OpenChannel'
  BY <1>1, ChannelMade DEF AnalyzerInv, Channels, OpenChannel
<1> QED
  BY <1>3, <1>4, <1>5, <1>6 DEF AnalyzerInv

(* A proxy that has begun goes on: no channel is made.                     *)
LEMMA BegunStays ==
  ASSUME AnalyzerInv, NEW p \in Proxies, NEW s \in PxStates, px[p] # "new", s # "new", px' = [px EXCEPT ![p] = s]
  PROVE  Begun' = Begun /\ px' \in [Proxies -> PxStates]
BY DEF AnalyzerInv, Types, Begun

LEMMA ListenKeeps == ASSUME AnalyzerInv, NEW p \in Proxies, Listen(p) PROVE AnalyzerInv'
<1>1. PICK s \in {"started", "refused"} : px[p] = "starting" /\ px' = [px EXCEPT ![p] = s]
  BY DEF Listen
<1>2. UNCHANGED <<ui, stopCh, closedChs, waiters, arrived, loading, loop>>
  BY DEF Listen, stops, waiting
<1>3. Begun' = Begun /\ px' \in [Proxies -> PxStates]
  BY <1>1, BegunStays DEF PxStates
<1>4. Pending /\ Pending'
  BY <1>1 DEF Pending, AnalyzerInv, Types
<1>5. Held'
  BY <1>1, <1>2 DEF AnalyzerInv, Types, Held
<1>6. InProxyReset' <=> InProxyReset
  BY <1>2 DEF InProxyReset
<1>7. \A q \in Proxies : px'[q] \in PendingStates => px[q] \in PendingStates
  BY <1>1 DEF AnalyzerInv, Types, PendingStates
<1>8. OneStart'
  BY <1>2, <1>4, <1>6, <1>7 DEF AnalyzerInv, OneStart
<1> QED
  BY <1>2, <1>3, <1>4, <1>5, <1>8 DEF AnalyzerInv, Types, Channels, Watched, OpenChannel

(* The start that is answered was the only one.                            *)
LEMMA LastAnswered ==
  ASSUME AnalyzerInv, NEW p \in Proxies, px[p] \in {"started", "refused"},
         NEW s \in {"owned", "failed"}, px' = [px EXCEPT ![p] = s]
  PROVE  ~Pending'
<1>1. px[p] \in PendingStates /\ s \notin PendingStates
  BY DEF PendingStates
<1>2. \A q \in Proxies \ {p} : px[q] \notin PendingStates
  BY <1>1 DEF AnalyzerInv, OneStart
<1>3. \A q \in Proxies : px'[q] \notin PendingStates
  BY <1>1, <1>2 DEF AnalyzerInv, Types
<1> QED
  BY <1>3 DEF Pending, PendingStates

(* The answer of the one pending start, when it listens: the view holds it. *)
LEMMA StartedKeeps == ASSUME AnalyzerInv, NEW p \in Proxies, HandleProxyStart(p) PROVE AnalyzerInv'
<1>1. /\ loop = "free" /\ px[p] = "started" /\ px' = [px EXCEPT ![p] = "owned"]
      /\ ui' = [ui EXCEPT !.screen = "analyzer", !.form = "none", !.proxy = p, !.pa = "running"]
      /\ waiters' = [waiters EXCEPT ![stopCh] = @ + 1]
      /\ UNCHANGED <<stopCh, closedChs, arrived, loading, loop>>
  BY DEF HandleProxyStart, StartHandled, NewWaiter, stops
<1>2. Pending /\ ui.proxy = None /\ ~InProxyReset' /\ ~loading /\ stopCh \in Gens
  BY <1>1, ChannelMade DEF Pending, AnalyzerInv, Held, OneStart, InProxyReset
<1>3. Begun' = Begun /\ px' \in [Proxies -> PxStates]
  BY <1>1, BegunStays DEF PxStates
<1>4. ~Pending'
  BY <1>1, LastAnswered DEF AnalyzerInv, Types
<1>5. Types' /\ ui'.proxy = p /\ ui'.pa = "running" /\ ui'.screen = "analyzer" /\ waiters'[stopCh] > 0
  <2>1. waiters' \in [Gens -> Nat] /\ waiters'[stopCh] > 0
    BY <1>1, <1>2 DEF AnalyzerInv, Types
  <2>2. ui'.proxy = p /\ ui'.pa = "running" /\ ui'.screen = "analyzer" /\ ui'.form = "none"
        /\ ui' \in [screen : Screens, form : {"none", "pcap", "proxy"}, pa : ListStates \cup {"loading", "detail", "cert", "filter", "dump"},
                    proxy : Proxies \cup {None}, pcap : BOOLEAN, listen : BOOLEAN]
    BY <1>1 DEF AnalyzerInv, Types, ListStates, Screens
  <2> QED
    BY <1>1, <1>3, <2>1, <2>2 DEF AnalyzerInv, Types
<1>6. Held'
  <2>1. \A q \in Proxies : px[q] # "owned"
    BY <1>2, AnalyzerAssumption DEF AnalyzerInv, Held
  <2>2. \A q \in Proxies : px'[q] = "owned" <=> q = p
    BY <1>1, <2>1 DEF AnalyzerInv, Types
  <2> QED
    BY <1>5, <2>2, AnalyzerAssumption DEF Held
<1>7. OneStart'
  BY <1>1, <1>2, <1>4, <1>5 DEF OneStart, Pending, PendingStates
<1> QED
  BY <1>1, <1>2, <1>3, <1>5, <1>6, <1>7 DEF AnalyzerInv, Channels, Watched, OpenChannel

LEMMA RefusedKeeps == ASSUME AnalyzerInv, NEW p \in Proxies, HandleStartError(p) PROVE AnalyzerInv'
<1>1. /\ loop = "free" /\ px[p] = "refused" /\ px' = [px EXCEPT ![p] = "failed"]
      /\ ui' = [ui EXCEPT !.screen = "form"] \/ ui' = [ui EXCEPT !.pa = "idle"]
      /\ UNCHANGED <<stopCh, closedChs, waiters, arrived, loading, loop>>
  BY DEF HandleStartError, stops, waiting
<1>2. Pending /\ ui.proxy = None /\ ~InProxyReset' /\ ~loading /\ ui.pa \in {"idle", "sessions"}
  BY <1>1 DEF Pending, AnalyzerInv, Held, OneStart, InProxyReset
<1>3. Begun' = Begun /\ px' \in [Proxies -> PxStates]
  BY <1>1, BegunStays DEF PxStates
<1>4. ~Pending'
  BY <1>1, LastAnswered DEF AnalyzerInv, Types
<1>5. Types' /\ ui'.proxy = None /\ ui'.pa \in {"idle", "sessions"}
  BY <1>1, <1>2, <1>3 DEF AnalyzerInv, Types, ListStates, Screens
<1>6. Held'
  BY <1>1, <1>2, <1>5 DEF AnalyzerInv, Held, Types
<1>7. OneStart'
  BY <1>1, <1>2, <1>4, <1>5 DEF OneStart, Pending, PendingStates
<1> QED
  BY <1>1, <1>3, <1>4, <1>5, <1>6, <1>7 DEF AnalyzerInv, Channels, Watched, OpenChannel

(* Waiters come and go; the one of a held proxy is let go only for a session. *)
LEMMA WaitersKeep ==
  ASSUME AnalyzerInv, UNCHANGED <<ui, stops, px, loading, loop>>,
         waiters' \in [Gens -> Nat], arrived' \in Nat, Watched'
  PROVE  AnalyzerInv'
<1>1. UNCHANGED <<stopCh, closedChs>>
  BY DEF stops
<1>2. Pending' = Pending /\ Begun' = Begun /\ (InProxyReset' <=> InProxyReset)
  BY DEF Pending, Begun, InProxyReset
<1> QED
  BY <1>1, <1>2 DEF AnalyzerInv, Types, Channels, Held, OneStart, OpenChannel

LEMMA TakesKeeps == ASSUME AnalyzerInv, NEW g \in Gens, WaiterTakes(g) PROVE AnalyzerInv'
<1>1. waiters[g] > 0 /\ waiters' = [waiters EXCEPT ![g] = @ - 1] /\ arrived' = arrived + 1
      /\ UNCHANGED <<ui, stops, px, loading, loop>>
  BY DEF WaiterTakes
<1>2. waiters' \in [Gens -> Nat] /\ arrived' \in Nat /\ arrived' > 0
  BY <1>1 DEF AnalyzerInv, Types
<1> QED
  BY <1>1, <1>2, WaitersKeep DEF Watched

LEMMA StopsKeeps == ASSUME AnalyzerInv, NEW g \in Gens, WaiterStops(g) PROVE AnalyzerInv'
<1>1. waiters[g] > 0 /\ g \in closedChs /\ waiters' = [waiters EXCEPT ![g] = @ - 1] /\ arrived' = arrived
      /\ UNCHANGED <<ui, stops, px, loading, loop>>
  BY DEF WaiterStops
<1>2. waiters' \in [Gens -> Nat] /\ arrived' \in Nat
  BY <1>1 DEF AnalyzerInv, Types
<1>3. ui.proxy # None => g # stopCh
  BY <1>1 DEF AnalyzerInv, OpenChannel
<1>4. stopCh' = stopCh /\ stopCh \in Gens
  BY <1>1, ChannelMade DEF AnalyzerInv, stops
<1>5. ui.proxy # None => waiters'[stopCh] = waiters[stopCh]
  BY <1>1, <1>3, <1>4 DEF AnalyzerInv, Types
<1>6. Watched'
  BY <1>1, <1>4, <1>5 DEF AnalyzerInv, Watched
<1> QED
  BY <1>1, <1>2, <1>6, WaitersKeep

LEMMA SessionKeeps == ASSUME AnalyzerInv, HandleProxySession PROVE AnalyzerInv'
<1>1. /\ arrived > 0 /\ arrived' = arrived - 1 /\ UNCHANGED <<ui, stops, px, loading, loop>>
      /\ IF ui.proxy # None THEN waiters' = [waiters EXCEPT ![stopCh] = @ + 1] ELSE waiters' = waiters
  BY DEF HandleProxySession, SessionHandled, NewWaiter, NoWaiter
<1>2. stopCh' = stopCh /\ stopCh \in Gens
  BY <1>1, ChannelMade DEF AnalyzerInv, stops
<1>3. arrived' \in Nat
  BY <1>1 DEF AnalyzerInv, Types
<1>4. CASE ui.proxy # None
  <2>1. waiters' \in [Gens -> Nat] /\ waiters'[stopCh] > 0
    BY <1>1, <1>2, <1>4 DEF AnalyzerInv, Types
  <2> QED
    BY <1>1, <1>2, <1>3, <2>1, WaitersKeep DEF Watched
<1>5. CASE ui.proxy = None
  BY <1>1, <1>2, <1>3, <1>5, WaitersKeep DEF AnalyzerInv, Types, Watched
<1> QED
  BY <1>4, <1>5

LEMMA StopKeeps == ASSUME AnalyzerInv, Patient, StopProxy PROVE AnalyzerInv'
<1>1. /\ loop = "free" /\ ui.screen = "analyzer" /\ ~Pending /\ ui.pa = "running" /\ UNCHANGED <<stopCh, waiters, arrived, loading, loop>>
  BY DEF StopProxy, Stopped, ListKey, Key, Running, waiting
<1>2. ui.proxy \in Proxies /\ ~loading
  BY <1>1 DEF AnalyzerInv, Types, Held, OneStart
<1>3. /\ px' = [px EXCEPT ![ui.proxy] = "stopped"] /\ closedChs' = closedChs \cup {stopCh}
      /\ ui' = [ui EXCEPT !.proxy = None, !.pa = "sessions"]
  BY <1>1, <1>2, AnalyzerAssumption DEF StopProxy, Stopped
<1>4. px[ui.proxy] = "owned"
  BY <1>2 DEF AnalyzerInv, Held
<1>5. Begun' = Begun /\ px' \in [Proxies -> PxStates]
  BY <1>2, <1>3, <1>4, BegunStays DEF PxStates
<1>6. Types' /\ ui'.proxy = None /\ ui'.pa = "sessions" /\ ui'.screen = "analyzer"
  BY <1>1, <1>3, <1>5 DEF AnalyzerInv, Types, ListStates
<1>7. Channels'
  BY <1>1, <1>3, <1>5, ChannelMade DEF AnalyzerInv, Channels
<1>8. \A q \in Proxies : px'[q] # "owned" /\ px'[q] \notin PendingStates
  BY <1>1, <1>2, <1>3 DEF AnalyzerInv, Types, Held, Pending, PendingStates
<1>9. Held' /\ ~Pending' /\ ~InProxyReset'
  BY <1>1, <1>6, <1>8, AnalyzerAssumption DEF Held, Pending, PendingStates, InProxyReset
<1>10. OneStart' /\ Watched' /\ OpenChannel'
  BY <1>1, <1>2, <1>6, <1>8, <1>9 DEF OneStart, Watched, OpenChannel
<1> QED
  BY <1>6, <1>7, <1>9, <1>10 DEF AnalyzerInv

LEMMA AnalyzerStep == ASSUME AnalyzerInv, Patient, [Next]_vars PROVE AnalyzerInv'
<1>1. CASE UNCHANGED vars
  BY <1>1, OthersKeep DEF vars, stops, waiting
<1>2. CASE (\E c \in Conns : Connect(c) \/ Handler(c)) \/ DrainLook \/ DrainReceive
  BY <1>2, OthersKeep DEF Connect, Handler, OnConnection, Send, SendUpTo, DrainLook, DrainReceive, InProxyReset
<1>3. CASE \E p \in Proxies : Listen(p) \/ HandleProxyStart(p) \/ HandleStartError(p) \/ StartProxy(p)
  BY <1>3, ListenKeeps, StartedKeeps, RefusedKeeps, StartKeeps
<1>4. CASE \E g \in Gens : Waiter(g)
  BY <1>4, TakesKeeps, StopsKeeps DEF Waiter
<1>5. CASE HandleProxySession \/ (\E ok \in BOOLEAN : HandlePcap(ok)) \/ PcapReset \/ ProxyReset
  BY <1>5, SessionKeeps, PcapKeeps, ResetKeeps
<1>6. CASE Keys
  BY <1>6, KeysOfViews, SubmitKeeps, StopKeeps DEF Keys
<1> QED
  BY <1>1, <1>2, <1>3, <1>4, <1>5, <1>6 DEF Next, Messages, InReset

LEMMA AnalyzerHolds == AnalyzerInv => ProxyIsHeld
BY DEF AnalyzerInv, Types, Held, OneStart, Watched, OpenChannel, ProxyIsHeld, NoOrphanListener, RunningMeansProxy,
       SomebodyReceives, StopChannelOpen, Running, ListStates

(* Under a user who waits for the answer of a start, the view holds the    *)
(* proxy that listens, says so, has a receiver for its sessions, and       *)
(* closes each stop channel once (startProxy, stopProxy, waitForSession).  *)
THEOREM ProxyStaysHeld == ASSUME Patient PROVE Spec => []ProxyIsHeld
<1>1. AnalyzerInv /\ [Next]_vars => AnalyzerInv'
  BY AnalyzerStep
<1> QED
  BY <1>1, AnalyzerInit, AnalyzerHolds, PTL DEF Spec
-----------------------------------------------------------------------------
(* The lists: what is displayed is the filtered image of all sessions.     *)

\* Every nonempty set of numbers has a least one: induction by least counterexample.
LEMMA Least == ASSUME NEW T, T \subseteq Nat, T # {} PROVE \E n \in T : \A k \in T : n <= k
<1> DEFINE R == OpToRel(<, Nat)
<1>1. IsWellFoundedOn(R, Nat)
  BY NatLessThanWellFounded
<1>2. \A x, y \in Nat : <<y, x>> \in R <=> y < x
  BY DEF OpToRel
<1> HIDE DEF R
<1>3. \E x \in T : \A y \in T : ~ (<<y, x>> \in R)
  BY <1>1, WFMin, Zenon
<1>4. \A x, y \in T : <<y, x>> \in R <=> y < x
  BY <1>2
<1>5. PICK x \in T : \A y \in T : ~ (y < x)
  BY <1>3, <1>4
<1>6. \A y \in T : x <= y
  BY <1>5
<1> QED
  BY <1>6

\* k[n] is what is kept of the first n sessions of s.
Keeps(k, s, f, N) ==
  /\ k = [n \in 0..N |-> k[n]]
  /\ \A n \in 0..N : k[n] = IF n = 0 THEN <<>> ELSE IF s[n] \in f THEN Append(k[n - 1], s[n]) ELSE k[n - 1]

LEMMA KeepsExists == ASSUME NEW s, NEW f, NEW N \in Nat PROVE \E k : Keeps(k, s, f, N)
<1> DEFINE T == {n \in Nat : ~ \E k : Keeps(k, s, f, n)}
<1> SUFFICES ASSUME T # {} PROVE FALSE
  OBVIOUS
<1>1. PICK n \in T : \A m \in T : n <= m
  BY Least
<1>2. CASE n = 0
  <2> DEFINE k == [m \in 0..0 |-> <<>>]
  <2>1. Keeps(k, s, f, 0)
    BY DEF Keeps
  <2> QED
    BY <1>2, <2>1
<1>3. CASE n # 0
  <2>1. n \in Nat /\ n - 1 \in Nat /\ n - 1 \notin T
    BY <1>1, <1>3
  <2>2. PICK k : Keeps(k, s, f, n - 1)
    BY <2>1
  <2> DEFINE last == IF s[n] \in f THEN Append(k[n - 1], s[n]) ELSE k[n - 1]
             longer == [m \in 0..n |-> IF m = n THEN last ELSE k[m]]
  <2>3. \A m \in 0..(n - 1) : longer[m] = k[m] /\ (m # 0 => longer[m - 1] = k[m - 1])
    BY <2>1
  <2>4. longer[n] = last /\ longer[n - 1] = k[n - 1] /\ longer = [m \in 0..n |-> longer[m]]
    BY <2>1
  <2> HIDE DEF longer
  <2>5. \A m \in 0..n : m = n \/ m \in 0..(n - 1)
    BY <2>1
  <2>6. Keeps(longer, s, f, n)
    BY <1>3, <2>1, <2>2, <2>3, <2>4, <2>5 DEF Keeps
  <2> QED
    BY <2>6
<1> QED
  BY <1>2, <1>3

\* The recursion of Filtered is that function.
LEMMA FilteredKeeps ==
  ASSUME NEW s, NEW f, Len(s) \in Nat
  PROVE  \E k : Keeps(k, s, f, Len(s)) /\ Filtered(s, f) = k[Len(s)]
<1> DEFINE Def(k) == [n \in 0..Len(s) |-> IF n = 0 THEN <<>> ELSE IF s[n] \in f THEN Append(k[n - 1], s[n]) ELSE k[n - 1]]
           kept == CHOOSE k : k = Def(k)
<1>1. \E k : k = Def(k)
  <2>1. PICK k : Keeps(k, s, f, Len(s))
    BY KeepsExists
  <2> QED
    BY <2>1 DEF Keeps
<1>2. kept = Def(kept)
  BY <1>1, Zenon
<1>3. Filtered(s, f) = kept[Len(s)]
  BY Zenon DEF Filtered
<1> HIDE DEF kept
<1>4. Keeps(kept, s, f, Len(s))
  BY <1>2 DEF Keeps
<1> QED
  BY <1>3, <1>4

LEMMA FilteredEmpty == ASSUME NEW f PROVE Filtered(<<>>, f) = <<>>
<1>1. PICK k : Keeps(k, <<>>, f, 0) /\ Filtered(<<>>, f) = k[0]
  BY FilteredKeeps
<1> QED
  BY <1>1 DEF Keeps

LEMMA FilteredType == ASSUME NEW S, NEW s \in Seq(S), NEW f PROVE Filtered(s, f) \in Seq(S)
<1>1. PICK k : Keeps(k, s, f, Len(s)) /\ Filtered(s, f) = k[Len(s)]
  BY FilteredKeeps
<1> DEFINE T == {n \in 0..Len(s) : k[n] \notin Seq(S)}
<1> SUFFICES ASSUME T # {} PROVE FALSE
  BY <1>1
<1>2. T \subseteq Nat
  OBVIOUS
<1>3. PICK n \in T : \A m \in T : n <= m
  <2> HIDE DEF T
  <2> QED
    BY <1>2, Least
<1>4. n \in 0..Len(s) /\ k[n] \notin Seq(S)
  OBVIOUS
<1>5. k[n] = IF n = 0 THEN <<>> ELSE IF s[n] \in f THEN Append(k[n - 1], s[n]) ELSE k[n - 1]
  BY <1>1, <1>4 DEF Keeps
<1>6. n # 0
  BY <1>4, <1>5
<1>7. n - 1 \in 0..Len(s) /\ n - 1 \notin T /\ s[n] \in S
  BY <1>3, <1>4, <1>6
<1>8. k[n - 1] \in Seq(S)
  BY <1>7
<1> QED
  BY <1>4, <1>5, <1>6, <1>7, <1>8

LEMMA FilteredAppend ==
  ASSUME NEW S, NEW s \in Seq(S), NEW x \in S, NEW f
  PROVE  Filtered(Append(s, x), f) = IF x \in f THEN Append(Filtered(s, f), x) ELSE Filtered(s, f)
<1> DEFINE N == Len(s)
           longer == Append(s, x)
<1>1. N \in Nat /\ Len(longer) = N + 1 /\ longer[N + 1] = x /\ \A n \in 1..N : longer[n] = s[n]
  OBVIOUS
<1>2. PICK k : Keeps(k, s, f, N) /\ Filtered(s, f) = k[N]
  BY <1>1, FilteredKeeps
<1> HIDE DEF N, longer
<1>3. PICK l : Keeps(l, longer, f, N + 1) /\ Filtered(longer, f) = l[N + 1]
  <2>1. Len(longer) \in Nat
    BY <1>1
  <2> QED
    BY <1>1, <2>1, FilteredKeeps
<1>4. \A n \in 0..N : l[n] = k[n]
  <2> DEFINE T == {n \in 0..N : l[n] # k[n]}
  <2> SUFFICES ASSUME T # {} PROVE FALSE
    OBVIOUS
  <2>1. PICK n \in T : \A m \in T : n <= m
    <3>1. T \subseteq Nat
      BY <1>1
    <3> HIDE DEF T
    <3> QED
      BY <3>1, Least
  <2>2. n \in 0..N /\ n \in 0..(N + 1)
    BY <1>1
  <2>3. n # 0
    BY <1>2, <1>3, <2>1, <2>2 DEF Keeps
  <2>4. n - 1 \in 0..N /\ n - 1 \notin T /\ longer[n] = s[n]
    BY <1>1, <2>1, <2>2, <2>3
  <2>5. l[n] = k[n]
    BY <1>2, <1>3, <2>2, <2>3, <2>4 DEF Keeps
  <2>6. l[n] # k[n]
    OBVIOUS
  <2> QED
    BY <2>5, <2>6
<1>5. l[N + 1] = IF x \in f THEN Append(l[N], x) ELSE l[N]
  <2>1. N + 1 \in 0..(N + 1) /\ N + 1 # 0 /\ (N + 1) - 1 = N
    BY <1>1
  <2> QED
    BY <1>1, <1>3, <2>1 DEF Keeps
<1>6. l[N] = Filtered(s, f)
  BY <1>1, <1>2, <1>4
<1>7. Filtered(longer, f) = IF x \in f THEN Append(Filtered(s, f), x) ELSE Filtered(s, f)
  BY <1>3, <1>5, <1>6
<1> QED
  BY <1>7 DEF longer

-----------------------------------------------------------------------------
(* The lists agree while one proxy feeds them.                             *)

Views == ListStates \cup {"loading", "detail", "cert", "filter", "dump"}
Uis   == [screen : Screens, form : {"none", "pcap", "proxy"}, pa : Views,
          proxy : Proxies \cup {None}, pcap : BOOLEAN, listen : BOOLEAN]

\* One stop channel per start, and a proxy that is held has begun.
Made == stopCh = Cardinality(Begun) /\ (ui.proxy # None => ui.proxy \in Begun)

\* Before the first start there are no connections, and so no sessions to append while
\* the lists are reset for it; a capture is marked before its reset is over.
OneSource ==
  /\ loop = "pcapReset" => ui.pcap
  /\ stopCh = 0 => \A c \in Conns : conn[c].pc = "new"
  /\ loop \in {"drain", "receive"} /\ stopCh = 0 => all = <<>> /\ shown = <<>>
  /\ stopCh <= 1 /\ ~ui.pcap => ListsAgree

ListsInv == TypeOK /\ Made /\ OneSource

LEMMA MadeBound ==
  ASSUME Made
  PROVE  IsFiniteSet(Begun) /\ stopCh \in Nat /\ stopCh \in Gens /\ (stopCh = 0 => Begun = {})
<1>1. Begun \subseteq Proxies /\ IsFiniteSet(Proxies)
  BY AnalyzerAssumption DEF Begun
<1>2. IsFiniteSet(Begun) /\ Cardinality(Begun) \in Nat /\ Cardinality(Proxies) \in Nat /\ Cardinality(Begun) <= Cardinality(Proxies)
  BY <1>1, FS_Subset, FS_CardinalityType
<1>3. Cardinality(Begun) = 0 => Begun = {}
  BY <1>2, FS_EmptySet
<1> QED
  BY <1>2, <1>3 DEF Made, Gens

LEMMA ListsInit == Init => ListsInv
<1> SUFFICES ASSUME NEW pcap \in BOOLEAN, NEW start \in Proxies \cup {None}, start # None => ~pcap,
                    ui = [screen |-> "analyzer", form |-> "none", pa |-> IF pcap THEN "loading" ELSE "idle",
                          proxy |-> None, pcap |-> FALSE, listen |-> start # None],
                    loading = pcap, stopCh = IF start = None THEN 0 ELSE 1,
                    px = [p \in Proxies |-> IF p = start THEN "starting" ELSE "new"],
                    filter \in {Sessions, Matching}, all = <<>>, shown = <<>>,
                    loop = "free", chan = <<>>, closedChs = {}, waiters = [g \in Gens |-> 0], arrived = 0,
                    conn = [c \in Conns |-> [pc |-> "new", px |-> None]]
             PROVE  ListsInv
  BY DEF Init
<1>1. Made
  <2>1. CASE start = None
    <3>1. Begun = {}
      BY <2>1, AnalyzerAssumption DEF Begun
    <3> QED
      BY <2>1, <3>1, FS_EmptySet DEF Made
  <2>2. CASE start # None
    <3>1. Begun = {start}
      BY <2>2 DEF Begun
    <3> QED
      BY <2>2, <3>1, FS_Singleton DEF Made
  <2> QED
    BY <2>1, <2>2
<1>2. stopCh \in Gens
  BY <1>1, MadeBound
<1>3. TypeOK
  BY <1>2, AnalyzerAssumption DEF TypeOK, ListStates
<1>4. OneSource
  BY FilteredEmpty DEF OneSource, ListsAgree
<1> QED
  BY <1>1, <1>3, <1>4 DEF ListsInv

\* Steps that leave ui, proxies, stop channels and lists alone.
LEMMA ListsStay ==
  ASSUME ListsInv, TypeOK', UNCHANGED <<ui, px, stopCh, all, shown, filter>>,
         loop' = loop \/ (loop \in {"drain", "receive"} /\ loop' \in {"drain", "receive"}),
         stopCh = 0 => \A c \in Conns : conn'[c].pc = "new"
  PROVE  ListsInv'
<1>1. Made'
  BY DEF ListsInv, Made, Begun
<1>2. OneSource'
  BY DEF ListsInv, OneSource, ListsAgree
<1> QED
  BY <1>1, <1>2 DEF ListsInv

\* The connections and the waiters.
LEMMA ConnectionLists ==
  ASSUME ListsInv, NEW c \in Conns, Connect(c) \/ OnConnection(c) \/ Send(c)
  PROVE  ListsInv'
<1>1. CASE Connect(c)
  <2>1. PICK p \in Proxies : /\ px[p] \in {"started", "owned"}
                             /\ conn' = [conn EXCEPT ![c] = [pc |-> "open", px |-> p]]
    BY <1>1 DEF Connect
  <2>2. stopCh # 0
    BY <2>1, MadeBound DEF ListsInv, Begun
  <2>3. UNCHANGED <<ui, filter, all, shown, loop, chan, stopCh, closedChs, waiters, arrived, px, loading>>
    BY <1>1 DEF Connect, lists, stops, waiting
  <2>4. TypeOK'
    BY <2>1, <2>3 DEF ListsInv, TypeOK
  <2> QED
    BY <2>2, <2>3, <2>4, ListsStay
<1>2. CASE OnConnection(c)
  <2>1. /\ conn[c].pc = "open" /\ all' = Append(all, c)
        /\ conn' = [conn EXCEPT ![c].pc = IF c \in filter THEN "sending" ELSE "done"]
        /\ shown' = IF c \in filter THEN Append(shown, c) ELSE shown
        /\ UNCHANGED <<ui, filter, loop, chan, stopCh, closedChs, waiters, arrived, px, loading>>
    BY <1>2 DEF OnConnection, Step, stops, waiting
  <2>2. c \in Sessions
    BY DEF Sessions
  <2>3. TypeOK'
    <3>1. all' \in Seq(Sessions) /\ shown' \in Seq(Sessions)
      BY <2>1, <2>2 DEF ListsInv, TypeOK
    <3>2. conn' \in [Conns -> [pc : {"new", "open", "sending", "done"}, px : Proxies \cup {None}]]
      BY <2>1 DEF ListsInv, TypeOK
    <3> QED
      BY <2>1, <3>1, <3>2 DEF ListsInv, TypeOK
  <2>4. Made' /\ stopCh # 0
    <3>1. Made'
      BY <2>1 DEF ListsInv, Made, Begun
    <3>2. stopCh # 0
      BY <2>1 DEF ListsInv, OneSource
    <3> QED
      BY <3>1, <3>2
  <2>5. Filtered(all', filter) = IF c \in filter THEN Append(Filtered(all, filter), c) ELSE Filtered(all, filter)
    <3>1. all \in Seq(Sessions)
      BY DEF ListsInv, TypeOK
    <3>2. Filtered(Append(all, c), filter) = IF c \in filter THEN Append(Filtered(all, filter), c) ELSE Filtered(all, filter)
      BY <2>2, <3>1, FilteredAppend
    <3> QED
      BY <2>1, <3>2
  <2>6. OneSource'
    <3>1. stopCh <= 1 /\ ~ui.pcap /\ loop = "free" => shown' = Filtered(all', filter)
      BY <2>1, <2>5 DEF ListsInv, OneSource, ListsAgree
    <3> QED
      BY <2>1, <2>4, <3>1 DEF ListsInv, OneSource, ListsAgree
  <2> QED
    BY <2>3, <2>4, <2>6 DEF ListsInv
<1>3. CASE Send(c)
  <2>1. /\ Len(chan) < ChanCap /\ conn[c].pc = "sending" /\ conn' = [conn EXCEPT ![c].pc = "done"]
        /\ chan' = Append(chan, c)
        /\ UNCHANGED <<ui, filter, all, shown, loop, stopCh, closedChs, waiters, arrived, px, loading>>
    BY <1>3 DEF Send, SendUpTo, Step, lists, stops, waiting
  <2>2. chan' \in Seq(Conns) /\ Len(chan') <= ChanCap
    <3>1. chan \in Seq(Conns) /\ Len(chan) \in Nat /\ ChanCap \in Nat
      BY AnalyzerAssumption DEF ListsInv, TypeOK
    <3>2. chan' \in Seq(Conns) /\ Len(chan') = Len(chan) + 1
      BY <2>1, <3>1
    <3> QED
      BY <2>1, <3>1, <3>2
  <2>3. TypeOK'
    <3>1. conn' \in [Conns -> [pc : {"new", "open", "sending", "done"}, px : Proxies \cup {None}]]
      BY <2>1 DEF ListsInv, TypeOK
    <3> QED
      BY <2>1, <2>2, <3>1 DEF ListsInv, TypeOK
  <2>4. stopCh # 0
    BY <2>1 DEF ListsInv, OneSource
  <2> QED
    BY <2>1, <2>3, <2>4, ListsStay
<1> QED
  BY <1>1, <1>2, <1>3

LEMMA ChannelLists ==
  ASSUME ListsInv, (\E g \in Gens : Waiter(g)) \/ HandleProxySession \/ DrainLook \/ DrainReceive
  PROVE  ListsInv'
<1>1. stopCh \in Gens
  BY DEF ListsInv, TypeOK
<1>2. UNCHANGED <<ui, filter, all, shown, stopCh, closedChs, px, loading, conn>>
  BY DEF Waiter, WaiterTakes, WaiterStops, HandleProxySession, SessionHandled, DrainLook, DrainReceive, lists, stops, waiting
<1>3. chan' = chan \/ (chan # <<>> /\ chan' = Tail(chan))
  BY Zenon DEF Waiter, WaiterTakes, WaiterStops, HandleProxySession, SessionHandled, DrainLook, DrainReceive
<1>4. chan' \in Seq(Conns) /\ Len(chan') <= ChanCap
  <2>1. chan \in Seq(Conns) /\ Len(chan) \in Nat /\ ChanCap \in Nat /\ Len(chan) <= ChanCap
    BY AnalyzerAssumption DEF ListsInv, TypeOK
  <2>2. chan # <<>> => Tail(chan) \in Seq(Conns) /\ Len(Tail(chan)) = Len(chan) - 1
    BY <2>1
  <2> QED
    BY <1>3, <2>1, <2>2
<1>5. waiters' \in [Gens -> Nat] /\ arrived' \in Nat
  <2>1. waiters \in [Gens -> Nat] /\ arrived \in Nat
    BY DEF ListsInv, TypeOK
  <2>2. ASSUME NEW g \in Gens, Waiter(g) PROVE waiters' \in [Gens -> Nat] /\ arrived' \in Nat
    <3>1. waiters[g] > 0 /\ waiters' = [waiters EXCEPT ![g] = @ - 1] /\ (arrived' = arrived \/ arrived' = arrived + 1)
      BY <2>2 DEF Waiter, WaiterTakes, WaiterStops
    <3> QED
      BY <2>1, <3>1
  <2>3. CASE HandleProxySession
    <3>1. arrived > 0 /\ arrived' = arrived - 1 /\ (waiters' = waiters \/ waiters' = [waiters EXCEPT ![stopCh] = @ + 1])
      BY <2>3 DEF HandleProxySession, SessionHandled, NewWaiter, NoWaiter
    <3> QED
      BY <1>1, <2>1, <3>1
  <2>4. CASE DrainLook \/ DrainReceive
    BY <2>1, <2>4 DEF DrainLook, DrainReceive, waiting
  <2> QED
    BY <2>2, <2>3, <2>4
<1>6. loop' = loop \/ (loop \in {"drain", "receive"} /\ loop' \in {"drain", "receive"})
  BY DEF Waiter, WaiterTakes, WaiterStops, HandleProxySession, SessionHandled, DrainLook, DrainReceive
<1>7. TypeOK'
  BY <1>2, <1>4, <1>5, <1>6 DEF ListsInv, TypeOK
<1>8. stopCh = 0 => \A c \in Conns : conn'[c].pc = "new"
  BY <1>2 DEF ListsInv, OneSource
<1> QED
  BY <1>2, <1>6, <1>7, <1>8, ListsStay

\* A proxy that has begun goes on, whatever the user does meanwhile.
LEMMA BegunLists ==
  ASSUME ListsInv, NEW p \in Proxies, NEW s \in PxStates, px[p] # "new", s # "new", px' = [px EXCEPT ![p] = s],
         UNCHANGED <<filter, all, shown, loop, chan, stopCh, loading, conn>>,
         ui' \in Uis, ui'.proxy # None => ui'.proxy \in Begun, ui'.pcap = ui.pcap,
         closedChs' \subseteq Gens, waiters' \in [Gens -> Nat], arrived' \in Nat
  PROVE  ListsInv'
<1>1. px \in [Proxies -> PxStates]
  BY DEF ListsInv, TypeOK, PxStates
<1>2. Begun' = Begun /\ px' \in [Proxies -> PxStates]
  BY <1>1 DEF Begun
<1>3. TypeOK'
  BY <1>2 DEF ListsInv, TypeOK, PxStates, Uis, Views, Screens
<1>4. Made'
  BY <1>2 DEF ListsInv, Made
<1>5. OneSource'
  BY DEF ListsInv, OneSource, ListsAgree
<1> QED
  BY <1>3, <1>4, <1>5 DEF ListsInv

LEMMA ProxyLists ==
  ASSUME ListsInv, NEW p \in Proxies, Listen(p) \/ HandleProxyStart(p) \/ HandleStartError(p)
  PROVE  ListsInv'
<1>1. ui \in Uis /\ closedChs \subseteq Gens /\ waiters \in [Gens -> Nat] /\ arrived \in Nat /\ stopCh \in Gens
      /\ (ui.proxy # None => ui.proxy \in Begun)
  BY DEF ListsInv, TypeOK, Made, Uis, Views, Screens
<1>2. CASE Listen(p)
  <2>1. PICK s \in {"started", "refused"} : px[p] = "starting" /\ px' = [px EXCEPT ![p] = s]
    BY <1>2 DEF Listen
  <2>2. UNCHANGED <<ui, filter, all, shown, loop, chan, stopCh, closedChs, waiters, arrived, loading, conn>>
    BY <1>2 DEF Listen, lists, stops, waiting
  <2> QED
    BY <1>1, <2>1, <2>2, BegunLists DEF PxStates
<1>3. CASE HandleProxyStart(p)
  <2>1. /\ px[p] = "started" /\ px' = [px EXCEPT ![p] = "owned"]
        /\ ui' = [ui EXCEPT !.screen = "analyzer", !.form = "none", !.proxy = p, !.pa = "running"]
        /\ waiters' = [waiters EXCEPT ![stopCh] = @ + 1]
        /\ UNCHANGED <<filter, all, shown, loop, chan, stopCh, closedChs, arrived, loading, conn>>
    BY <1>3 DEF HandleProxyStart, StartHandled, NewWaiter, lists, stops
  <2>2. ui' \in Uis /\ ui'.proxy = p /\ ui'.pcap = ui.pcap
    BY <1>1, <2>1 DEF Uis, Views, Screens, ListStates
  <2>3. p \in Begun /\ waiters' \in [Gens -> Nat]
    BY <1>1, <2>1 DEF Begun
  <2> QED
    BY <1>1, <2>1, <2>2, <2>3, BegunLists DEF PxStates
<1>4. CASE HandleStartError(p)
  <2>1. /\ px[p] = "refused" /\ px' = [px EXCEPT ![p] = "failed"]
        /\ ui' = [ui EXCEPT !.screen = "form"] \/ ui' = [ui EXCEPT !.pa = "idle"]
        /\ UNCHANGED <<filter, all, shown, loop, chan, stopCh, closedChs, waiters, arrived, loading, conn>>
    BY <1>4 DEF HandleStartError, lists, stops, waiting
  <2>2. ui' \in Uis /\ ui'.proxy = ui.proxy /\ ui'.pcap = ui.pcap
    BY <1>1, <2>1 DEF Uis, Views, Screens, ListStates
  <2> QED
    BY <1>1, <2>1, <2>2, BegunLists DEF PxStates
<1> QED
  BY <1>2, <1>3, <1>4

LEMMA StopLists == ASSUME ListsInv, StopProxy PROVE ListsInv'
<1>1. ui \in Uis /\ closedChs \subseteq Gens /\ waiters \in [Gens -> Nat] /\ arrived \in Nat /\ stopCh \in Gens
      /\ (ui.proxy # None => ui.proxy \in Begun)
  BY DEF ListsInv, TypeOK, Made, Uis, Views, Screens
<1>2. UNCHANGED <<filter, all, shown, loop, chan, stopCh, waiters, arrived, loading, conn>>
  BY DEF StopProxy, Stopped, lists, waiting
<1>3. CASE ui.proxy = None
  <2>1. ui' = [ui EXCEPT !.pa = "sessions"] /\ px' = px /\ closedChs' = closedChs
    BY <1>3 DEF StopProxy, Stopped
  <2>2. ui' \in Uis /\ ui'.proxy = ui.proxy /\ ui'.pcap = ui.pcap
    BY <1>1, <2>1 DEF Uis, Views, Screens, ListStates
  <2>3. TypeOK'
    BY <1>2, <2>1, <2>2 DEF ListsInv, TypeOK, Uis, Views, Screens
  <2>4. Made' /\ OneSource'
    BY <1>2, <2>1, <2>2 DEF ListsInv, Made, Begun, OneSource, ListsAgree
  <2> QED
    BY <2>3, <2>4 DEF ListsInv
<1>4. CASE ui.proxy # None
  <2>1. /\ px' = [px EXCEPT ![ui.proxy] = "stopped"] /\ closedChs' = closedChs \cup {stopCh}
        /\ ui' = [ui EXCEPT !.proxy = None, !.pa = "sessions"]
    BY <1>4 DEF StopProxy, Stopped
  <2>2. ui' \in Uis /\ ui'.proxy = None /\ ui'.pcap = ui.pcap
    BY <1>1, <2>1 DEF Uis, Views, Screens, ListStates
  <2>3. ui.proxy \in Proxies /\ px[ui.proxy] # "new"
    BY <1>1, <1>4 DEF Begun
  <2> QED
    BY <1>1, <1>2, <2>1, <2>2, <2>3, BegunLists DEF PxStates
<1> QED
  BY <1>3, <1>4

LEMMA StartLists == ASSUME ListsInv, NEW p \in Proxies, StartProxy(p) PROVE ListsInv'
<1>1. /\ loop = "drain" /\ loop' = "free" /\ px[p] = "new" /\ px' = [px EXCEPT ![p] = "starting"] /\ stopCh' = stopCh + 1
      /\ UNCHANGED <<ui, filter, all, shown, chan, closedChs, waiters, arrived, loading, conn>>
  BY DEF StartProxy, BeginProxy, lists, waiting
<1>2. IsFiniteSet(Begun) /\ stopCh \in Nat
  BY MadeBound DEF ListsInv
<1>3. px \in [Proxies -> PxStates] /\ px' \in [Proxies -> PxStates]
  BY <1>1 DEF ListsInv, TypeOK, PxStates
<1>4. Begun' = Begun \cup {p} /\ p \notin Begun
  BY <1>1, <1>3 DEF Begun
<1>5. Cardinality(Begun') = Cardinality(Begun) + 1
  BY <1>2, <1>4, FS_AddElement
<1>6. Made'
  BY <1>1, <1>4, <1>5 DEF ListsInv, Made
<1>7. stopCh' \in Gens
  <2>1. Begun' \subseteq Proxies /\ IsFiniteSet(Begun')
    BY <1>2, <1>4, FS_AddElement DEF Begun
  <2>2. Cardinality(Begun') <= Cardinality(Proxies) /\ Cardinality(Proxies) \in Nat
    BY <2>1, AnalyzerAssumption, FS_Subset, FS_CardinalityType
  <2> QED
    BY <1>1, <1>2, <1>6, <2>2 DEF Made, Gens
<1>8. TypeOK'
  BY <1>1, <1>3, <1>7 DEF ListsInv, TypeOK, PxStates
<1>9. OneSource'
  <2>1. stopCh' # 0 /\ (stopCh' <= 1 => stopCh = 0)
    BY <1>1, <1>2
  <2> QED
    BY <1>1, <2>1, FilteredEmpty DEF ListsInv, OneSource, ListsAgree
<1> QED
  BY <1>6, <1>8, <1>9 DEF ListsInv

\* The keys and messages that change the view or the lists, but no proxy.
LEMMA KeyLists ==
  ASSUME ListsInv, UNCHANGED <<chan, stopCh, closedChs, waiters, arrived, px, conn>>,
         ui' \in Uis, ui'.proxy = ui.proxy, filter' \in {Sessions, Matching},
         all' \in Seq(Sessions), shown' \in Seq(Sessions), loading' \in BOOLEAN,
         loop' \in {"free", "pcapReset", "proxyReset", "drain"},
         loop' = "pcapReset" => ui'.pcap,
         loop' = "drain" => all' = <<>> /\ shown' = <<>>,
         stopCh <= 1 /\ ~ui'.pcap /\ loop' = "free" => shown' = Filtered(all', filter')
  PROVE  ListsInv'
<1>1. TypeOK'
  BY DEF ListsInv, TypeOK, Uis, Views, Screens
<1>2. Made'
  BY DEF ListsInv, Made, Begun
<1>3. OneSource'
  BY DEF ListsInv, OneSource, ListsAgree
<1> QED
  BY <1>1, <1>2, <1>3 DEF ListsInv

LEMMA ViewLists ==
  ASSUME ListsInv, OpenForm \/ CancelForm \/ Leave \/ OpenFromList \/ DetailKeys \/ ApplyFilter
  PROVE  ListsInv'
<1>1. ui \in Uis
  BY DEF ListsInv, TypeOK, Uis, Views, Screens
<1>2. loop = "free" /\ UNCHANGED <<all, loop, chan, stopCh, closedChs, waiters, arrived, px, loading, conn>>
  BY Zenon DEF OpenForm, FormWhen, CancelForm, Leave, OpenFromList, DetailKeys, ApplyFilter, Apply, OnlyUI, ListKey, Key,
             lists, stops, waiting
<1>3. ui' \in Uis /\ ui'.proxy = ui.proxy /\ ui'.pcap = ui.pcap
  <2>1. CASE OpenForm \/ CancelForm \/ Leave
    BY <1>1, <2>1 DEF OpenForm, FormWhen, CancelForm, Leave, Uis, Views, Screens
  <2>2. CASE OpenFromList \/ DetailKeys \/ ApplyFilter
    BY <1>1, <2>2 DEF OpenFromList, DetailKeys, ApplyFilter, Apply, Restored, StoppedList, Uis, Views, Screens, ListStates
  <2> QED
    BY <2>1, <2>2
<1>4. filter' \in {Sessions, Matching} /\ (\/ filter' = filter /\ shown' = shown
                                          \/ shown' = Filtered(all, filter'))
  <2>1. CASE ApplyFilter
    BY <2>1 DEF ApplyFilter, Apply
  <2>2. CASE OpenForm \/ CancelForm \/ Leave \/ OpenFromList \/ DetailKeys
    <3>1. UNCHANGED <<filter, shown>>
      BY <2>2 DEF OpenForm, FormWhen, CancelForm, Leave, OpenFromList, DetailKeys, OnlyUI, lists
    <3> QED
      BY <3>1 DEF ListsInv, TypeOK
  <2> QED
    BY <2>1, <2>2
<1>5. all \in Seq(Sessions) /\ shown \in Seq(Sessions) /\ loading \in BOOLEAN
  BY DEF ListsInv, TypeOK
<1>6. shown' \in Seq(Sessions)
  BY <1>4, <1>5, FilteredType
<1>7. stopCh <= 1 /\ ~ui.pcap => shown = Filtered(all, filter)
  BY <1>2 DEF ListsInv, OneSource, ListsAgree
<1> QED
  BY <1>2, <1>3, <1>4, <1>5, <1>6, <1>7, KeyLists

LEMMA ResetLists ==
  ASSUME ListsInv, SubmitForm \/ PcapReset \/ ProxyReset \/ Clear \/ (\E ok \in BOOLEAN : HandlePcap(ok))
  PROVE  ListsInv'
<1>1. /\ ui \in Uis /\ all \in Seq(Sessions) /\ shown \in Seq(Sessions) /\ loading \in BOOLEAN
      /\ filter \in {Sessions, Matching} /\ <<>> \in Seq(Sessions)
  BY DEF ListsInv, TypeOK, Uis, Views, Screens
<1>2. UNCHANGED <<filter, chan, stopCh, closedChs, waiters, arrived, px, conn>>
  BY DEF SubmitForm, PcapReset, ProxyReset, Clear, HandlePcap, stops, waiting
<1>3. CASE SubmitForm
  <2>1. shown' = <<>> /\ all' = all /\ loading' = loading
    BY <1>3 DEF SubmitForm
  <2>2. \/ loop' = "proxyReset" /\ ui' = [ui EXCEPT !.screen = "analyzer", !.listen = TRUE]
        \/ loop' = "pcapReset" /\ ui' = [ui EXCEPT !.screen = "analyzer", !.form = "none", !.pcap = TRUE, !.pa = "loading"]
    BY <1>3 DEF SubmitForm
  <2>3. ui' \in Uis /\ ui'.proxy = ui.proxy /\ (loop' = "pcapReset" => ui'.pcap)
    BY <1>1, <2>2 DEF Uis, Views, Screens
  <2> QED
    BY <1>1, <1>2, <2>1, <2>2, <2>3, KeyLists
<1>4. CASE PcapReset
  <2>1. loop' = "free" /\ all' = <<>> /\ shown' = shown /\ loading' = TRUE /\ ui' = ui /\ ui.pcap
    BY <1>4 DEF PcapReset, ListsInv, OneSource
  <2> QED
    BY <1>1, <1>2, <2>1, KeyLists
<1>5. CASE ProxyReset
  <2>1. loop' = "drain" /\ all' = <<>> /\ shown' = <<>> /\ loading' = loading /\ ui' = [ui EXCEPT !.pcap = FALSE]
    BY <1>5 DEF ProxyReset
  <2>2. ui' \in Uis /\ ui'.proxy = ui.proxy
    BY <1>1, <2>1 DEF Uis
  <2> QED
    BY <1>1, <1>2, <2>1, <2>2, KeyLists
<1>6. CASE Clear
  <2>1. /\ loop' = "free" /\ all' = <<>> /\ shown' = <<>> /\ loading' = loading
        /\ ui' = ui \/ ui' = [ui EXCEPT !.pcap = FALSE, !.listen = FALSE, !.pa = "idle"]
    BY <1>6 DEF Clear, ListKey, Key
  <2>2. ui' \in Uis /\ ui'.proxy = ui.proxy
    BY <1>1, <2>1 DEF Uis, Views, ListStates
  <2>3. shown' = Filtered(all', filter')
    BY <2>1, FilteredEmpty
  <2> QED
    BY <1>1, <1>2, <2>1, <2>2, <2>3, KeyLists
<1>7. ASSUME NEW ok \in BOOLEAN, HandlePcap(ok) PROVE ListsInv'
  <2>1. loop = "free" /\ loop' = "free" /\ loading' = FALSE
    BY <1>7 DEF HandlePcap
  <2>2. CASE ok
    <3>1. PICK sessions \in {<<>>} \cup {<<s>> : s \in Captured} :
             all' = sessions /\ shown' = Filtered(sessions, filter) /\ ui' = [ui EXCEPT !.pcap = TRUE, !.pa = "sessions"]
      BY <1>7, <2>2 DEF HandlePcap
    <3>2. all' \in Seq(Sessions)
      <4>1. \A s \in Captured : s \in Sessions /\ <<s>> \in Seq(Sessions)
        BY DEF Sessions
      <4>2. sessions = <<>> \/ \E s \in Captured : sessions = <<s>>
        BY <3>1
      <4> QED
        BY <1>1, <3>1, <4>1, <4>2
    <3>3. shown' \in Seq(Sessions) /\ shown' = Filtered(all', filter')
      BY <1>2, <3>1, <3>2, FilteredType
    <3>4. ui' \in Uis /\ ui'.proxy = ui.proxy
      BY <1>1, <3>1 DEF Uis, Views, ListStates
    <3> QED
      BY <1>1, <1>2, <2>1, <3>2, <3>3, <3>4, KeyLists
  <2>3. CASE ~ok
    <3>1. all' = all /\ shown' = shown /\ ui' = [ui EXCEPT !.pa = "idle"]
      BY <1>7, <2>3 DEF HandlePcap, lists
    <3>2. ui' \in Uis /\ ui'.proxy = ui.proxy /\ ui'.pcap = ui.pcap
      BY <1>1, <3>1 DEF Uis, Views, ListStates
    <3>3. stopCh <= 1 /\ ~ui'.pcap => shown' = Filtered(all', filter')
      BY <1>2, <2>1, <3>1, <3>2 DEF ListsInv, OneSource, ListsAgree
    <3> QED
      BY <1>1, <1>2, <2>1, <3>1, <3>2, <3>3, KeyLists
  <2> QED
    BY <2>2, <2>3
<1> QED
  BY <1>3, <1>4, <1>5, <1>6, <1>7

LEMMA ListsStep == ASSUME ListsInv, [Next]_vars PROVE ListsInv'
<1>1. CASE UNCHANGED vars
  <2>1. UNCHANGED <<ui, filter, all, shown, loop, chan, stopCh, closedChs, waiters, arrived, px, loading, conn>>
    BY <1>1 DEF vars, lists, stops, waiting
  <2>2. TypeOK'
    BY <2>1 DEF ListsInv, TypeOK
  <2> QED
    BY <2>1, <2>2, ListsStay DEF ListsInv, OneSource
<1>2. CASE \E c \in Conns : Connect(c) \/ Handler(c)
  BY <1>2, ConnectionLists DEF Handler
<1>3. CASE \E p \in Proxies : Listen(p) \/ HandleProxyStart(p) \/ HandleStartError(p) \/ StartProxy(p)
  BY <1>3, ProxyLists, StartLists
<1>4. CASE (\E g \in Gens : Waiter(g)) \/ HandleProxySession \/ DrainLook \/ DrainReceive
  BY <1>4, ChannelLists
<1>5. CASE (\E ok \in BOOLEAN : HandlePcap(ok)) \/ PcapReset \/ ProxyReset
  BY <1>5, ResetLists
<1>6. CASE Keys
  BY <1>6, ViewLists, ResetLists, StopLists DEF Keys
<1> QED
  BY <1>1, <1>2, <1>3, <1>4, <1>5, <1>6 DEF Next, Messages, InReset

\* Whatever the user presses while a start is pending, the sessions displayed are the
\* filtered image of all sessions, in order, until a second proxy is started or a
\* capture is opened (OnConnection, refilterSessions and the resets of the lists).
THEOREM ListsStayFiltered == Spec => []FirstProxyListsAgree
<1>1. ListsInv /\ [Next]_vars => ListsInv'
  BY ListsStep
<1>2. ListsInv => FirstProxyListsAgree
  BY DEF ListsInv, OneSource, FirstProxyListsAgree
<1> QED
  BY <1>1, <1>2, ListsInit, PTL DEF Spec
=============================================================================
