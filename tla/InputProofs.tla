------------------------------ MODULE InputProofs ------------------------------
(***************************************************************************)
(* What the program reads is taken in properly: the worker pool of         *)
(* RemoteDial keeps its slots and sockets, LiveCapture its handle, a Scan  *)
(* account of every file, for any command line and whatever goes wrong,    *)
(* and Reassembly implements OrderedStreams, for any streams, any          *)
(* interleaving of their delivery and whichever side is seen first.        *)
(***************************************************************************)
EXTENDS RemoteDial, LiveCapture, Scan, Reassembly, FiniteSetTheorems, SequenceTheorems, TLAPS

-----------------------------------------------------------------------------
(* RemoteDial: the worker pool.                                             *)

Connected0 == {"proxy", "starttls", "handshake", "relay"}
AtWork == {"resolve", "next"} \cup Connected0
Stages == {"queued", "done"} \cup AtWork

(* The sockets are one record each, of which only `open` matters here.     *)
SocketOpen == \A p \in Processes : "open" \in DOMAIN conn[p] /\ (conn[p].open <=> pc[p] \in Connected0)
PoolTypes ==
  /\ job \in Jobs
  /\ pc \in [Processes -> Stages]
  /\ conn = [p \in Processes |-> conn[p]]
SlotsHeld == held = Cardinality(Working) /\ held \in Nat /\ held <= Slots
PoolInv == PoolTypes /\ SocketOpen /\ SlotsHeld

LEMMA ProcessesFinite == ASSUME job \in Jobs PROVE IsFiniteSet(Processes) /\ Slots \in Int /\ Slots >= 1
<1>1. Len(job.targets) \in Nat /\ Processes = 1..Len(job.targets) /\ job.opts.parallel \in Int
  BY JobsAssumption DEF Processes
<1>2. IsFiniteSet(1..Len(job.targets))
  BY <1>1, FS_Interval
<1> QED
  BY <1>1, <1>2 DEF Slots, Opts

LEMMA WorkingFinite == ASSUME job \in Jobs PROVE IsFiniteSet(Working)
<1>1. Working \subseteq Processes
  BY DEF Working
<1> QED
  BY <1>1, ProcessesFinite, FS_Subset

LEMMA PoolInit == Init => PoolInv
<1> SUFFICES ASSUME Init PROVE PoolInv
  OBVIOUS
<1>1. Working = {}
  BY DEF Init, Working
<1>2. Cardinality(Working) = 0
  BY <1>1, FS_EmptySet
<1>3. Slots \in Int /\ Slots >= 1
  BY ProcessesFinite DEF Init
<1> QED
  BY <1>1, <1>2, <1>3 DEF Init, PoolInv, PoolTypes, SocketOpen, SlotsHeld, Closed, Connected0, AtWork, Stages

(* A goroutine that goes on keeps the set of those at work.                *)
LEMMA GoesOn ==
  ASSUME PoolInv, NEW p \in Processes, pc[p] \in AtWork, UNCHANGED <<job, held>>,
         NEW s \in AtWork, pc' = [pc EXCEPT ![p] = s]
  PROVE  SlotsHeld'
<1>1. Working' = Working
  BY DEF PoolInv, PoolTypes, Working, Processes, AtWork, Connected0, Stages
<1> QED
  BY <1>1 DEF PoolInv, SlotsHeld, Slots, Opts

LEMMA StandsStill ==
  ASSUME PoolInv, UNCHANGED <<job, held, pc>>
  PROVE  SlotsHeld'
  BY DEF PoolInv, SlotsHeld, Slots, Opts, Working, Processes

(* What is done with the socket of p alone.                                *)
LEMMA SocketSet ==
  ASSUME PoolInv, NEW p \in Processes, UNCHANGED job, NEW s \in Stages, NEW c,
         pc' = [pc EXCEPT ![p] = s], conn' = [conn EXCEPT ![p] = c],
         "open" \in DOMAIN c, c.open <=> s \in Connected0
  PROVE  PoolTypes' /\ SocketOpen'
<1>1. PoolTypes'
  BY DEF PoolInv, PoolTypes, Processes
<1>2. \A q \in Processes : q # p => pc'[q] = pc[q] /\ conn'[q] = conn[q]
  BY DEF PoolInv, PoolTypes
<1>3. pc'[p] = s /\ conn'[p] = c
  BY DEF PoolInv, PoolTypes
<1> QED
  BY <1>1, <1>2, <1>3 DEF PoolInv, SocketOpen, Processes

LEMMA StartKeeps == ASSUME PoolInv, NEW p \in Processes, Start(p) PROVE PoolInv'
<1>1. pc[p] = "queued" /\ held < Slots /\ held' = held + 1 /\ job' = job /\ conn' = conn
      /\ pc' = [pc EXCEPT ![p] = "resolve"]
  BY DEF Start, HasTurn
<1>2. Working' = Working \cup {p} /\ p \notin Working
  BY <1>1 DEF PoolInv, PoolTypes, Working, Processes
<1>3. Cardinality(Working') = Cardinality(Working) + 1
  BY <1>2, WorkingFinite, FS_AddElement DEF PoolInv, PoolTypes
<1>4. SlotsHeld'
  BY <1>1, <1>3, ProcessesFinite DEF PoolInv, PoolTypes, SlotsHeld, Slots, Opts
<1>5. PoolTypes' /\ SocketOpen'
  BY <1>1 DEF PoolInv, PoolTypes, SocketOpen, Processes, AtWork, Stages, Connected0
<1> QED
  BY <1>4, <1>5 DEF PoolInv

(* The end of a goroutine gives its slot back.                             *)
LEMMA ConcludeKeeps ==
  ASSUME PoolInv, NEW p \in Processes, NEW result, pc[p] \in {"resolve", "next"},
         Conclude(p, result), UNCHANGED <<job, conn>>
  PROVE  PoolInv'
<1>1. held' = held - 1 /\ pc' = [pc EXCEPT ![p] = "done"]
  BY DEF Conclude
<1>2. Working' = Working \ {p} /\ p \in Working
  BY <1>1 DEF PoolInv, PoolTypes, Working, Processes, AtWork, Stages, Connected0
<1>3. Cardinality(Working') = Cardinality(Working) - 1
  BY <1>2, WorkingFinite, FS_RemoveElement DEF PoolInv, PoolTypes
<1>4. Cardinality(Working') \in Nat
  BY <1>2, WorkingFinite, FS_RemoveElement, FS_CardinalityType DEF PoolInv, PoolTypes
<1>5. SlotsHeld'
  BY <1>1, <1>3, <1>4, ProcessesFinite DEF PoolInv, PoolTypes, SlotsHeld, Slots, Opts
<1>6. PoolTypes' /\ SocketOpen'
  BY <1>1 DEF PoolInv, PoolTypes, SocketOpen, Processes, AtWork, Stages, Connected0
<1> QED
  BY <1>5, <1>6 DEF PoolInv

LEMMA ResolveKeeps == ASSUME PoolInv, NEW p \in Processes, Resolve(p) PROVE PoolInv'
<1>1. pc[p] = "resolve" /\ UNCHANGED <<job, conn>>
  BY DEF Resolve
<1>2. \/ Conclude(p, Ended(None, "target"))
      \/ pc' = [pc EXCEPT ![p] = "next"] /\ UNCHANGED held
  BY DEF Resolve
<1>3. CASE Conclude(p, Ended(None, "target"))
  BY <1>1, <1>3, ConcludeKeeps
<1>4. CASE pc' = [pc EXCEPT ![p] = "next"] /\ UNCHANGED held
  <2>1. SlotsHeld'
    BY <1>1, <1>4, GoesOn DEF AtWork
  <2>2. PoolTypes' /\ SocketOpen'
    BY <1>1, <1>4 DEF PoolInv, PoolTypes, SocketOpen, Processes, AtWork, Stages, Connected0
  <2> QED
    BY <2>1, <2>2 DEF PoolInv
<1> QED
  BY <1>2, <1>3, <1>4

LEMMA FinishKeeps == ASSUME PoolInv, NEW p \in Processes, Finish(p) PROVE PoolInv'
<1>1. pc[p] = "next" /\ Conclude(p, Outcome(p)) /\ UNCHANGED <<job, conn>>
  BY DEF Finish
<1> QED
  BY <1>1, ConcludeKeeps

(* Every way out of a connection closes the socket.                        *)
LEMMA EndKeeps ==
  ASSUME PoolInv, NEW p \in Processes, NEW result, pc[p] \in AtWork,
         EndsWith(p, result), UNCHANGED <<job, held>>
  PROVE  PoolInv'
<1>1. conn' = [conn EXCEPT ![p] = Closed] /\ pc' = [pc EXCEPT ![p] = "next"]
  BY DEF EndsWith
<1>2. SlotsHeld'
  BY <1>1, GoesOn DEF AtWork
<1>3. "open" \in DOMAIN Closed /\ Closed.open = FALSE
  BY DEF Closed
<1>4. PoolTypes' /\ SocketOpen'
  BY <1>1, <1>3, SocketSet DEF Stages, AtWork, Connected0
<1> QED
  BY <1>2, <1>4 DEF PoolInv

LEMMA FailKeeps ==
  ASSUME PoolInv, NEW p \in Processes, NEW why, pc[p] \in AtWork, Fails(p, why), UNCHANGED <<job, held>>
  PROVE  PoolInv'
  BY EndKeeps DEF Fails

(* A step to another stage of the same connection, or to its first.        *)
LEMMA SocketMoves ==
  ASSUME PoolInv, NEW p \in Processes, pc[p] \in AtWork, UNCHANGED <<job, held>>,
         NEW s \in Connected0, NEW c, "open" \in DOMAIN c, c.open,
         pc' = [pc EXCEPT ![p] = s], conn' = [conn EXCEPT ![p] = c]
  PROVE  PoolInv'
<1>1. SlotsHeld'
  BY GoesOn DEF AtWork
<1>2. PoolTypes' /\ SocketOpen'
  BY SocketSet DEF Stages, AtWork
<1> QED
  BY <1>1, <1>2 DEF PoolInv

LEMMA ReachedKeeps ==
  ASSUME PoolInv, NEW p \in Processes, pc[p] \in AtWork, UNCHANGED <<job, held>>,
         NEW at, NEW trouble, NEW swallowed, Reached(p, at, trouble, swallowed)
  PROVE  PoolInv'
<1>1. PICK said : conn' = [conn EXCEPT ![p] =
                [Closed EXCEPT !.open = TRUE, !.limit = TRUE, !.trouble = trouble, !.incoming = said]]
  BY Zenon DEF Reached
<1>2. PICK s \in Connected0 : pc' = [pc EXCEPT ![p] = s]
  BY DEF Reached, Connected0
<1> DEFINE c == [Closed EXCEPT !.open = TRUE, !.limit = TRUE, !.trouble = trouble, !.incoming = said]
<1>3. "open" \in DOMAIN c /\ c.open
  BY DEF Closed
<1> QED
  BY <1>1, <1>2, <1>3, SocketMoves

LEMMA ConnectKeeps == ASSUME PoolInv, NEW p \in Processes, Connect(p) PROVE PoolInv'
<1>1. pc[p] = "next" /\ UNCHANGED <<job, held>>
  BY DEF Connect
<1>2. \/ UNCHANGED <<pc, conn>>
      \/ \E a, trouble : Reached(p, a, trouble, FALSE)
      \/ \E trouble : /\ conn' = [conn EXCEPT ![p] = [Closed EXCEPT !.open = TRUE, !.limit = BoundedToProxy, !.trouble = trouble]]
                      /\ pc' = [pc EXCEPT ![p] = "proxy"]
  BY Zenon DEF Connect
<1>3. CASE UNCHANGED <<pc, conn>>
  <2>1. SlotsHeld'
    BY <1>1, <1>3, StandsStill
  <2> QED
    BY <2>1, <1>1, <1>3 DEF PoolInv, PoolTypes, SocketOpen, Processes
<1>4. CASE \E a, trouble : Reached(p, a, trouble, FALSE)
  BY <1>1, <1>4, ReachedKeeps DEF AtWork
<1>5. ASSUME NEW trouble,
             conn' = [conn EXCEPT ![p] = [Closed EXCEPT !.open = TRUE, !.limit = BoundedToProxy, !.trouble = trouble]],
             pc' = [pc EXCEPT ![p] = "proxy"]
      PROVE  PoolInv'
  <2> DEFINE c == [Closed EXCEPT !.open = TRUE, !.limit = BoundedToProxy, !.trouble = trouble]
  <2>1. "open" \in DOMAIN c /\ c.open
    BY DEF Closed
  <2>2. "proxy" \in Connected0 /\ pc[p] \in AtWork
    BY <1>1 DEF Connected0, AtWork
  <2> QED
    BY <1>1, <1>5, <2>1, <2>2, SocketMoves
<1> QED
  BY <1>2, <1>3, <1>4, <1>5

LEMMA ProxyKeeps == ASSUME PoolInv, NEW p \in Processes, ProxyAnswers(p) PROVE PoolInv'
<1>1. pc[p] \in AtWork /\ UNCHANGED <<job, held>>
  BY DEF ProxyAnswers, AtWork, Connected0
<1>2. Fails(p, "proxy") \/ \E at, trouble, swallowed : Reached(p, at, trouble, swallowed)
  BY Zenon DEF ProxyAnswers
<1> QED
  BY <1>1, <1>2, FailKeeps, ReachedKeeps

(* A line that is read stays in the dialogue, or is the last before TLS.   *)
LEMMA ReceiveKeeps == ASSUME PoolInv, NEW p \in Processes, Receive(p) PROVE PoolInv'
<1>1. pc[p] = "starttls" /\ UNCHANGED <<job, held>>
  BY DEF Receive
<1>2. pc[p] \in AtWork /\ "open" \in DOMAIN conn[p] /\ conn[p].open
  BY <1>1 DEF PoolInv, SocketOpen, AtWork, Connected0
<1> DEFINE offered == conn[p].offered \/ (Head(conn[p].incoming).tls /\ Waiting(p) # "go")
           next == NextExchange(Opts.starttls, conn[p].stage, offered)
           over == next > Len(Exchanges[Opts.starttls])
           answer == Exchanges[Opts.starttls][next].answer
           said == IF over \/ conn[p].trouble = "silence at " \o answer THEN <<>> ELSE Said(Target(p), answer)
           more == [conn[p] EXCEPT !.incoming = Tail(@), !.offered = offered]
           on == [conn[p] EXCEPT !.incoming = Tail(@) \o said, !.offered = offered, !.stage = next]
           s == IF over THEN "handshake" ELSE "starttls"
<1>3. \/ Fails(p, "STARTTLS")
      \/ conn' = [conn EXCEPT ![p] = more] /\ UNCHANGED pc
      \/ conn' = [conn EXCEPT ![p] = on] /\ pc' = [pc EXCEPT ![p] = s]
  BY Zenon DEF Receive
<1>4. CASE Fails(p, "STARTTLS")
  BY <1>1, <1>2, <1>4, FailKeeps
<1>5. CASE conn' = [conn EXCEPT ![p] = more] /\ UNCHANGED pc
  <2>1. "open" \in DOMAIN more /\ more.open
    BY <1>2
  <2>2. pc' = [pc EXCEPT ![p] = "starttls"] /\ "starttls" \in Connected0
    BY <1>1, <1>5 DEF PoolInv, PoolTypes, Connected0
  <2> HIDE DEF more
  <2> QED
    BY <1>1, <1>2, <1>5, <2>1, <2>2, SocketMoves
<1>6. CASE conn' = [conn EXCEPT ![p] = on] /\ pc' = [pc EXCEPT ![p] = s]
  <2>1. "open" \in DOMAIN on /\ on.open
    BY <1>2
  <2>2. s \in Connected0
    BY DEF Connected0
  <2> HIDE DEF on, s
  <2> QED
    BY <1>1, <1>2, <1>6, <2>1, <2>2, SocketMoves
<1> QED
  BY <1>3, <1>4, <1>5, <1>6

LEMMA HandshakeKeeps == ASSUME PoolInv, NEW p \in Processes, Handshake(p) PROVE PoolInv'
<1>1. pc[p] = "handshake" /\ UNCHANGED <<job, held>>
  BY DEF Handshake
<1>2. pc[p] \in AtWork /\ "open" \in DOMAIN conn[p] /\ conn[p].open
  BY <1>1 DEF PoolInv, SocketOpen, AtWork, Connected0
<1>3. \/ \E why : Fails(p, why)
      \/ \E result : EndsWith(p, result)
      \/ \E b : conn' = [conn EXCEPT ![p] = [conn[p] EXCEPT !.limit = b]] /\ pc' = [pc EXCEPT ![p] = "relay"]
  BY DEF Handshake
<1>4. CASE (\E why : Fails(p, why)) \/ \E result : EndsWith(p, result)
  BY <1>1, <1>2, <1>4, FailKeeps, EndKeeps
<1>5. ASSUME NEW b, conn' = [conn EXCEPT ![p] = [conn[p] EXCEPT !.limit = b]], pc' = [pc EXCEPT ![p] = "relay"]
      PROVE  PoolInv'
  <2> DEFINE c == [conn[p] EXCEPT !.limit = b]
  <2>1. "open" \in DOMAIN c /\ c.open
    BY <1>2
  <2>2. "relay" \in Connected0
    BY DEF Connected0
  <2> QED
    BY <1>1, <1>2, <1>5, <2>1, <2>2, SocketMoves
<1> QED
  BY <1>3, <1>4, <1>5

LEMMA RelayKeeps == ASSUME PoolInv, NEW p \in Processes, Relay(p) PROVE PoolInv'
<1>1. pc[p] \in AtWork /\ UNCHANGED <<job, held>>
  BY DEF Relay, AtWork, Connected0
<1>2. (\E why : Fails(p, why)) \/ \E result : EndsWith(p, result)
  BY DEF Relay
<1> QED
  BY <1>1, <1>2, FailKeeps, EndKeeps

LEMMA ExpireKeeps == ASSUME PoolInv, NEW p \in Processes, Expire(p) PROVE PoolInv'
<1>1. pc[p] \in AtWork /\ UNCHANGED <<job, held>>
  BY DEF Expire, Silent, AtWork, Connected0
<1> QED
  BY <1>1, FailKeeps DEF Expire

LEMMA PoolNext == ASSUME PoolInv, [Next]_vars PROVE PoolInv'
<1>1. CASE UNCHANGED vars
  <2>1. SlotsHeld'
    BY <1>1, StandsStill DEF vars
  <2> QED
    BY <1>1, <2>1 DEF vars, PoolInv, PoolTypes, SocketOpen, Processes
<1>2. ASSUME NEW p \in Processes, Step(p) PROVE PoolInv'
  BY <1>2, StartKeeps, ResolveKeeps, ConnectKeeps, ProxyKeeps, ReceiveKeeps, HandshakeKeeps,
     RelayKeeps, ExpireKeeps, FinishKeeps DEF Step
<1> QED
  BY <1>1, <1>2 DEF Next

LEMMA PoolImplies == PoolInv => PoolKept
  BY DEF PoolInv, SlotsHeld, SocketOpen, PoolKept, Connected0

\* For any list of targets, any number of slots and servers, and whatever goes wrong on a
\* connection: every slot at work is counted and given back, and no socket stays open.
THEOREM PoolIsKept == Spec => []PoolKept
<1>1. Init => PoolInv
  BY PoolInit
<1>2. PoolInv /\ [Next]_vars => PoolInv'
  BY PoolNext
<1>3. PoolInv => PoolKept
  BY PoolImplies
<1> QED
  BY <1>1, <1>2, <1>3, PTL DEF Spec

-----------------------------------------------------------------------------
(* LiveCapture: the handle.                                                 *)

Told == timer = "fired" \/ "stop" \in channels

(* Nobody but the watcher closes the handle before the main goroutine is   *)
(* done with it, and the watcher goes to close it only once it was told.   *)
Types ==
  /\ capture \in [count : Nat, timed : BOOLEAN]
  /\ packets \in Nat
  /\ once \in {"unused", "main", "watcher", "over"}
Counted == closes = IF once = "unused" THEN 0 ELSE 1
Untouched == main \in {"start", "opened"} => once = "unused" /\ watcher = "none"
WatcherTold == watcher = "closing" => Told
ByWatcher == once = "watcher" => watcher = "closing"
ByMain == once = "main" => main \in {"closing", "killed"}
EarlyTold == once # "unused" /\ main \notin {"closing", "exited", "killed"} => Told
ExitClosed == main = "exited" => once = "over"
WithinCount == capture.count > 0 => packets <= capture.count
CaptureInv ==
  /\ Types /\ Counted /\ Untouched /\ WatcherTold /\ ByWatcher
  /\ ByMain /\ EarlyTold /\ ExitClosed /\ WithinCount

LEMMA InvInit == LCInit => CaptureInv
  BY CaptureAssumption
  DEF LCInit, CaptureInv, Types, Counted, Untouched, WatcherTold, ByWatcher, ByMain, EarlyTold, ExitClosed, WithinCount, Told

(* The steps that leave the handle, the channels and the watcher alone.    *)
LEMMA MainMoves ==
  ASSUME CaptureInv, OpenLive \/ ReadEnds \/ ReadFails
  PROVE  CaptureInv'
  BY DEF OpenLive, ReadEnds, ReadFails, goroutines, handle, CaptureInv, Types, Counted, Untouched, WatcherTold,
         ByWatcher, ByMain, EarlyTold, ExitClosed, WithinCount, Told

LEMMA BeginKeeps == ASSUME CaptureInv, Begin PROVE CaptureInv'
  BY DEF Begin, AnalyzeLive, StartsWatcher, goroutines, handle, CaptureInv, Types, Counted, Untouched, WatcherTold,
         ByWatcher, ByMain, EarlyTold, ExitClosed, WithinCount, Told

(* A packet is read only below the count.                                  *)
LEMMA ReadKeeps == ASSUME CaptureInv, ReadPacket PROVE CaptureInv'
  BY DEF ReadPacket, Enough, goroutines, handle, CaptureInv, Types, Counted, Untouched, WatcherTold,
         ByWatcher, ByMain, EarlyTold, ExitClosed, WithinCount, Told

(* Channels are only filled, but for sig.                                  *)
LEMMA ChannelsKeep ==
  ASSUME CaptureInv, Analyse \/ Return \/ StopOnSignal \/ Interrupt
  PROVE  CaptureInv'
<1>1. Told => Told'
  BY DEF Analyse, Return, StopOnSignal, Interrupt, goroutines, Told
<1> QED
  BY <1>1 DEF Analyse, Return, StopOnSignal, Interrupt, Notified, Over, goroutines, handle, CaptureInv, Types,
     Counted, Untouched, WatcherTold, ByWatcher, ByMain, EarlyTold, ExitClosed, WithinCount

LEMMA TimerKeeps == ASSUME CaptureInv, TimerFires PROVE CaptureInv'
  BY DEF TimerFires, handle, CaptureInv, Types, Counted, Untouched, WatcherTold,
         ByWatcher, ByMain, EarlyTold, ExitClosed, WithinCount, Told

(* The two that close: the second to come finds once taken.                *)
LEMMA CloseKeeps == ASSUME CaptureInv, CloseCapture PROVE CaptureInv'
  BY DEF CloseCapture, Enters, Leaves, goroutines, handle, CaptureInv, Types, Counted, Untouched, WatcherTold,
         ByWatcher, ByMain, EarlyTold, ExitClosed, WithinCount, Told

LEMMA WatchKeeps == ASSUME CaptureInv, Watch PROVE CaptureInv'
  BY DEF Watch, Over, Enters, Leaves, handle, CaptureInv, Types, Counted, Untouched, WatcherTold,
         ByWatcher, ByMain, EarlyTold, ExitClosed, WithinCount, Told

LEMMA InvNext == ASSUME CaptureInv, [LCNext]_lcvars PROVE CaptureInv'
<1>1. CASE UNCHANGED lcvars
  BY <1>1 DEF lcvars, CaptureInv, Types, Counted, Untouched, WatcherTold,
              ByWatcher, ByMain, EarlyTold, ExitClosed, WithinCount, Told
<1>2. CASE MainStep
  BY <1>2, MainMoves, BeginKeeps, ReadKeeps, ChannelsKeep, CloseKeeps DEF MainStep
<1>3. CASE Watch
  BY <1>3, WatchKeeps
<1>4. CASE TimerFires
  BY <1>4, TimerKeeps
<1>5. CASE StopOnSignal \/ Interrupt
  BY <1>5, ChannelsKeep
<1> QED
  BY <1>1, <1>2, <1>3, <1>4, <1>5 DEF LCNext

LEMMA InvImplies == CaptureInv => HandleKept
  BY DEF CaptureInv, Types, Counted, EarlyTold, ExitClosed, WithinCount, Told, HandleKept, HandleOpen

\* For every command line, traffic and sequence of interrupts the handle is closed once,
\* never under a read that was not told to end, and is closed when the command returns.
THEOREM HandleIsKept == LCSpec => []HandleKept
<1>1. LCInit => CaptureInv
  BY InvInit
<1>2. CaptureInv /\ [LCNext]_lcvars => CaptureInv'
  BY InvNext
<1>3. CaptureInv => HandleKept
  BY InvImplies
<1> QED
  BY <1>1, <1>2, <1>3, PTL DEF LCSpec
-----------------------------------------------------------------------------
(* Scan: the walk.                                                          *)

\* Entries behind the walk were kept or left out, none twice; a prompt is open for the
\* entry the walk is at.
Behind == 1..(pos - 1)
UpToHere == IF phase \in {"prompt", "menu", "quit"} THEN 1..pos ELSE Behind
Entries == {store[i].entry : i \in DOMAIN store}
OnTree ==
  /\ tree \in Trees /\ pos \in 1..(Len(tree) + 1)
  /\ phase \in {"walk", "prompt", "menu", "done", "failed", "quit"}
  /\ phase \in {"prompt", "menu", "quit"} => pos <= Len(tree)
Kept ==
  /\ store \in Seq(Range(store))
  /\ \A i \in DOMAIN store : /\ store[i].entry \in Behind
                             /\ store[i].relationsOnly <=> (opts.named /\ store[i].entry > 1)
  /\ \A i, j \in DOMAIN store : store[i].entry = store[j].entry => i = j
Left ==
  /\ skipped \in Seq(Behind)
  /\ \A i, j \in DOMAIN skipped : skipped[i] = skipped[j] => i = j
  /\ \A i \in DOMAIN skipped : skipped[i] \notin Entries
LooksLikeCertificate(e) ==
  /\ tree[e].kind \notin {"dir", "special"} /\ tree[e].ext \in CertExtensions
  /\ ~opts.signature /\ ~opts.named /\ Visited(tree[e])
ShownOrSkipped == \A e \in Behind : LooksLikeCertificate(e) => e \in Entries \cup Range(skipped)
WalkInv == OnTree /\ Kept /\ Left /\ ShownOrSkipped /\ asked \in Seq(UpToHere)

LEMMA Appended ==
  ASSUME NEW S, NEW sq \in Seq(S), NEW x, NEW longer, longer = Append(sq, x)
  PROVE  /\ longer \in Seq(S \cup {x}) /\ longer \in Seq(Range(longer))
         /\ DOMAIN longer = DOMAIN sq \cup {Len(sq) + 1} /\ Len(sq) + 1 \notin DOMAIN sq
         /\ \A i \in DOMAIN sq : longer[i] = sq[i]
         /\ longer[Len(sq) + 1] = x
<1>1. /\ longer \in Seq(S \cup {x}) /\ DOMAIN longer = 1..(Len(sq) + 1) /\ Len(longer) = Len(sq) + 1
      /\ DOMAIN sq = 1..Len(sq) /\ Len(sq) \in Nat
      /\ \A i \in 1..Len(sq) : longer[i] = sq[i]
      /\ longer[Len(sq) + 1] = x
  OBVIOUS
<1>2. DOMAIN longer = DOMAIN sq \cup {Len(sq) + 1} /\ Len(sq) + 1 \notin DOMAIN sq BY <1>1
<1>3. longer \in Seq(Range(longer)) BY <1>1 DEF Range
<1> QED BY <1>1, <1>2, <1>3

LEMMA WalkInit == ScanInit => WalkInv
<1> SUFFICES ASSUME ScanInit PROVE WalkInv OBVIOUS
<1>1. Len(tree) \in Nat BY ScanAssumption DEF ScanInit
<1> QED BY <1>1 DEF ScanInit, WalkInv, OnTree, Kept, Left, ShownOrSkipped, Behind, UpToHere, Entries, Range

\* What is known of where the walk is.
LEMMA Where ==
  ASSUME WalkInv
  PROVE  /\ pos \in Nat /\ pos >= 1 /\ Len(tree) \in Nat /\ DOMAIN tree = 1..Len(tree)
         /\ \A e \in DOMAIN tree : tree[e].kind \in EntryKinds
BY ScanAssumption DEF WalkInv, OnTree

\* A step that neither keeps an entry nor goes on.
LEMMA StaysHere ==
  ASSUME WalkInv, UNCHANGED <<tree, opts, pos, store, skipped>>,
         phase' \in {"walk", "prompt", "menu", "done", "failed", "quit"},
         phase' \in {"prompt", "menu", "quit"} => pos <= Len(tree),
         asked' \in Seq(UpToHere')
  PROVE  WalkInv'
<1>1. OnTree' BY DEF WalkInv, OnTree
<1>2. Behind' = Behind /\ Entries' = Entries BY DEF Behind, Entries
<1>3. Kept' /\ Left' BY <1>2 DEF WalkInv, Kept, Left
<1>4. ShownOrSkipped' BY <1>2 DEF WalkInv, ShownOrSkipped, LooksLikeCertificate, Visited
<1> QED BY <1>1, <1>3, <1>4 DEF WalkInv

\* The entry at hand is kept and the walk goes on.
LEMMA AddKeeps ==
  ASSUME WalkInv, pos <= Len(tree), NEW c, NEW pws, Add(c, pws), Advance,
         UNCHANGED <<tree, opts, skipped, asked>>
  PROVE  WalkInv'
<1> DEFINE kept == [entry |-> pos, container |-> c, relationsOnly |-> Sibling, tried |-> pws]
           last == Len(store) + 1
<1>1. /\ store' = Append(store, kept) /\ pos' = pos + 1 /\ phase' = "walk"
      /\ UNCHANGED <<tree, opts, skipped, asked>>
  BY DEF Add, Advance
<1>2. kept.entry = pos /\ (kept.relationsOnly <=> (opts.named /\ pos > 1)) BY DEF Sibling
<1>3. store \in Seq(Range(store)) BY DEF WalkInv, Kept
<1> HIDE DEF kept
<1>4. /\ store' \in Seq(Range(store')) /\ DOMAIN store' = DOMAIN store \cup {last} /\ last \notin DOMAIN store
      /\ \A i \in DOMAIN store : store'[i] = store[i]
      /\ store'[last] = kept
  <2>1. store' = Append(store, kept) BY <1>1
  <2>2. store' \in Seq(Range(store')) BY <1>3, <2>1, Appended
  <2>3. DOMAIN store' = DOMAIN store \cup {last} /\ last \notin DOMAIN store BY <1>3, <2>1, Appended
  <2>4. \A i \in DOMAIN store : store'[i] = store[i] BY <1>3, <2>1, Appended
  <2>5. store'[last] = kept BY <1>3, <2>1, Appended
  <2> QED BY <2>2, <2>3, <2>4, <2>5
<1> HIDE DEF last
<1>5. Behind' = Behind \cup {pos} /\ pos \notin Behind BY <1>1, Where DEF Behind
<1>6. Entries' = Entries \cup {pos} BY <1>2, <1>4 DEF Entries
<1>7. OnTree' BY <1>1, Where DEF WalkInv, OnTree
<1>8. Kept'
  <2>1. \A i \in DOMAIN store : store[i].entry \in Behind BY DEF WalkInv, Kept
  <2>2. \A i \in DOMAIN store' : /\ store'[i].entry \in Behind'
                                 /\ store'[i].relationsOnly <=> (opts'.named /\ store'[i].entry > 1)
    BY <1>1, <1>2, <1>4, <1>5 DEF WalkInv, Kept
  <2>3. \A i, j \in DOMAIN store' : store'[i].entry = store'[j].entry => i = j
    BY <1>2, <1>4, <1>5, <2>1 DEF WalkInv, Kept
  <2> QED BY <1>4, <2>2, <2>3 DEF Kept
<1>9. Left'
  <2>1. skipped \in Seq(Behind) BY DEF WalkInv, Left
  <2>2. skipped \in Seq(Behind') /\ \A i \in DOMAIN skipped : skipped[i] \in Behind BY <1>5, <2>1
  <2> QED BY <1>1, <1>5, <1>6, <2>2 DEF WalkInv, Left
<1>10. ShownOrSkipped' BY <1>1, <1>5, <1>6 DEF WalkInv, ShownOrSkipped, LooksLikeCertificate, Visited
<1>11. asked' \in Seq(UpToHere')
  <2>1. asked \in Seq(UpToHere) BY DEF WalkInv
  <2>2. UpToHere \subseteq Behind' BY <1>1, <1>5, Where DEF UpToHere, Behind
  <2>3. UpToHere' = Behind' BY <1>1 DEF UpToHere
  <2> QED BY <1>1, <2>1, <2>2, <2>3
<1> QED BY <1>7, <1>8, <1>9, <1>10, <1>11 DEF WalkInv

\* The entry at hand is left out, without a word unless it looked like a certificate.
LEMMA LeaveKeeps == ASSUME WalkInv, Leave PROVE WalkInv'
<1> DEFINE last == Len(skipped) + 1
<1>1. /\ phase = "walk" /\ pos <= Len(tree) /\ pos' = pos + 1 /\ phase' = "walk"
      /\ UNCHANGED <<tree, opts, store, asked>>
      /\ skipped' = skipped \/ skipped' = Append(skipped, pos)
  BY DEF Leave, Advance
<1>2. LooksLikeCertificate(pos) => skipped' = Append(skipped, pos)
  <2> SUFFICES ASSUME LooksLikeCertificate(pos) PROVE skipped' = Append(skipped, pos) OBVIOUS
  <2>1. tree[pos].kind \in EntryKinds \ {"dir", "special"} BY <1>1, Where DEF LooksLikeCertificate
  <2>2. Visited(Here) /\ Candidate(Here) /\ ~Sibling /\ ~opts.signature
    BY DEF LooksLikeCertificate, Candidate, Sibling, Here
  <2>3. Unreadable(Here) \/ NotAFile(Here) \/ (Here.kind \in {"file", "link"})
    BY <2>1 DEF EntryKinds, Unreadable, NotAFile, Here
  <2> QED BY <2>2, <2>3 DEF Leave
<1>3. skipped \in Seq(Behind) BY DEF WalkInv, Left
<1>4. Behind' = Behind \cup {pos} /\ pos \notin Behind BY <1>1, Where DEF Behind
<1>5. Entries' = Entries /\ pos \notin Entries
  BY <1>1, <1>4 DEF Entries, WalkInv, Kept
<1>6. OnTree' BY <1>1, Where DEF WalkInv, OnTree
<1>7. Kept' BY <1>1, <1>4 DEF WalkInv, Kept
<1>8. asked' \in Seq(UpToHere')
  <2>1. asked \in Seq(Behind) BY <1>1 DEF WalkInv, UpToHere
  <2> QED BY <1>1, <1>4, <2>1 DEF UpToHere
<1>9. CASE skipped' = skipped
  <2>0. skipped # Append(skipped, pos) BY <1>3
  <2>1. skipped' \in Seq(Behind') BY <1>3, <1>4, <1>9
  <2>2. Left' BY <1>5, <1>9, <2>1 DEF WalkInv, Left
  <2>3. ShownOrSkipped'
    BY <1>1, <1>2, <1>4, <1>5, <1>9, <2>0 DEF WalkInv, ShownOrSkipped, LooksLikeCertificate, Visited
  <2> QED BY <1>6, <1>7, <1>8, <2>2, <2>3 DEF WalkInv
<1>10. CASE skipped' = Append(skipped, pos)
  <2>1. /\ skipped' \in Seq(Behind') /\ Range(skipped') = Range(skipped) \cup {pos}
        /\ DOMAIN skipped' = DOMAIN skipped \cup {last} /\ last \notin DOMAIN skipped
        /\ \A i \in DOMAIN skipped : skipped'[i] = skipped[i] /\ skipped[i] \in Behind
        /\ skipped'[last] = pos
    <3>1. skipped' \in Seq(Behind \cup {pos}) BY <1>3, <1>10, Appended
    <3>2. DOMAIN skipped' = DOMAIN skipped \cup {last} /\ last \notin DOMAIN skipped BY <1>3, <1>10, Appended
    <3>3. \A i \in DOMAIN skipped : skipped'[i] = skipped[i] BY <1>3, <1>10, Appended
    <3>4. skipped'[last] = pos BY <1>3, <1>10, Appended
    <3>5. \A i \in DOMAIN skipped : skipped[i] \in Behind BY <1>3
    <3>6. Range(skipped') = Range(skipped) \cup {pos} BY <3>2, <3>3, <3>4 DEF Range
    <3> QED BY <1>4, <3>1, <3>2, <3>3, <3>4, <3>5, <3>6
  <2> HIDE DEF last
  <2>2. Left' BY <1>4, <1>5, <2>1 DEF WalkInv, Left
  <2>3. ShownOrSkipped' BY <1>1, <1>4, <1>5, <2>1 DEF WalkInv, ShownOrSkipped, LooksLikeCertificate, Visited
  <2> QED BY <1>6, <1>7, <1>8, <2>2, <2>3 DEF WalkInv
<1> QED BY <1>1, <1>9, <1>10

LEMMA AskKeeps == ASSUME WalkInv, Ask PROVE WalkInv'
<1>1. /\ phase = "walk" /\ pos <= Len(tree) /\ phase' = "prompt" /\ asked' = Append(asked, pos)
      /\ UNCHANGED <<tree, opts, pos, store, skipped>>
  BY DEF Ask, Readable
<1>2. asked \in Seq(Behind) BY <1>1 DEF WalkInv, UpToHere
<1>3. Behind \cup {pos} = 1..pos BY Where DEF Behind
<1>4. asked' \in Seq(1..pos) BY <1>1, <1>2, <1>3, Appended
<1> QED BY <1>1, <1>4, StaysHere DEF UpToHere

\* The keys of the prompt.
LEMMA TypeKeeps == ASSUME WalkInv, NEW pw, Type(pw) PROVE WalkInv'
<1> DEFINE now == IF pw \in Range(tried) THEN tried ELSE Append(tried, pw)
           c == ReadHere(now)
<1>1. phase = "prompt" /\ UNCHANGED <<tree, opts, skipped, asked>> BY DEF Type
<1>2. pos <= Len(tree) BY <1>1 DEF WalkInv, OnTree
<1>3. (Add(c, now) /\ Advance) \/ (phase' = "menu" /\ UNCHANGED <<pos, store>>) BY DEF Type
<1> HIDE DEF c, now
<1>4. ASSUME phase' = "menu", UNCHANGED <<pos, store>> PROVE WalkInv'
  <2>1. asked' \in Seq(UpToHere') BY <1>1, <1>4 DEF WalkInv, UpToHere
  <2> QED BY <1>1, <1>2, <1>4, <2>1, StaysHere
<1> QED BY <1>1, <1>2, <1>3, <1>4, AddKeeps

LEMMA WalkKeeps == WalkInv /\ [ScanNext]_scanVars => WalkInv'
<1> SUFFICES ASSUME WalkInv, [ScanNext]_scanVars PROVE WalkInv' OBVIOUS
<1>1. CASE Leave BY <1>1, LeaveKeeps
<1>2. ASSUME Keep PROVE WalkInv'
  <2>1. pos <= Len(tree) BY <1>2 DEF Keep, Readable
  <2>2. Add(ReadHere(RawPasswords(Known(Here))), RawPasswords(Known(Here))) BY <1>2 DEF Keep
  <2>3. Advance /\ UNCHANGED <<tree, opts, skipped, asked>> BY <1>2 DEF Keep
  <2> QED BY <2>1, <2>2, <2>3, AddKeeps
<1>3. CASE Ask BY <1>3, AskKeeps
<1>4. ASSUME NEW pw \in Typed, Type(pw) PROVE WalkInv' BY <1>4, TypeKeeps
<1>5. ASSUME NEW all \in BOOLEAN, GiveUp(all) PROVE WalkInv'
  <2>1. phase \in {"menu", "prompt"} BY <1>5 DEF GiveUp
  <2>2. pos <= Len(tree) BY <2>1 DEF WalkInv, OnTree
  <2>3. Add(ReadHere(RawPasswords(Known(Here))), RawPasswords(Known(Here))) BY <1>5 DEF GiveUp
  <2>4. Advance /\ UNCHANGED <<tree, opts, skipped, asked>> BY <1>5 DEF GiveUp
  <2> QED BY <2>2, <2>3, <2>4, AddKeeps
<1>6. ASSUME Retry \/ Quit \/ Fail \/ Cancel \/ EndWalk PROVE WalkInv'
  <2>1. /\ UNCHANGED <<tree, opts, pos, store, skipped, asked>>
        /\ \/ phase = "menu" /\ phase' \in {"prompt", "quit"}
           \/ phase = "walk" /\ phase' \in {"walk", "failed", "done"}
    BY <1>6 DEF Retry, Quit, Fail, Cancel, EndWalk, WalkInv, OnTree
  <2>2. asked' \in Seq(UpToHere') BY <2>1 DEF WalkInv, UpToHere, Behind
  <2>3. phase' \in {"prompt", "menu", "quit"} => pos <= Len(tree) BY <2>1 DEF WalkInv, OnTree
  <2> QED BY <2>1, <2>2, <2>3, StaysHere
<1>7. CASE UNCHANGED scanVars
  BY <1>7 DEF scanVars, WalkInv, OnTree, Kept, Left, ShownOrSkipped, LooksLikeCertificate, Visited, Behind, UpToHere, Entries
<1> QED BY <1>1, <1>2, <1>3, <1>4, <1>5, <1>6, <1>7 DEF ScanNext

\* At most one place has a value if no value has two.
LEMMA Occurrences ==
  ASSUME NEW f, NEW D, \A i, j \in D : f[i] = f[j] => i = j, NEW e
  PROVE  Cardinality({i \in D : f[i] = e}) = IF \E i \in D : f[i] = e THEN 1 ELSE 0
<1>1. CASE \E i \in D : f[i] = e
  <2>1. PICK i \in D : f[i] = e BY <1>1
  <2>2. {j \in D : f[j] = e} = {i} BY <2>1
  <2> QED BY <1>1, <2>2, FS_Singleton
<1>2. CASE ~\E i \in D : f[i] = e
  <2>1. {i \in D : f[i] = e} = {} BY <1>2
  <2> QED BY <1>2, <2>1, FS_EmptySet
<1> QED BY <1>1, <1>2

LEMMA WalkAccounts == WalkInv => Accounted
<1> SUFFICES ASSUME WalkInv PROVE Accounted OBVIOUS
<1> DEFINE kept == [i \in DOMAIN store |-> store[i].entry]
<1>1. /\ DOMAIN kept = DOMAIN store /\ \A i \in DOMAIN store : kept[i] = store[i].entry
      /\ Range(kept) = Entries
  BY DEF Range, Entries
<1>2. ScanTypeOK
  <2>1. /\ Behind \subseteq 1..Len(tree) /\ UpToHere \subseteq 1..Len(tree)
        /\ \A i \in DOMAIN store : store[i].entry \in Behind
    BY Where DEF WalkInv, OnTree, Behind, UpToHere, Kept
  <2>2. Range(asked) \subseteq UpToHere /\ Range(skipped) \subseteq Behind
    BY DEF WalkInv, Left, Range
  <2> QED BY <2>1, <2>2 DEF ScanTypeOK, WalkInv, OnTree
<1> DEFINE Once(e) == Cardinality({i \in DOMAIN store : kept[i] = e})
                        + Cardinality({i \in DOMAIN skipped : skipped[i] = e}) <= 1
<1>3. \A e : Once(e)
  <2> SUFFICES ASSUME NEW e PROVE Once(e) OBVIOUS
  <2>1. Cardinality({i \in DOMAIN store : kept[i] = e}) = IF e \in Entries THEN 1 ELSE 0
    <3>1. \A i, j \in DOMAIN store : kept[i] = kept[j] => i = j BY <1>1 DEF WalkInv, Kept
    <3>2. (\E i \in DOMAIN store : kept[i] = e) <=> e \in Entries BY <1>1 DEF Entries
    <3> HIDE DEF kept
    <3>3. Cardinality({i \in DOMAIN store : kept[i] = e}) = IF \E i \in DOMAIN store : kept[i] = e THEN 1 ELSE 0
      BY <3>1, Occurrences
    <3> QED BY <3>2, <3>3
  <2>2. Cardinality({i \in DOMAIN skipped : skipped[i] = e})
          = IF \E i \in DOMAIN skipped : skipped[i] = e THEN 1 ELSE 0
    BY Occurrences DEF WalkInv, Left
  <2>3. ~(e \in Entries /\ \E i \in DOMAIN skipped : skipped[i] = e) BY DEF WalkInv, Left
  <2> QED BY <2>1, <2>2, <2>3
<1>4. \A e \in 1..(pos - 1) : LooksLikeCertificate(e) => e \in Range(kept) \cup Range(skipped)
  BY <1>1 DEF WalkInv, ShownOrSkipped, Behind
<1>5. \A i \in DOMAIN store : store[i].relationsOnly <=> (opts.named /\ store[i].entry > 1)
  BY DEF WalkInv, Kept
<1> QED BY <1>2, <1>3, <1>4, <1>5 DEF Accounted, LooksLikeCertificate

\* ScanPathWithOptions and ScanSiblings: whatever the tree, the passwords and the answers
\* of the user, what looks like a certificate is kept or left out with a reason, once,
\* and only the siblings of named files are kept for their relations alone.
THEOREM NothingIsLost == ScanSpec => []Accounted
BY WalkInit, WalkKeeps, WalkAccounts, PTL DEF ScanSpec

\* HandleInteractive: nobody is asked about a file twice, or after Skip all.
THEOREM NobodyIsAskedTwice == ScanSpec => AskedOnce
<1>1. WalkInv /\ [ScanNext]_scanVars => [asked' # asked => ~skipAll /\ pos \notin Range(asked)]_scanVars
  <2> SUFFICES ASSUME WalkInv, ScanNext, asked' # asked PROVE ~skipAll /\ pos \notin Range(asked)
    OBVIOUS
  <2>1. Ask BY DEF ScanNext, Leave, Keep, Retry, Quit, Fail, Cancel, EndWalk, Type, GiveUp
  <2>2. ~skipAll /\ phase = "walk" BY <2>1 DEF Ask, OffersPrompt, Readable
  <2>3. asked \in Seq(Behind) BY <2>2 DEF WalkInv, UpToHere
  <2>4. pos \notin Behind BY Where DEF Behind
  <2>5. pos \notin Range(asked) BY <2>3, <2>4 DEF Range
  <2> QED BY <2>2, <2>5
<1> QED BY <1>1, WalkInit, WalkKeeps, PTL DEF ScanSpec, AskedOnce
-----------------------------------------------------------------------------
(* Scan: what the containers show.                                          *)

\* What a reader that returns no error answers for a content with some passwords: one
\* that opens the file shows every item, open exactly when its lock is among them.
Shut(c) == HasPasswordErrors(c) /\ c.items = <<>>
Opens(pws) == {Plain, Empty} \cup Range(pws)
Opened(c, content, pws) ==
  /\ DOMAIN c.items = DOMAIN Parsed(content)
  /\ \A k \in DOMAIN Parsed(content) : c.items[k].open <=> Parsed(content)[k].lock \in Opens(pws)
Answer(c, content, pws) == c.ok => IF content.lock \in Opens(pws) THEN Opened(c, content, pws) ELSE Shut(c)

LEMMA WithEmpty ==
  ASSUME NEW pws, pws \in Seq(Range(pws))
  PROVE  Range(PasswordsWithEmpty(pws)) = Range(pws) \cup {Empty}
<1>1. CASE Empty \in Range(pws) BY <1>1 DEF PasswordsWithEmpty
<1>2. CASE Empty \notin Range(pws)
  <2> DEFINE longer == Append(pws, Empty)
  <2>1. /\ DOMAIN longer = DOMAIN pws \cup {Len(pws) + 1} /\ \A i \in DOMAIN pws : longer[i] = pws[i]
        /\ longer[Len(pws) + 1] = Empty
    OBVIOUS
  <2>2. PasswordsWithEmpty(pws) = longer BY <1>2 DEF PasswordsWithEmpty
  <2> HIDE DEF longer
  <2> QED BY <2>1, <2>2 DEF Range
<1> QED BY <1>1, <1>2

\* A lock that is opened is the password that opened it.
LEMMA OpeningOpens ==
  ASSUME NEW pws, pws \in Seq(Range(pws)), NEW lock
  PROVE  /\ Opening(lock, PasswordsWithEmpty(pws)) # Plain
              => lock = Opening(lock, PasswordsWithEmpty(pws)) /\ lock \in Opens(pws)
         /\ lock \in Opens(pws) => lock = Plain \/ Opening(lock, PasswordsWithEmpty(pws)) # Plain
BY WithEmpty DEF Opening, Opens

LEMMA AnswerPEM ==
  ASSUME NEW content, LocksPlaced(content), NEW pws, pws \in Seq(Range(pws))
  PROVE  Answer(ReadPEM(content, pws), content, pws)
<1> DEFINE good == Parsed(content)
           read == [i \in DOMAIN good |-> [kind |-> good[i].kind,
                      open |-> good[i].lock = Plain \/ Opening(good[i].lock, PasswordsWithEmpty(pws)) # Plain]]
<1> SUFFICES ASSUME ReadPEM(content, pws).ok
             PROVE  content.lock \in Opens(pws) /\ Opened(ReadPEM(content, pws), content, pws)
  BY DEF Answer
<1>1. content.fmt = "PEM" /\ ReadPEM(content, pws).items = read BY DEF ReadPEM, Failed
<1>2. content.lock \in Opens(pws) BY <1>1 DEF LocksPlaced, StoreFormats, Opens
<1>3. \A k \in DOMAIN good : read[k].open <=> good[k].lock = Plain \/ Opening(good[k].lock, PasswordsWithEmpty(pws)) # Plain
  OBVIOUS
<1>4. DOMAIN read = DOMAIN good OBVIOUS
<1> HIDE DEF good, read
<1>5. \A k \in DOMAIN good : read[k].open <=> good[k].lock \in Opens(pws)
  BY <1>3, OpeningOpens DEF Opens
<1> QED BY <1>1, <1>2, <1>4, <1>5 DEF Opened, good

LEMMA AnswerBare ==
  ASSUME NEW content, LocksPlaced(content), NEW pws, NEW fmt \in {"DER", "PKCS7"}
  PROVE  Answer(ReadBare(content, fmt), content, pws)
<1> SUFFICES ASSUME ReadBare(content, fmt).ok
             PROVE  content.lock \in Opens(pws) /\ Opened(ReadBare(content, fmt), content, pws)
  BY DEF Answer
<1>1. content.fmt = fmt BY DEF ReadBare, Failed
<1>2. Parsed(content) = content.items BY <1>1 DEF Parsed
<1>3. ReadBare(content, fmt).items
        = [i \in DOMAIN content.items |-> [kind |-> content.items[i].kind, open |-> TRUE]]
  BY <1>1 DEF ReadBare
<1>4. content.lock = Plain /\ \A k \in DOMAIN content.items : content.items[k].lock = Plain
  BY <1>1 DEF LocksPlaced, StoreFormats
<1> QED BY <1>2, <1>3, <1>4 DEF Opened, Opens

\* A parser of key stores that gets anything else answers that it is locked.
LEMMA AnswerOfAnother ==
  ASSUME NEW content, NEW pws
  PROVE  /\ content.fmt # "PKCS12" => ReadPKCS12(content, pws) = Locked
         /\ content.fmt # "JKS" => ReadJKS(content, pws) = Locked
BY DEF ReadPKCS12, ReadJKS

LEMMA AnswerPKCS12 ==
  ASSUME NEW content, LocksPlaced(content), content.fmt = "PKCS12", NEW pws, pws \in Seq(Range(pws))
  PROVE  Answer(ReadPKCS12(content, pws), content, pws)
<1> DEFINE pw == Opening(content.lock, PasswordsWithEmpty(pws))
<1>1. CASE pw = Plain
  <2>1. content.lock \notin Opens(pws) BY <1>1, OpeningOpens DEF LocksPlaced, StoreFormats
  <2>2. ReadPKCS12(content, pws) = Locked BY <1>1 DEF ReadPKCS12
  <2> QED BY <2>1, <2>2 DEF Locked, Answer, Shut, HasPasswordErrors
<1>2. CASE pw # Plain
  <2>1. Parsed(content) = content.items BY <1>2 DEF Parsed
  <2>2. ReadPKCS12(content, pws).items
          = [i \in DOMAIN content.items |-> [kind |-> content.items[i].kind, open |-> TRUE]]
    BY <1>2 DEF ReadPKCS12
  <2>3. content.lock \in Opens(pws) BY <1>2, OpeningOpens
  <2>4. \A k \in DOMAIN content.items : content.items[k].lock = Plain BY <1>2 DEF LocksPlaced
  <2> QED BY <2>1, <2>2, <2>3, <2>4 DEF Answer, Opened, Opens
<1> QED BY <1>1, <1>2

LEMMA AnswerJKS ==
  ASSUME NEW content, LocksPlaced(content), content.fmt = "JKS", NEW pws, pws \in Seq(Range(pws))
  PROVE  Answer(ReadJKS(content, pws), content, pws)
<1> DEFINE all == PasswordsWithEmpty(pws)
           pw == Opening(content.lock, all)
<1>1. CASE pw = Plain
  <2>1. content.lock \notin Opens(pws) BY <1>1, OpeningOpens DEF LocksPlaced, StoreFormats
  <2>2. ReadJKS(content, pws) = Locked BY <1>1 DEF ReadJKS
  <2> QED BY <2>1, <2>2 DEF Locked, Answer, Shut, HasPasswordErrors
<1>2. CASE pw # Plain
  <2>1. Parsed(content) = content.items BY <1>2 DEF Parsed
  <2>2. ReadJKS(content, pws).items
          = [i \in DOMAIN content.items |->
               [kind |-> content.items[i].kind, open |-> EntryOpens(content.items[i], pw, all)]]
    BY <1>2 DEF ReadJKS
  <2>3. content.lock \in Opens(pws) /\ pw = content.lock BY <1>2, OpeningOpens
  <2>4. {Plain, pw} \cup Range(all) = Opens(pws) BY <2>3, WithEmpty DEF Opens
  <2> HIDE DEF all, pw
  <2>5. \A k \in DOMAIN content.items : EntryOpens(content.items[k], pw, all) <=> content.items[k].lock \in Opens(pws)
    BY <2>4 DEF EntryOpens
  <2> QED BY <2>1, <2>2, <2>3, <2>5 DEF Answer, Opened
<1> QED BY <1>1, <1>2

LEMMA AnswerFailed == ASSUME NEW content, NEW pws PROVE Answer(Failed, content, pws)
BY DEF Answer, Failed

LEMMA AnswerBySignature ==
  ASSUME NEW content, LocksPlaced(content), NEW pws, pws \in Seq(Range(pws))
  PROVE  Answer(ReadBySignature(content, pws), content, pws)
BY AnswerPEM, AnswerBare, AnswerPKCS12, AnswerJKS, AnswerFailed DEF ReadBySignature

\* The parser of the extension, when the content is what the extension says.
LEMMA AnswerAs ==
  ASSUME NEW format, NEW content, LocksPlaced(content), format \in StoreFormats => format = content.fmt,
         NEW pws, pws \in Seq(Range(pws))
  PROVE  Answer(ReadAs(format, content, pws), content, pws)
BY AnswerPEM, AnswerBare, AnswerPKCS12, AnswerJKS, AnswerFailed DEF ReadAs, StoreFormats

\* And when it is not: no other parser gets the file.
LEMMA MisnamedStaysShut ==
  ASSUME NEW ext, NEW content, NEW pws, FormatFromExtension(ext) \in StoreFormats,
         FormatFromExtension(ext) # content.fmt
  PROVE  Shut(ReadFileCore(ext, content, pws)) /\ Shut(ReadNamedFile(ext, content, pws))
<1>1. ReadAs(FormatFromExtension(ext), content, pws) = Locked
  <2> DEFINE format == FormatFromExtension(ext)
  <2>1. format \in StoreFormats /\ format # content.fmt OBVIOUS
  <2> HIDE DEF format
  <2>2. ReadAs(format, content, pws) = Locked BY <2>1, AnswerOfAnother DEF ReadAs, StoreFormats
  <2> QED BY <2>2 DEF format
<1>2. ReadFileCore(ext, content, pws) = Locked BY <1>1 DEF ReadFileCore, Locked
<1>3. ReadNamedFile(ext, content, pws) = Locked BY <1>2 DEF ReadNamedFile, Locked
<1> QED BY <1>2, <1>3 DEF Locked, Shut, HasPasswordErrors

\* Whichever reader gets the file.
LEMMA AnswerHere ==
  ASSUME WalkInv, pos <= Len(tree), NEW pws, pws \in Seq(Range(pws)), ReadHere(pws).ok
  PROVE  ShowsWhatOpens(ReadHere(pws), Here, pws)
<1>1. LocksPlaced(Here.content) BY ScanAssumption, Where DEF WalkInv, OnTree, Here
<1>2. CASE Misnamed(Here)
  <2>1. Shut(ReadHere(pws)) BY <1>2, MisnamedStaysShut DEF Misnamed, ReadHere
  <2> QED BY <1>2, <2>1 DEF ShowsWhatOpens, Shut
<1>3. CASE ~Misnamed(Here)
  <2>1. CASE opts.signature
    <3>1. Answer(ReadHere(pws), Here.content, pws) BY <1>1, <2>1, AnswerBySignature DEF ReadHere
    <3> QED BY <1>3, <3>1 DEF Answer, Shut, Opened, Opens, ShowsWhatOpens
  <2>2. CASE ~opts.signature
    <3>1. Answer(ReadAs(FormatFromExtension(Here.ext), Here.content, pws), Here.content, pws)
      BY <1>1, <1>3, <2>2, AnswerAs DEF Misnamed
    <3>2. Answer(ReadFileCore(Here.ext, Here.content, pws), Here.content, pws)
      BY <1>1, <3>1, AnswerBySignature DEF ReadFileCore
    <3>3. Answer(ReadNamedFile(Here.ext, Here.content, pws), Here.content, pws)
      BY <1>1, <3>2, AnswerBySignature DEF ReadNamedFile
    <3>4. Answer(ReadHere(pws), Here.content, pws) BY <2>2, <3>2, <3>3 DEF ReadHere
    <3> QED BY <1>3, <3>4 DEF Answer, Shut, Opened, Opens, ShowsWhatOpens
  <2> QED BY <2>1, <2>2
<1> QED BY <1>2, <1>3

LEMMA Joined == ASSUME NEW S, NEW x \in Seq(S), NEW y \in Seq(S) PROVE x \o y \in Seq(S)
OBVIOUS

\* The passwords known for a file are a list.
LEMMA KnownIsList ==
  ASSUME NEW e
  PROVE  RawPasswords(Known(e)) \in Seq(Range(RawPasswords(Known(e))))
<1> DEFINE of(s) == [i \in DOMAIN Provided[s] |-> [password |-> Provided[s][i], source |-> s]]
           Tagged == [password : UNION {Range(Provided[s]) : s \in Sources}, source : Sources]
<1>1. ASSUME NEW s \in Sources PROVE of(s) \in Seq(Tagged)
  <2>1. Provided[s] \in Seq(Range(Provided[s])) BY ProvidedAssumption
  <2>2. DOMAIN Provided[s] = 1..Len(Provided[s]) /\ Len(Provided[s]) \in Nat BY <2>1
  <2>3. \A i \in DOMAIN Provided[s] : of(s)[i] \in Tagged BY DEF Range
  <2>4. DOMAIN of(s) = DOMAIN Provided[s] /\ of(s) = [i \in DOMAIN Provided[s] |-> of(s)[i]] OBVIOUS
  <2> HIDE DEF of, Tagged
  <2>5. of(s) \in [1..Len(Provided[s]) -> Tagged] BY <2>2, <2>3, <2>4
  <2> QED BY <2>2, <2>5
<1>2. Known(e) \in Seq(Tagged)
  <2> DEFINE own == IF e.bound THEN of("by_filename") ELSE <<>>
  <2>1. Known(e) = IF opts.noTryAll THEN own
                   ELSE own \o of("arg") \o of("password file") \o of("common plaintext")
                            \o of("common encrypted") \o of("env var") \o of("built-in")
    BY DEF Known, PasswordsForFile
  <2> HIDE DEF of, Tagged
  <2>2. /\ "by_filename" \in Sources /\ "arg" \in Sources /\ "password file" \in Sources
        /\ "common plaintext" \in Sources /\ "common encrypted" \in Sources
        /\ "env var" \in Sources /\ "built-in" \in Sources
    BY DEF Sources
  <2>3. own \in Seq(Tagged)
    <3>1. of("by_filename") \in Seq(Tagged) BY <1>1, <2>2
    <3> QED BY <3>1
  <2>4. /\ of("arg") \in Seq(Tagged) /\ of("password file") \in Seq(Tagged) /\ of("common plaintext") \in Seq(Tagged)
        /\ of("common encrypted") \in Seq(Tagged) /\ of("env var") \in Seq(Tagged) /\ of("built-in") \in Seq(Tagged)
    BY <1>1, <2>2
  <2> HIDE DEF own
  <2>5. own \o of("arg") \o of("password file") \o of("common plaintext")
            \o of("common encrypted") \o of("env var") \o of("built-in") \in Seq(Tagged)
    <3> DEFINE a == of("arg") b == of("password file") c == of("common plaintext")
               d == of("common encrypted") f == of("env var") g == of("built-in")
    <3> HIDE DEF a, b, c, d, f, g
    <3>1. /\ own \in Seq(Tagged) /\ a \in Seq(Tagged) /\ b \in Seq(Tagged) /\ c \in Seq(Tagged)
          /\ d \in Seq(Tagged) /\ f \in Seq(Tagged) /\ g \in Seq(Tagged)
      BY <2>3, <2>4 DEF a, b, c, d, f, g
    <3>2. own \o a \o b \o c \in Seq(Tagged) BY <3>1, Joined
    <3>3. own \o a \o b \o c \o d \o f \o g \in Seq(Tagged) BY <3>1, <3>2, Joined
    <3> QED BY <3>3 DEF a, b, c, d, f, g
  <2> QED BY <2>1, <2>3, <2>5
<1> HIDE DEF of, Tagged
<1>3. DOMAIN Known(e) = 1..Len(Known(e)) /\ Len(Known(e)) \in Nat BY <1>2
<1> QED BY <1>3 DEF RawPasswords, Range

\* What is in the store shows what its passwords open; a prompt is open for a file that
\* reads, and knows the passwords known for it and those typed.
Shows(s) ==
  /\ ShowsWhatOpens(s.container, tree[s.entry], s.tried)
  /\ HasPasswordErrors(s.container) /\ opts.interactive => s.entry \in Range(asked) \/ skipAll
  /\ s.tried # RawPasswords(Known(tree[s.entry])) => ~HasPasswordErrors(s.container)
Prompting ==
  phase \in {"prompt", "menu"} => /\ pos \in Range(asked) /\ tried \in Seq(Range(tried))
                                  /\ ReadHere(RawPasswords(Known(Here))).ok
StoreInv == WalkInv /\ (\A i \in DOMAIN store : Shows(store[i])) /\ Prompting

\* Where nothing is added, what is shown stays so.
LEMMA StillShown ==
  ASSUME UNCHANGED <<tree, opts>>, Range(asked) \subseteq Range(asked'), skipAll => skipAll'
  PROVE  \A s : Shows(s) => Shows(s)'
BY DEF Shows, Known, ShowsWhatOpens, Misnamed

LEMMA StoreStays ==
  ASSUME StoreInv, WalkInv', UNCHANGED <<tree, opts, store>>, Range(asked) \subseteq Range(asked'),
         skipAll => skipAll', Prompting'
  PROVE  StoreInv'
BY StillShown DEF StoreInv

\* The container that is added shows what its passwords open.
LEMMA StoreGrows ==
  ASSUME StoreInv, WalkInv', NEW c, NEW pws, Add(c, pws), Advance, UNCHANGED <<tree, opts, asked>>,
         skipAll => skipAll', ShowsWhatOpens(c, Here, pws),
         HasPasswordErrors(c) /\ opts.interactive => pos \in Range(asked) \/ skipAll',
         pws # RawPasswords(Known(Here)) => ~HasPasswordErrors(c)
  PROVE  StoreInv'
<1>1. PICK added : added = [entry |-> pos, container |-> c, relationsOnly |-> Sibling, tried |-> pws] OBVIOUS
<1>2. store' = Append(store, added) /\ phase' = "walk" BY <1>1 DEF Add, Advance
<1>3. added.entry = pos /\ added.container = c /\ added.tried = pws BY <1>1
<1>4. store \in Seq(Range(store)) BY DEF StoreInv, WalkInv, Kept
<1>5. Shows(added)' BY <1>3 DEF Shows, Known, Here, ShowsWhatOpens, Misnamed
<1>6. \A i \in DOMAIN store : \A s : s = store[i] => Shows(s)' BY StillShown DEF StoreInv
<1>7. /\ DOMAIN store' = DOMAIN store \cup {Len(store) + 1} /\ \A i \in DOMAIN store : store'[i] = store[i]
      /\ store'[Len(store) + 1] = added
  <2>1. DOMAIN store' = DOMAIN store \cup {Len(store) + 1} BY <1>2, <1>4, Appended
  <2>2. \A i \in DOMAIN store : store'[i] = store[i] BY <1>2, <1>4, Appended
  <2>3. store'[Len(store) + 1] = added BY <1>2, <1>4, Appended
  <2> QED BY <2>1, <2>2, <2>3
<1>8. (\A i \in DOMAIN store : Shows(store[i]))'
  <2> SUFFICES ASSUME NEW i \in DOMAIN store' PROVE Shows(store[i])' OBVIOUS
  <2>1. PICK s : s = store'[i] OBVIOUS
  <2>2. Shows(s)' BY <1>5, <1>6, <1>7, <2>1
  <2> QED BY <2>1, <2>2 DEF Shows, Known, ShowsWhatOpens, Misnamed
<1> QED BY <1>2, <1>8 DEF StoreInv, Prompting

\* The entry at hand is kept with the passwords known for it.
LEMMA KnownGrows ==
  ASSUME StoreInv, WalkInv', pos <= Len(tree), UNCHANGED <<tree, opts, asked>>, skipAll => skipAll',
         ReadHere(RawPasswords(Known(Here))).ok,
         Add(ReadHere(RawPasswords(Known(Here))), RawPasswords(Known(Here))), Advance,
         HasPasswordErrors(ReadHere(RawPasswords(Known(Here)))) /\ opts.interactive => pos \in Range(asked) \/ skipAll'
  PROVE  StoreInv'
<1> DEFINE pws == RawPasswords(Known(Here))
           c == ReadHere(pws)
<1>1. pws \in Seq(Range(pws)) BY KnownIsList
<1> HIDE DEF pws
<1>2. c.ok BY DEF pws
<1>3. ShowsWhatOpens(c, Here, pws) BY <1>1, <1>2, AnswerHere DEF StoreInv
<1> HIDE DEF c
<1>4. Add(c, pws) /\ (HasPasswordErrors(c) /\ opts.interactive => pos \in Range(asked) \/ skipAll') BY DEF c, pws
<1>5. pws # RawPasswords(Known(Here)) => ~HasPasswordErrors(c) BY DEF pws
<1> QED BY <1>3, <1>4, <1>5, StoreGrows

\* A typed password joins the list.
LEMMA TypeShows == ASSUME StoreInv, WalkInv', NEW pw, Type(pw) PROVE StoreInv'
<1> DEFINE now == IF pw \in Range(tried) THEN tried ELSE Append(tried, pw)
           c == ReadHere(now)
<1>1. /\ phase = "prompt" /\ UNCHANGED <<tree, opts, skipped, cancelled, skipAll, asked>>
      /\ \/ c.ok /\ ~HasPasswordErrors(c) /\ Add(c, now) /\ Advance
         \/ phase' = "menu" /\ tried' = now /\ UNCHANGED <<pos, store>>
  BY DEF Type
<1>2. pos \in Range(asked) /\ tried \in Seq(Range(tried)) /\ ReadHere(RawPasswords(Known(Here))).ok
  BY <1>1 DEF StoreInv, Prompting
<1>3. pos <= Len(tree) BY <1>1 DEF StoreInv, WalkInv, OnTree
<1>4. now \in Seq(Range(now))
  <2>1. CASE pw \in Range(tried) BY <1>2, <2>1
  <2>2. CASE pw \notin Range(tried)
    <3>1. now = Append(tried, pw) BY <2>2
    <3> HIDE DEF now
    <3> QED BY <1>2, <3>1, Appended
  <2> QED BY <2>1, <2>2
<1> HIDE DEF now
<1>5. CASE c.ok /\ ~HasPasswordErrors(c) /\ Add(c, now) /\ Advance
  <2>1. ShowsWhatOpens(c, Here, now) BY <1>3, <1>4, <1>5, AnswerHere DEF StoreInv
  <2> HIDE DEF c
  <2> QED BY <1>1, <1>5, <2>1, StoreGrows
<1> HIDE DEF c
<1>6. CASE phase' = "menu" /\ tried' = now /\ UNCHANGED <<pos, store>>
  <2>1. Prompting' BY <1>1, <1>2, <1>4, <1>6 DEF Prompting, ReadHere, Here, Known
  <2> QED BY <1>1, <1>6, <2>1, StoreStays
<1> QED BY <1>1, <1>5, <1>6

LEMMA StoreInit == ScanInit => StoreInv
BY WalkInit DEF ScanInit, StoreInv, Prompting

LEMMA StoreKeeps == StoreInv /\ [ScanNext]_scanVars => StoreInv'
<1> SUFFICES ASSUME StoreInv, [ScanNext]_scanVars PROVE StoreInv' OBVIOUS
<1>0. WalkInv' /\ WalkInv BY WalkKeeps DEF StoreInv
<1>1. CASE Leave
  <2>1. UNCHANGED <<tree, opts, store, asked, skipAll>> /\ phase' = "walk" BY <1>1 DEF Leave, Advance
  <2> QED BY <1>0, <2>1, StoreStays DEF Prompting
<1>2. CASE Keep
  <2>1. /\ pos <= Len(tree) /\ ReadHere(RawPasswords(Known(Here))).ok
        /\ ~OffersPrompt(ReadHere(RawPasswords(Known(Here))))
        /\ Add(ReadHere(RawPasswords(Known(Here))), RawPasswords(Known(Here)))
        /\ Advance /\ UNCHANGED <<tree, opts, asked, skipAll>>
    BY <1>2 DEF Keep, Readable
  <2>2. HasPasswordErrors(ReadHere(RawPasswords(Known(Here)))) /\ opts.interactive => skipAll'
    BY <2>1 DEF OffersPrompt
  <2> QED BY <1>0, <2>1, <2>2, KnownGrows
<1>3. CASE Ask
  <2>1. /\ UNCHANGED <<tree, opts, pos, store, skipAll>> /\ asked' = Append(asked, pos)
        /\ tried' = RawPasswords(Known(Here)) /\ ReadHere(RawPasswords(Known(Here))).ok
    BY <1>3 DEF Ask, Readable
  <2>2. asked \in Seq(UpToHere) BY <1>0 DEF WalkInv
  <2>3. /\ DOMAIN asked' = DOMAIN asked \cup {Len(asked) + 1} /\ \A i \in DOMAIN asked : asked'[i] = asked[i]
        /\ asked'[Len(asked) + 1] = pos
    <3>1. DOMAIN asked' = DOMAIN asked \cup {Len(asked) + 1} BY <2>1, <2>2, Appended
    <3>2. \A i \in DOMAIN asked : asked'[i] = asked[i] BY <2>1, <2>2, Appended
    <3>3. asked'[Len(asked) + 1] = pos BY <2>1, <2>2, Appended
    <3> QED BY <3>1, <3>2, <3>3
  <2>4. Range(asked) \subseteq Range(asked') /\ pos \in Range(asked') BY <2>3 DEF Range
  <2>5. tried' \in Seq(Range(tried')) BY <2>1, KnownIsList
  <2>6. Prompting' BY <2>1, <2>4, <2>5 DEF Prompting, ReadHere, Here, Known
  <2> QED BY <1>0, <2>1, <2>4, <2>6, StoreStays
<1>4. ASSUME NEW pw \in Typed, Type(pw) PROVE StoreInv' BY <1>0, <1>4, TypeShows
<1>5. ASSUME NEW all \in BOOLEAN, GiveUp(all) PROVE StoreInv'
  <2>1. /\ phase \in {"menu", "prompt"} /\ (skipAll => skipAll')
        /\ Add(ReadHere(RawPasswords(Known(Here))), RawPasswords(Known(Here)))
        /\ Advance /\ UNCHANGED <<tree, opts, asked>>
    BY <1>5, Zenon DEF GiveUp
  <2>2. pos <= Len(tree) BY <1>0, <2>1 DEF WalkInv, OnTree
  <2>3. pos \in Range(asked) /\ ReadHere(RawPasswords(Known(Here))).ok BY <2>1 DEF StoreInv, Prompting
  <2> QED BY <1>0, <2>1, <2>2, <2>3, KnownGrows
<1>6. ASSUME Retry \/ Quit \/ Fail \/ Cancel \/ EndWalk PROVE StoreInv'
  <2>1. /\ UNCHANGED <<tree, opts, pos, tried, store, skipAll, asked>>
        /\ phase' \in {"prompt", "menu"} => phase \in {"prompt", "menu"}
    BY <1>6 DEF Retry, Quit, Fail, Cancel, EndWalk
  <2>2. Prompting' BY <2>1 DEF StoreInv, Prompting, ReadHere, Here, Known
  <2> QED BY <1>0, <2>1, <2>2, StoreStays
<1>7. CASE UNCHANGED scanVars
  <2>1. Prompting' BY <1>7 DEF scanVars, StoreInv, Prompting, ReadHere, Here, Known
  <2> QED BY <1>0, <1>7, <2>1, StoreStays DEF scanVars
<1> QED BY <1>1, <1>2, <1>3, <1>4, <1>5, <1>6, <1>7 DEF ScanNext

\* tryInteractive and the readers: whatever the trees, the passwords and the answers of the
\* user, a file in the store is open exactly when its lock is among the passwords tried and
\* no extension of a key store misnames it, an item of an open one exactly when its own is,
\* a container with a password error was offered to the user, and one the user unlocked
\* has none left.
THEOREM StoreShowsTheTruth == ScanSpec => []ContainersTrue
<1>1. StoreInv => ContainersTrue
  BY DEF StoreInv, Shows, ContainersTrue
<1> QED BY <1>1, StoreInit, StoreKeeps, PTL DEF ScanSpec

-----------------------------------------------------------------------------
(* Reassembly: the streams of a captured connection.                        *)


ChunkTypes ==
  /\ pending \in [Endpoints -> Seq(Chunk)]
  /\ data \in [Roles -> Seq(STRING)]
  /\ open \subseteq Endpoints
  /\ client \in Endpoints \cup {Nobody}

\* There is a client as soon as there is a direction.
ClientWithFirst == client = Nobody <=> open = {}

\* A direction that was not seen yet has nothing filed under the role it would get.
UnseenIsEmpty ==
  /\ client = Nobody => \A r \in Roles : data[r] = <<>>
  /\ \A e \in Endpoints \ open : client # Nobody => data[Role(e)] = <<>>

StreamsInv == ChunkTypes /\ ClientWithFirst /\ UnseenIsEmpty

LEMMA RoleInRoles == \A e : Role(e) \in Roles
BY DEF Role, Roles

\* The two endpoints have the two roles.
LEMMA OtherRole ==
  ASSUME client \in Endpoints, NEW e \in Endpoints, NEW x \in Endpoints, x # e
  PROVE  Role(x) # Role(e) /\ (x = client \/ e = client)
BY ReassemblyAssumption DEF Role

LEMMA ChunkBytes ==
  ASSUME ChunkTypes, NEW e \in Endpoints, pending[e] # <<>>
  PROVE  Head(pending[e]).bytes \in Seq(STRING)
<1>1. pending[e] \in Seq(Chunk) BY DEF ChunkTypes
<1>2. Head(pending[e]) \in Chunk BY <1>1
<1> QED BY <1>2 DEF Chunk

\* The bytes of a chunk are added to what its sender has, under the role that one has
\* from then on, and the other's stay its own: with the roles swapped or not.
LEMMA Filing ==
  ASSUME StreamsInv, NEW e \in Endpoints, e \in open, NEW c, c.bytes \in Seq(STRING), File(e, c, Swaps(e, c), c.end)
  PROVE  /\ data' \in [Roles -> Seq(STRING)]
         /\ client' \in Endpoints
         /\ \A x \in Endpoints : data'[Role(x)'] = IF x = e THEN data[Role(x)] \o c.bytes ELSE data[Role(x)]
<1>1. client \in Endpoints /\ data \in [Roles -> Seq(STRING)]
  BY DEF StreamsInv, ChunkTypes, ClientWithFirst
<1>2. CASE ~Swaps(e, c)
  <2>1. client' = client /\ data' = [data EXCEPT ![Role(e)] = @ \o c.bytes]
    BY <1>2 DEF File
  <2>2. \A x : Role(x)' = Role(x) BY <2>1 DEF Role
  <2>3. data[Role(e)] \o c.bytes \in Seq(STRING) BY <1>1, RoleInRoles
  <2>4. data' \in [Roles -> Seq(STRING)] BY <1>1, <2>1, <2>3
  <2>5. \A x \in Endpoints : data'[Role(x)] = IF x = e THEN data[Role(x)] \o c.bytes ELSE data[Role(x)]
    BY <1>1, <2>1, OtherRole, RoleInRoles
  <2> QED BY <1>1, <2>1, <2>2, <2>4, <2>5
<1>3. CASE Swaps(e, c)
  <2>1. client' = e /\ data' = [Swapped(data) EXCEPT !["client"] = @ \o c.bytes]
    BY <1>3 DEF File
  <2>2. e # client /\ Role(e) = "server" BY <1>3 DEF Swaps, Role
  <2>3. Swapped(data) \in [Roles -> Seq(STRING)] BY <1>1 DEF Swapped, Roles
  <2>4. data["server"] \o c.bytes \in Seq(STRING) BY <1>1 DEF Roles
  <2>5. /\ data'["client"] = data["server"] \o c.bytes
        /\ data'["server"] = data["client"]
        /\ data' \in [Roles -> Seq(STRING)]
    BY <2>1, <2>3, <2>4 DEF Swapped, Roles
  <2>6. \A x \in Endpoints : x # e => x = client /\ Role(x) = "client" /\ Role(x)' = "server"
    BY <1>1, <2>1, <2>2, OtherRole DEF Role
  <2>7. Role(e)' = "client" BY <2>1 DEF Role
  <2> QED BY <2>1, <2>2, <2>5, <2>6, <2>7
<1> QED BY <1>2, <1>3

\* What a delivery does to a connection with both directions or one.
LEMMA Delivered ==
  ASSUME StreamsInv, NEW e \in Endpoints, Reassembled(e)
  PROVE  /\ data' \in [Roles -> Seq(STRING)]
         /\ client' \in Endpoints
         /\ \A x \in Endpoints :
              data'[Role(x)'] = IF x = e THEN data[Role(x)] \o Head(pending[e]).bytes ELSE data[Role(x)]
<1> DEFINE c == Head(pending[e])
<1>1. e \in open /\ pending[e] # <<>> BY DEF Reassembled, Deliver
<1>2. c.bytes \in Seq(STRING) BY <1>1, ChunkBytes DEF StreamsInv
<1>3. CASE c.bytes = <<>>
  <2>1. UNCHANGED <<client, data>> BY <1>3 DEF Reassembled, Deliver
  <2>2. client \in Endpoints BY <1>1 DEF StreamsInv, ChunkTypes, ClientWithFirst
  <2>3. \A x : Role(x)' = Role(x) BY <2>1 DEF Role
  <2>4. \A x \in Endpoints : data[Role(x)] \in Seq(STRING) BY RoleInRoles DEF StreamsInv, ChunkTypes
  <2>5. \A x \in Endpoints : data[Role(x)] \o <<>> = data[Role(x)] BY <2>4, ConcatEmptySeq
  <2>6. \A x \in Endpoints : data'[Role(x)'] = data[Role(x)] BY <2>1, <2>3
  <2>7. \A x \in Endpoints : data[Role(x)] \o c.bytes = data[Role(x)] BY <1>3, <2>5
  <2> QED BY <2>1, <2>2, <2>6, <2>7 DEF StreamsInv, ChunkTypes
<1>4. CASE c.bytes # <<>>
  <2>1. File(e, c, pending[e] # <<>> /\ Swaps(e, c), c.end) BY <1>4 DEF Reassembled, Deliver
  <2>2. (pending[e] # <<>> /\ Swaps(e, c)) = Swaps(e, c) BY <1>1 DEF Swaps
  <2>3. File(e, c, Swaps(e, c), c.end) BY <2>1, <2>2
  <2> QED BY <1>1, <1>2, <2>3, Filing
<1> QED BY <1>3, <1>4

LEMMA TailsAreChunks ==
  ASSUME ChunkTypes, NEW e \in Endpoints, Reassembled(e)
  PROVE  pending' \in [Endpoints -> Seq(Chunk)]
<1>1. pending' = [pending EXCEPT ![e] = Tail(pending[e])] /\ pending[e] # <<>>
  BY DEF Reassembled, Deliver
<1>2. Tail(pending[e]) \in Seq(Chunk) BY <1>1 DEF ChunkTypes
<1> QED BY <1>1, <1>2 DEF ChunkTypes

LEMMA StreamsBegin ==
  ASSUME TCPInit PROVE StreamsInv /\ Filed!Init
<1>1. ChunkTypes
  <2>1. pending \in [Endpoints -> Seq(Chunk)] BY ReassemblyAssumption DEF TCPInit
  <2>2. <<>> \in Seq(STRING) OBVIOUS
  <2>3. data \in [Roles -> Seq(STRING)] BY <2>2 DEF TCPInit, ByRole
  <2>4. open \subseteq Endpoints /\ client \in Endpoints \cup {Nobody} BY DEF TCPInit
  <2> QED BY <2>1, <2>3, <2>4 DEF ChunkTypes
<1>2. open = {} /\ client = Nobody /\ \A r \in Roles : data[r] = <<>>
  BY DEF TCPInit, ByRole
<1>3. Filed!Init BY <1>2 DEF Filed!Init, FiledFrom
<1> QED BY <1>1, <1>2, <1>3 DEF StreamsInv, ClientWithFirst, UnseenIsEmpty

LEMMA DeliveryKeepsInv ==
  ASSUME StreamsInv, [TCPNext]_tcpVars PROVE StreamsInv'
<1>1. CASE UNCHANGED <<pending, open, client, data>>
  BY <1>1 DEF StreamsInv, ChunkTypes, ClientWithFirst, UnseenIsEmpty, Role
<1>2. ASSUME NEW e \in Endpoints, Open(e) PROVE StreamsInv'
  <2>1. /\ open' = open \cup {e} /\ UNCHANGED <<pending, data>>
        /\ client' = IF client = Nobody THEN e ELSE client
    BY <1>2 DEF Open, FirstStream
  <2>2. client' \in Endpoints /\ client' # Nobody
    BY <2>1, ReassemblyAssumption DEF StreamsInv, ChunkTypes
  <2>3. \A x \in Endpoints \ open' : data'[Role(x)'] = <<>>
    BY <2>1, RoleInRoles DEF StreamsInv, UnseenIsEmpty, Role
  <2> QED BY <2>1, <2>2, <2>3 DEF StreamsInv, ChunkTypes, ClientWithFirst, UnseenIsEmpty
<1>3. ASSUME NEW e \in Endpoints, Reassembled(e) PROVE StreamsInv'
  <2>1. open' = open /\ e \in open /\ open # {} /\ client # Nobody
    BY <1>3 DEF Reassembled, Deliver, StreamsInv, ClientWithFirst
  <2>2. client' \in Endpoints /\ client' # Nobody
    BY <1>3, Delivered, ReassemblyAssumption
  <2>3. ChunkTypes' BY <1>3, <2>1, <2>2, Delivered, TailsAreChunks DEF StreamsInv, ChunkTypes
  <2>4. \A x \in Endpoints \ open' : data'[Role(x)'] = <<>>
    BY <1>3, <2>1, Delivered DEF StreamsInv, UnseenIsEmpty
  <2> QED BY <2>1, <2>2, <2>3, <2>4 DEF StreamsInv, ClientWithFirst, UnseenIsEmpty
<1>4. Flush => UNCHANGED <<pending, open, client, data>> BY DEF Flush
<1>5. UNCHANGED tcpVars => UNCHANGED <<pending, open, client, data>> BY DEF tcpVars
<1> QED BY <1>1, <1>2, <1>3, <1>4, <1>5 DEF TCPNext

\* A first packet files nothing, an end of the capture neither; a delivery is a Receive.
LEMMA DeliveryRefines ==
  ASSUME StreamsInv, [TCPNext]_tcpVars PROVE [Filed!Next]_<<pending, FiledFrom>>
<1>1. CASE UNCHANGED <<pending, open, client, data>>
  BY <1>1 DEF FiledFrom, Role
<1>2. ASSUME NEW e \in Endpoints, Open(e) PROVE UNCHANGED <<pending, FiledFrom>>
  <2>1. /\ open' = open \cup {e} /\ UNCHANGED <<pending, data>>
        /\ client' = IF client = Nobody THEN e ELSE client
    BY <1>2 DEF Open, FirstStream
  <2>2. \A x \in open : Role(x)' = Role(x)
    BY <2>1 DEF Role, StreamsInv, ClientWithFirst
  <2>3. e \notin open => data[Role(e)'] = <<>>
    BY <2>1 DEF StreamsInv, UnseenIsEmpty, Role, Roles
  <2>4. \A x \in Endpoints : FiledFrom'[x] = FiledFrom[x]
    BY <2>1, <2>2, <2>3 DEF FiledFrom
  <2> QED BY <2>1, <2>4 DEF FiledFrom
<1>3. ASSUME NEW e \in Endpoints, Reassembled(e) PROVE Filed!Receive(e)
  <2>1. /\ open' = open /\ e \in open /\ pending[e] # <<>>
        /\ pending' = [pending EXCEPT ![e] = Tail(@)]
    BY <1>3 DEF Reassembled, Deliver
  <2>2. \A x \in Endpoints : FiledFrom'[x] = IF x = e THEN FiledFrom[x] \o Head(pending[e]).bytes ELSE FiledFrom[x]
    BY <1>3, <2>1, Delivered DEF FiledFrom
  <2>3. FiledFrom' = [FiledFrom EXCEPT ![e] = @ \o Head(pending[e]).bytes]
    BY <2>2 DEF FiledFrom
  <2> QED BY <2>1, <2>3 DEF Filed!Receive
<1>4. Flush => UNCHANGED <<pending, open, client, data>> BY DEF Flush
<1>5. UNCHANGED tcpVars => UNCHANGED <<pending, open, client, data>> BY DEF tcpVars
<1> QED BY <1>1, <1>2, <1>3, <1>4, <1>5 DEF TCPNext, Filed!Next

\* Nothing is lost, repeated, reordered or filed under the other side, whatever roles are
\* guessed from the first packet and corrected later (Reassembled, tcp/reassembly.go:159-204).
THEOREM FilesAsSent == TCPSpec => FiledAsSent
<1>1. TCPInit => StreamsInv /\ Filed!Init BY StreamsBegin
<1>2. StreamsInv /\ [TCPNext]_tcpVars => StreamsInv' BY DeliveryKeepsInv
<1>3. StreamsInv /\ [TCPNext]_tcpVars => [Filed!Next]_<<pending, FiledFrom>> BY DeliveryRefines
<1> QED BY <1>1, <1>2, <1>3, PTL DEF TCPSpec, FiledAsSent, Filed!Spec
=============================================================================
