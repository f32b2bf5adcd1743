----------------------------- MODULE LiveCapture -----------------------------
(***************************************************************************)
(* `certdiag pcap live`: the main goroutine reads packets until it has     *)
(* enough, is told to stop or cannot read, analyses them and prints.  Two  *)
(* goroutines may end the reading: the watcher of AnalyzeLive closes the   *)
(* handle the read is blocked in when the duration is over or stop is      *)
(* closed, and the signaller closes stop at the first Ctrl-C.  The main    *)
(* goroutine closes the same handle when it returns (CloseOnce).           *)
(***************************************************************************)
EXTENDS Naturals, FiniteSets

CONSTANTS
  Captures,        \* command lines: [count, timed]; a count of 0 is no limit
  MaxPackets,      \* bound: packets on the wire
  MaxInterrupts    \* bound: how often Ctrl-C is pressed

ASSUME CaptureAssumption == Captures \subseteq [count : Nat, timed : BOOLEAN]

VARIABLES
  capture,      \* the command line
  main,         \* "start", "opened", "reading", "analysing", "printing", "unwatch",
                \* "unnotify", "closing", and at last "exited", "failed" or "killed"
  watcher,      \* "none", "waiting", "closing", "gone"
  signaller,    \* "none", "waiting", "gone"
  timer,        \* "off", "running", "fired"
  channels,     \* which of sig (one element), stop, done and watchDone are filled or closed
  once,         \* CloseOnce: "unused", who is inside, or "over"
  closes,       \* calls of the handle's own Close
  packets,      \* packetCount
  interrupts    \* Ctrl-C so far

lcvars == <<capture, main, watcher, signaller, timer, channels, once, closes, packets, interrupts>>
goroutines == <<watcher, signaller, timer>>
handle == <<once, closes>>

LCInit ==
  /\ capture \in Captures
  /\ main = "start" /\ watcher = "none" /\ signaller = "none" /\ timer = "off"
  /\ channels = {} /\ once = "unused" /\ closes = 0 /\ packets = 0 /\ interrupts = 0

Over == main \in {"exited", "failed", "killed"}
HandleOpen == closes = 0

OpenLive ==
  /\ main = "start" /\ main' \in {"opened", "failed"}
  /\ UNCHANGED <<capture, goroutines, channels, handle, packets, interrupts>>

\* signal.Notify, stopOnSignal and the watcher, which starts the timer.
StartsWatcher == watcher' = "waiting" /\ timer' = IF capture.timed THEN "running" ELSE "off"
WatcherForDuration ==
  /\ watcher' = IF capture.timed THEN "waiting" ELSE "none"
  /\ timer' = IF capture.timed THEN "running" ELSE "off"
AnalyzeLive == StartsWatcher
Begin ==
  /\ main = "opened" /\ main' = "reading"
  /\ signaller' = "waiting" /\ AnalyzeLive
  /\ UNCHANGED <<capture, channels, handle, packets, interrupts>>

Enough == capture.count > 0 /\ packets >= capture.count
ReadPacket ==
  /\ main = "reading" /\ ~Enough
  /\ HandleOpen /\ packets < MaxPackets /\ packets' = packets + 1
  /\ UNCHANGED <<capture, main, goroutines, channels, handle, interrupts>>

\* A closed handle fails the read, also the one that is blocked in it; another error may.
ReadEnds ==
  /\ main = "reading" /\ main' = "analysing"
  /\ Enough \/ ~HandleOpen
  /\ UNCHANGED <<capture, goroutines, channels, handle, packets, interrupts>>
ReadFails ==
  /\ main = "reading" /\ ~Enough /\ main' = "analysing"
  /\ UNCHANGED <<capture, goroutines, channels, handle, packets, interrupts>>

\* Flush and ProcessConnections; done is closed by AnalyzeLive's defer.
Analyse ==
  /\ main = "analysing" /\ main' = "printing" /\ channels' = channels \cup {"done"}
  /\ UNCHANGED <<capture, goroutines, handle, packets, interrupts>>

\* printSessions, then the defers of runPcapLive, last in first out.
Return ==
  /\ \/ main = "printing" /\ main' = "unwatch" /\ UNCHANGED channels
     \/ main = "unwatch" /\ main' = "unnotify" /\ channels' = channels \cup {"watchDone"}
     \/ main = "unnotify" /\ main' = "closing" /\ UNCHANGED channels
  /\ UNCHANGED <<capture, goroutines, handle, packets, interrupts>>

\* closeCapture: the first caller runs Close, one that comes meanwhile waits for it.
Enters(who) == once = "unused" /\ once' = who /\ closes' = closes + 1
LeavesAtOnce(who) == UNCHANGED handle
Leaves(who) ==
  \/ once = who /\ once' = "over" /\ UNCHANGED closes
  \/ once = "over" /\ UNCHANGED handle
CloseCapture ==
  /\ main = "closing"
  /\ \/ Enters("main") /\ UNCHANGED main
     \/ Leaves("main") /\ main' = "exited"
  /\ UNCHANGED <<capture, goroutines, channels, packets, interrupts>>

Watch ==
  /\ \/ watcher = "waiting" /\ UNCHANGED handle
        /\ \/ (timer = "fired" \/ "stop" \in channels) /\ watcher' = "closing"
           \/ "done" \in channels /\ watcher' = "gone"
     \/ watcher = "closing" /\ Enters("watcher") /\ UNCHANGED watcher
     \/ watcher = "closing" /\ Leaves("watcher") /\ watcher' = "gone"
  /\ ~Over
  /\ UNCHANGED <<capture, main, signaller, timer, channels, packets, interrupts>>

TimerFires ==
  /\ timer = "running" /\ timer' = "fired" /\ ~Over
  /\ UNCHANGED <<capture, main, watcher, signaller, channels, handle, packets, interrupts>>

StopOnSignal ==
  /\ signaller = "waiting" /\ signaller' = "gone" /\ ~Over
  /\ \/ "sig" \in channels /\ channels' = (channels \ {"sig"}) \cup {"stop"}
     \/ "watchDone" \in channels /\ UNCHANGED channels
  /\ UNCHANGED <<capture, main, watcher, timer, handle, packets, interrupts>>

\* Without Notify it kills the process; a second one meets a full channel and is lost.
Notified == main \in {"reading", "analysing", "printing", "unwatch", "unnotify"}
Interrupt ==
  /\ ~Over /\ interrupts < MaxInterrupts /\ interrupts' = interrupts + 1
  /\ IF Notified THEN channels' = channels \cup {"sig"} /\ UNCHANGED main
     ELSE main' = "killed" /\ UNCHANGED channels
  /\ UNCHANGED <<capture, goroutines, handle, packets>>

MainStep == OpenLive \/ Begin \/ ReadPacket \/ ReadEnds \/ ReadFails \/ Analyse \/ Return \/ CloseCapture
LCNext == MainStep \/ Watch \/ TimerFires \/ StopOnSignal \/ Interrupt

\* Goroutines that can go on do, and time passes; packets, errors and keys may never come.
LCFair ==
  /\ WF_lcvars(OpenLive \/ Begin \/ ReadEnds \/ Analyse \/ Return \/ CloseCapture)
  /\ WF_lcvars(Watch) /\ WF_lcvars(TimerFires) /\ WF_lcvars(StopOnSignal)
LCSpec == LCInit /\ [][LCNext]_lcvars /\ LCFair

-------------------------------------------------------------------------------
(* Properties *)

\* The handle is closed by one of the two, once, and never under a read that nobody asked
\* to end; the command returns only when it is closed, also by the other (live.go:25-38).
HandleKept ==
  /\ closes <= 1 /\ (once \in {"main", "watcher", "over"} <=> closes = 1)
  /\ main = "reading" /\ ~HandleOpen => timer = "fired" \/ "stop" \in channels
  /\ main = "exited" => once = "over"
  /\ capture.count > 0 => packets <= capture.count

\* The first Ctrl-C during the reading, the duration and the count each end the command
\* (docs/pcap.md:51-52: it stops on Ctrl-C or after the duration or the count), though
\* the read may be blocked for good and the goroutine that ends it may come too late.
CaptureEnds ==
  /\ (main = "reading" /\ "sig" \in channels) ~> Over
  /\ (main = "reading" /\ Enough) ~> Over
  /\ (main = "reading" /\ capture.timed) ~> Over

\* Known not to hold (README, Known divergences): Ctrl-C ends the command whenever it is
\* pressed; during the analysis nothing looks at it.
InterruptStops == [][interrupts' # interrupts /\ main = "analysing" => main' = "killed"]_lcvars
=============================================================================
