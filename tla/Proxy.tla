-------------------------------- MODULE Proxy --------------------------------
(***************************************************************************)
(* pkg/packet_anal/proxy: the transparent TCP proxy.  An accept loop hands *)
(* every client to a handler goroutine, the handler runs two copy          *)
(* goroutines, each copy forwards a chunk and then records it in the       *)
(* capture of its direction, and the connection is reported to its owner   *)
(* exactly once: early, as soon as both directions carry ApplicationData,  *)
(* or at the end, whichever comes first.                                   *)
(*                                                                         *)
(* A direction is abstracted to a number of handshake chunks followed by   *)
(* application chunks (one chunk: what one io.Copy read returns); records  *)
(* that are split over chunks are left out.                                *)
(***************************************************************************)
EXTENDS Naturals, FiniteSets

CONSTANTS
  Conns,          \* client connections
  MaxChunks,      \* bound: what each direction of a connection carries at most
  AppLimit        \* captureAppDataLimit, in chunks

ASSUME ProxyAssumption ==
  /\ MaxChunks \in [Conns -> [hs : Nat, app : Nat]]
  /\ AppLimit \in Nat

Sides == {"client", "server"}

\* Who may call emit: a copy goroutine (early report) or the handler (at the end).
Emitters == Sides \cup {"handler"}
Nobody == "nobody"

VARIABLES
  stage,      \* Stop(): "serving", then "closing" (listener closed, 100ms sleep), then "stopped"
  handler,    \* program counter of handleConn, per connection
  copier,     \* program counter of the two copy goroutines, per connection and side
  cap,        \* captureWriter of each side: chunks recorded
  forwarded,  \* chunks written to the peer, per connection and side
  runner,     \* emitOnce: who runs (or ran) the body
  emitPc,     \* progress of the emit body
  draft,      \* the tcp.Connection the emit body builds
  conns,      \* p.conns: connections appended and not yet collected by Stop
  collected,  \* what Stop returned
  connCount,  \* p.connCount
  byteCount, ingressBytes, egressBytes,
  reports     \* OnConnection calls, per connection (observation)

connVars  == <<handler, copier, cap, forwarded>>
emitVars  == <<runner, emitPc, draft, reports>>
ownerVars == <<conns, collected, connCount>>
byteVars  == <<byteCount, ingressBytes, egressBytes>>
vars == <<stage, connVars, emitVars, ownerVars, byteVars>>

Capture == [hs : Nat, app : Nat]
Empty   == [hs |-> 0, app |-> 0]

\* captureWriter.captured: the handshake in full, ApplicationData up to the cap.
Kept(k) == [hs |-> k.hs, app |-> IF k.app <= AppLimit THEN k.app ELSE AppLimit]

\* captureWriter.total
Total(k) == k.hs + k.app

\* captureWriter.appDataSeen
AppSeen(c, s) == cap[c][s].app > 0

Draft == [client : Capture, server : Capture, closed : BOOLEAN]

TypeOK ==
  /\ stage \in {"serving", "closing", "stopped"}
  /\ handler \in [Conns -> {"idle", "dialing", "copying", "bytes", "ingress", "egress", "emitting", "done"}]
  /\ copier \in [Conns -> [Sides -> {"off", "read", "record", "check", "emit", "eof"}]]
  /\ cap \in [Conns -> [Sides -> Capture]]
  /\ forwarded \in [Conns -> [Sides -> Capture]]
  /\ runner \in [Conns -> Emitters \cup {Nobody}]
  /\ emitPc \in [Conns -> {"free", "client", "server", "count", "append", "call", "done"}]
  /\ draft \in [Conns -> Draft]
  /\ conns \in SUBSET Conns
  /\ collected \in SUBSET Conns
  /\ connCount \in Nat
  /\ byteCount \in Nat /\ ingressBytes \in Nat /\ egressBytes \in Nat
  /\ reports \in [Conns -> Nat]

Init ==
  /\ stage = "serving"
  /\ handler = [c \in Conns |-> "idle"]
  /\ copier = [c \in Conns |-> [s \in Sides |-> "off"]]
  /\ cap = [c \in Conns |-> [s \in Sides |-> Empty]]
  /\ forwarded = [c \in Conns |-> [s \in Sides |-> Empty]]
  /\ runner = [c \in Conns |-> Nobody]
  /\ emitPc = [c \in Conns |-> "free"]
  /\ draft = [c \in Conns |-> [client |-> Empty, server |-> Empty, closed |-> FALSE]]
  /\ conns = {} /\ collected = {} /\ connCount = 0
  /\ byteCount = 0 /\ ingressBytes = 0 /\ egressBytes = 0
  /\ reports = [c \in Conns |-> 0]

-----------------------------------------------------------------------------
(* The owner: the accept loop and Stop, which leaves open connections alone. *)

HandlerTo(c, from, to) == handler[c] = from /\ handler' = [handler EXCEPT ![c] = to]

\* acceptLoop: a closed listener makes Accept fail and ends the loop.
Accept(c) ==
  /\ stage = "serving" /\ HandlerTo(c, "idle", "dialing")
  /\ UNCHANGED <<stage, copier, cap, forwarded, emitVars, ownerVars, byteVars>>

StopClose ==
  /\ stage = "serving" /\ stage' = "closing"
  /\ UNCHANGED <<connVars, emitVars, ownerVars, byteVars>>

\* After the sleep, under p.mu: hand over p.conns and forget it.
StopCollect ==
  /\ stage = "closing" /\ stage' = "stopped"
  /\ collected' = conns /\ conns' = {}
  /\ UNCHANGED <<connCount, connVars, emitVars, byteVars>>

-----------------------------------------------------------------------------
(* handleConn and its two copy goroutines.                                 *)

CopierTo(c, s, from, to) ==
  copier[c][s] = from /\ copier' = [copier EXCEPT ![c][s] = to]

\* net.Dial fails: the client is closed, nothing is captured or reported.
DialFail(c) ==
  /\ HandlerTo(c, "dialing", "done")
  /\ UNCHANGED <<stage, copier, cap, forwarded, emitVars, ownerVars, byteVars>>

Dial(c) ==
  /\ HandlerTo(c, "dialing", "copying")
  /\ copier' = [copier EXCEPT ![c] = [s \in Sides |-> "read"]]
  /\ UNCHANGED <<stage, cap, forwarded, emitVars, ownerVars, byteVars>>

\* What the peer of side s may send next: ApplicationData only after the handshake.
NextChunk(c, k) ==
  {n \in {[k EXCEPT !.hs = @ + 1], [k EXCEPT !.app = @ + 1]} :
     /\ k.app > 0 => n.hs = k.hs
     /\ n.hs <= MaxChunks[c].hs /\ n.app <= MaxChunks[c].app}

\* io.Copy reads a chunk and MultiWriter writes it to the peer first.
Forward(c, s) ==
  /\ CopierTo(c, s, "read", "record")
  /\ \E k \in NextChunk(c, forwarded[c][s]) : forwarded' = [forwarded EXCEPT ![c][s] = k]
  /\ UNCHANGED <<stage, handler, cap, emitVars, ownerVars, byteVars>>

\* captureWriter.Write: record the chunk; the first ApplicationData fires onAppData.
\* Mutant: a chunk is recorded on top of one of its own.
Keeps(c, s, k) ==
  /\ CopierTo(c, s, "record",
       IF ~AppSeen(c, s) /\ forwarded[c][s].app > 0 THEN "check" ELSE "read")
  /\ cap' = [cap EXCEPT ![c][s] = k]
  /\ UNCHANGED <<stage, handler, forwarded, emitVars, ownerVars, byteVars>>
RecordTwice(c, s) == Keeps(c, s, [forwarded[c][s] EXCEPT !.app = @ + 1])
Record(c, s)      == Keeps(c, s, forwarded[c][s])

\* onAppData of side s; mutants: either side is enough, the server has no callback.
OnAppData(c, s, ready) ==
  /\ CopierTo(c, s, "check", IF ready THEN "emit" ELSE "read")
  /\ UNCHANGED <<stage, handler, cap, forwarded, emitVars, ownerVars, byteVars>>
EitherSeen(c, s)     == OnAppData(c, s, \E t \in Sides : AppSeen(c, t))
ClientCallback(c, s) == OnAppData(c, s, s = "client" /\ AppSeen(c, "server"))
BothSeen(c, s)       == OnAppData(c, s, \A t \in Sides : AppSeen(c, t))

\* A read or write error, or EOF, ends the copy; CloseWrite passes it on.
EndCopy(c, s) ==
  /\ CopierTo(c, s, "read", "eof")
  /\ UNCHANGED <<stage, handler, cap, forwarded, emitVars, ownerVars, byteVars>>

\* wg.Wait returns when both copies have ended; mutant: wg.Add(1).
Join(c, ended) ==
  /\ ended /\ HandlerTo(c, "copying", "bytes")
  /\ UNCHANGED <<stage, copier, cap, forwarded, emitVars, ownerVars, byteVars>>
WaitOne(c) == Join(c, \E s \in Sides : copier[c][s] = "eof")
Wait(c)    == Join(c, \A s \in Sides : copier[c][s] = "eof")

\* The three atomic counters, in the order the handler adds to them;
\* mutants: the total of one direction, no emit at the end.
CountBytes(c) ==
  /\ HandlerTo(c, "bytes", "ingress")
  /\ byteCount' = byteCount + Total(cap[c]["client"]) + Total(cap[c]["server"])
  /\ UNCHANGED <<stage, copier, cap, forwarded, emitVars, ownerVars, ingressBytes, egressBytes>>

CountIngress(c) ==
  /\ HandlerTo(c, "ingress", "egress")
  /\ ingressBytes' = ingressBytes + Total(cap[c]["client"])
  /\ UNCHANGED <<stage, copier, cap, forwarded, emitVars, ownerVars, byteCount, egressBytes>>

AddEgress(c, next) ==
  /\ HandlerTo(c, "egress", next)
  /\ egressBytes' = egressBytes + Total(cap[c]["server"])
  /\ UNCHANGED <<stage, copier, cap, forwarded, emitVars, ownerVars, byteCount, ingressBytes>>
EgressAndEnd(c) == AddEgress(c, "done")
CountEgress(c)  == AddEgress(c, "emitting")

-----------------------------------------------------------------------------
(* emit: sync.Once around the report.                                      *)

EmitTo(c, from, to) == emitPc[c] = from /\ emitPc' = [emitPc EXCEPT ![c] = to]

\* e has reached its call of emit.
CallsEmit(c, e) == IF e = "handler" THEN handler[c] = "emitting" ELSE copier[c][e] = "emit"

\* The goroutine that called emit goes on after it.
Returns(c, e) ==
  IF e = "handler" THEN HandlerTo(c, "emitting", "done") /\ UNCHANGED copier
                   ELSE CopierTo(c, e, "emit", "read") /\ UNCHANGED handler

\* emitOnce.Do: the first caller runs the body; mutant: no Once, every caller does.
RunBody(c, e, from) ==
  /\ CallsEmit(c, e) /\ emitPc[c] \in from
  /\ runner' = [runner EXCEPT ![c] = e]
  /\ emitPc' = [emitPc EXCEPT ![c] = "client"]
  /\ UNCHANGED <<stage, connVars, draft, reports, ownerVars, byteVars>>
EnterAlways(c, e) == RunBody(c, e, {"free", "done"})
EnterOnce(c, e)   == RunBody(c, e, {"free"})

\* emitOnce.Do: a later caller waits until the body has returned.
SkipOnce(c, e) ==
  /\ CallsEmit(c, e) /\ emitPc[c] = "done" /\ Returns(c, e)
  /\ UNCHANGED <<stage, cap, forwarded, emitVars, ownerVars, byteVars>>

\* clientCap.captured(), then serverCap.captured(): two locks, two moments.
SnapClient(c) ==
  /\ EmitTo(c, "client", "server")
  /\ draft' = [draft EXCEPT ![c].client = Kept(cap[c]["client"])]
  /\ UNCHANGED <<stage, connVars, runner, reports, ownerVars, byteVars>>

SnapServer(c) ==
  /\ EmitTo(c, "server", "count")
  /\ draft' = [draft EXCEPT ![c].server = Kept(cap[c]["server"]),
                            ![c].closed = (runner[c] = "handler")]
  /\ UNCHANGED <<stage, connVars, runner, reports, ownerVars, byteVars>>

CountConn(c) ==
  /\ EmitTo(c, "count", "append") /\ connCount' = connCount + 1
  /\ UNCHANGED <<stage, connVars, runner, draft, reports, conns, collected, byteVars>>

\* Under p.mu; mutant: a proxy that is being stopped no longer keeps it.
Keep(c, keeps) ==
  /\ EmitTo(c, "append", "call")
  /\ conns' = IF keeps THEN conns \cup {c} ELSE conns
  /\ UNCHANGED <<stage, connVars, runner, draft, reports, collected, connCount, byteVars>>
KeepWhileServing(c) == Keep(c, stage = "serving")
AppendConn(c)       == Keep(c, TRUE)

\* OnConnection returns: the once is done and the caller goes on.
CallBack(c) ==
  /\ EmitTo(c, "call", "done") /\ Returns(c, runner[c])
  /\ reports' = [reports EXCEPT ![c] = @ + 1]
  /\ UNCHANGED <<stage, cap, forwarded, runner, draft, ownerVars, byteVars>>

-----------------------------------------------------------------------------
EmitBody(c) == SnapClient(c) \/ SnapServer(c) \/ CountConn(c) \/ AppendConn(c) \/ CallBack(c)

Handle(c) ==
  \/ DialFail(c) \/ Dial(c) \/ Wait(c)
  \/ CountBytes(c) \/ CountIngress(c) \/ CountEgress(c)

Copy(c, s) == Forward(c, s) \/ Record(c, s) \/ BothSeen(c, s) \/ EndCopy(c, s)

Next ==
  \/ StopClose \/ StopCollect
  \/ \E c \in Conns :
       \/ Accept(c) \/ Handle(c) \/ EmitBody(c)
       \/ \E s \in Sides : Copy(c, s)
       \/ \E e \in Emitters : EnterOnce(c, e) \/ SkipOnce(c, e)

\* Goroutines that are not waiting for a peer are scheduled.  Nothing is assumed
\* of the peers: they may never send, and never close.
Fairness ==
  /\ WF_vars(StopCollect)
  /\ \A c \in Conns :
       /\ WF_vars(Dial(c) \/ DialFail(c))
       /\ WF_vars(Wait(c) \/ CountBytes(c) \/ CountIngress(c) \/ CountEgress(c))
       /\ WF_vars(EmitBody(c))
       /\ \A s \in Sides : WF_vars(Record(c, s) \/ BothSeen(c, s))
       /\ \A e \in Emitters : WF_vars(EnterOnce(c, e) \/ SkipOnce(c, e))

Spec == Init /\ [][Next]_vars
FairSpec == Spec /\ Fairness

-----------------------------------------------------------------------------
(* Properties.                                                             *)

\* proxy.go:80-100.  Two copy goroutines and the handler race to emit, and a
\* connection is still reported to its owner at most once.
ReportedAtMostOnce == \A c \in Conns : reports[c] <= 1

\* proxy.go:102-109.  A report made while the connection is open comes only
\* when both directions carry ApplicationData, and it holds the whole
\* handshake of both, although the copies go on while it is put together.
EarlyReportHasHandshakes ==
  \A c \in Conns : reports[c] > 0 /\ ~draft[c].closed =>
    /\ draft[c].client.hs = forwarded[c]["client"].hs
    /\ draft[c].server.hs = forwarded[c]["server"].hs
    /\ forwarded[c]["client"].app > 0 /\ forwarded[c]["server"].app > 0

\* proxy.go:90-91,135.  A report that says both sides have closed (FIN) is
\* made after both copies ended and holds all that the capture ever keeps.
ClosedReportIsFinal ==
  \A c \in Conns : reports[c] > 0 /\ draft[c].closed =>
    /\ \A s \in Sides : copier[c][s] = "eof"
    /\ draft[c].client = Kept(forwarded[c]["client"])
    /\ draft[c].server = Kept(forwarded[c]["server"])

\* What an owner is told of a connection (proxy.go:80-135): one report, early with
\* both handshakes or final with all that was kept.
ReportsTrue == TypeOK /\ ReportedAtMostOnce /\ EarlyReportHasHandshakes /\ ClosedReportIsFinal

\* proxy.go:44-52,93-96.  Whatever was reported before Stop collects is in what
\* Stop returns, and a connection is never both collected and still pending.
StopReturnsReported ==
  [][stage # "stopped" /\ stage' = "stopped" =>
       /\ {c \in Conns : reports[c] > 0} \subseteq collected'
       /\ Cardinality(collected') <= connCount]_vars

\* proxy.go:102-104,129-135.  A connection whose two directions carry
\* ApplicationData is reported without waiting for it to close, even when neither
\* peer ever sends or closes again; one that closes is, whatever it carried, and
\* its handler ends.
EveryConnReported ==
  \A c \in Conns :
    /\ (AppSeen(c, "client") /\ AppSeen(c, "server")) ~> (reports[c] = 1)
    /\ (\A s \in Sides : copier[c][s] = "eof") ~> (reports[c] = 1 /\ handler[c] = "done")
=============================================================================
