----------------------------- MODULE ProxyProofs -----------------------------
(***************************************************************************)
(* Proofs about Proxy, for any set of connections and any bounds.          *)
(*                                                                         *)
(* The inductive invariant ties the program counters together: whoever     *)
(* runs the Once stands at its call of emit, a copy goroutine reaches emit *)
(* only with ApplicationData on both sides, the handler only after both    *)
(* copies have ended, and the handshake of a direction no longer grows     *)
(* once it has carried ApplicationData, so that a snapshot taken while the *)
(* copies go on cannot miss any of it.                                     *)
(***************************************************************************)
EXTENDS Proxy, FiniteSetTheorems, TLAPS

\* What a capture knows of the direction it records.
CaptureInv(c) ==
  \A s \in Sides :
    /\ copier[c][s] # "record" => cap[c][s] = forwarded[c][s]
    /\ cap[c][s].app > 0 => forwarded[c][s].app > 0 /\ forwarded[c][s].hs = cap[c][s].hs
    /\ copier[c][s] = "emit" => \A t \in Sides : AppSeen(c, t)

\* The handler and its copies.
HandlerInv(c) ==
  /\ handler[c] \in {"idle", "dialing"} => \A s \in Sides : copier[c][s] = "off"
  /\ handler[c] \in {"bytes", "ingress", "egress", "emitting"}
       => \A s \in Sides : copier[c][s] = "eof"

\* The Once: the body runs at most once, in the goroutine that entered it.
OnceInv(c) ==
  /\ emitPc[c] = "free" <=> runner[c] = Nobody
  /\ emitPc[c] \notin {"free", "done"} => CallsEmit(c, runner[c])
  /\ reports[c] = IF emitPc[c] = "done" THEN 1 ELSE 0
  /\ runner[c] \in Sides => \A t \in Sides : AppSeen(c, t)
  /\ runner[c] = "handler" => \A s \in Sides : copier[c][s] = "eof"

\* What the snapshot of side s holds once it has been taken.
Faithful(c, s) ==
  /\ draft[c][s].hs = cap[c][s].hs
  /\ runner[c] = "handler" => draft[c][s] = Kept(cap[c][s])

DraftInv(c) ==
  /\ emitPc[c] \in {"server", "count", "append", "call", "done"} => Faithful(c, "client")
  /\ emitPc[c] \in {"count", "append", "call", "done"} =>
       Faithful(c, "server") /\ draft[c].closed = (runner[c] = "handler")

ConnInv(c) == CaptureInv(c) /\ HandlerInv(c) /\ OnceInv(c) /\ DraftInv(c)

IInv == TypeOK /\ \A c \in Conns : ConnInv(c)

-----------------------------------------------------------------------------
\* Lemma: what a capture keeps of a direction is a capture.
LEMMA KeptType == \A k \in Capture : Kept(k) \in Capture
  BY ProxyAssumption DEF Capture, Kept

\* Lemma: the traffic of a direction is a number.
LEMMA TotalType == \A k \in Capture : Total(k) \in Nat
  BY ProxyAssumption DEF Capture, Total

\* Lemma: one chunk more is a capture again.
LEMMA ChunkType ==
  ASSUME NEW c \in Conns, NEW k \in Capture, NEW n \in NextChunk(c, k) PROVE n \in Capture
  BY DEF Capture, NextChunk

HandlerType == [Conns -> {"idle", "dialing", "copying", "bytes", "ingress", "egress", "emitting", "done"}]
CopierType  == [Conns -> [Sides -> {"off", "read", "record", "check", "emit", "eof"}]]

\* Lemma: coming back from emit leaves the program counters well formed.
LEMMA ReturnsType ==
  ASSUME TypeOK, NEW c \in Conns, NEW e, Returns(c, e)
  PROVE  handler' \in HandlerType /\ copier' \in CopierType
<1>1. CASE e = "handler"
  BY <1>1 DEF TypeOK, Returns, HandlerTo, HandlerType, CopierType
<1>2. CASE e # "handler"
  <2>1. copier' = [copier EXCEPT ![c][e] = "read"] /\ handler' = handler
    BY <1>2 DEF Returns, CopierTo
  <2>. QED
    BY <2>1 DEF TypeOK, HandlerType, CopierType
<1>. QED
  BY <1>1, <1>2

\* Type correctness is inductive on its own.
LEMMA TypeStep == TypeOK /\ [Next]_vars => TypeOK'
<1> SUFFICES ASSUME TypeOK, [Next]_vars PROVE TypeOK'
  OBVIOUS
<1> USE KeptType, TotalType, ProxyAssumption DEF TypeOK, Sides, Emitters, Nobody, Draft, Capture
<1>1. CASE StopClose
  BY <1>1 DEF StopClose, emitVars, connVars, ownerVars, byteVars
<1>2. CASE StopCollect
  BY <1>2 DEF StopCollect, emitVars, connVars, ownerVars, byteVars
<1>3. ASSUME NEW c \in Conns, Accept(c) PROVE TypeOK'
  BY <1>3 DEF Accept, HandlerTo, emitVars, connVars, ownerVars, byteVars
<1>4. ASSUME NEW c \in Conns, DialFail(c) PROVE TypeOK'
  BY <1>4 DEF DialFail, HandlerTo, emitVars, connVars, ownerVars, byteVars
<1>5. ASSUME NEW c \in Conns, Dial(c) PROVE TypeOK'
  BY <1>5 DEF Dial, HandlerTo, emitVars, connVars, ownerVars, byteVars
<1>6. ASSUME NEW c \in Conns, Wait(c) PROVE TypeOK'
  BY <1>6 DEF Wait, Join, HandlerTo, emitVars, connVars, ownerVars, byteVars
<1>7. ASSUME NEW c \in Conns, CountBytes(c) PROVE TypeOK'
  BY <1>7 DEF CountBytes, HandlerTo, emitVars, connVars, ownerVars, byteVars
<1>8. ASSUME NEW c \in Conns, CountIngress(c) PROVE TypeOK'
  BY <1>8 DEF CountIngress, HandlerTo, emitVars, connVars, ownerVars, byteVars
<1>9. ASSUME NEW c \in Conns, CountEgress(c) PROVE TypeOK'
  BY <1>9 DEF CountEgress, AddEgress, HandlerTo, emitVars, connVars, ownerVars, byteVars
<1>10. ASSUME NEW c \in Conns, SnapClient(c) PROVE TypeOK'
  <2>1. cap[c]["client"] \in Capture
    OBVIOUS
  <2>2. Kept(cap[c]["client"]) \in Capture
    BY <2>1, KeptType
  <2>3. draft' \in [Conns -> Draft]
    BY <1>10, <2>2 DEF SnapClient
  <2>. QED
    BY <1>10, <2>3 DEF SnapClient, EmitTo, emitVars, connVars, ownerVars, byteVars
<1>11. ASSUME NEW c \in Conns, SnapServer(c) PROVE TypeOK'
  <2>1. cap[c]["server"] \in Capture
    OBVIOUS
  <2>2. Kept(cap[c]["server"]) \in Capture
    BY <2>1, KeptType
  <2>3. \A d \in Conns : draft'[d] \in Draft
    BY <1>11, <2>2 DEF SnapServer
  <2>4. draft' \in [Conns -> Draft]
    BY <1>11, <2>3 DEF SnapServer
  <2>. QED
    BY <1>11, <2>4 DEF SnapServer, EmitTo, emitVars, connVars, ownerVars, byteVars
<1>12. ASSUME NEW c \in Conns, CountConn(c) PROVE TypeOK'
  BY <1>12 DEF CountConn, EmitTo, emitVars, connVars, ownerVars, byteVars
<1>13. ASSUME NEW c \in Conns, AppendConn(c) PROVE TypeOK'
  BY <1>13 DEF AppendConn, Keep, EmitTo, emitVars, connVars, ownerVars, byteVars
<1>14. ASSUME NEW c \in Conns, CallBack(c) PROVE TypeOK'
  <2>2. handler' \in HandlerType /\ copier' \in CopierType
    BY <1>14, ReturnsType DEF CallBack
  <2>3. reports' \in [Conns -> Nat]
    BY <1>14 DEF CallBack
  <2>. QED
    BY <1>14, <2>2, <2>3 DEF CallBack, EmitTo, HandlerType, CopierType, emitVars, connVars, ownerVars, byteVars
<1>15. ASSUME NEW c \in Conns, NEW s \in Sides, Forward(c, s) PROVE TypeOK'
  <2>1. PICK n \in NextChunk(c, forwarded[c][s]) : forwarded' = [forwarded EXCEPT ![c][s] = n]
    BY <1>15 DEF Forward
  <2>2. n \in Capture
    BY <2>1, ChunkType
  <2>3. forwarded' \in [Conns -> [Sides -> Capture]]
    BY <2>1, <2>2
  <2>. QED
    BY <1>15, <2>3 DEF Forward, CopierTo, emitVars, connVars, ownerVars, byteVars
<1>16. ASSUME NEW c \in Conns, NEW s \in Sides, Record(c, s) PROVE TypeOK'
  BY <1>16 DEF Record, Keeps, CopierTo, emitVars, connVars, ownerVars, byteVars
<1>17. ASSUME NEW c \in Conns, NEW s \in Sides, BothSeen(c, s) PROVE TypeOK'
  BY <1>17 DEF BothSeen, OnAppData, CopierTo, emitVars, connVars, ownerVars, byteVars
<1>18. ASSUME NEW c \in Conns, NEW s \in Sides, EndCopy(c, s) PROVE TypeOK'
  BY <1>18 DEF EndCopy, CopierTo, emitVars, connVars, ownerVars, byteVars
<1>19. ASSUME NEW c \in Conns, NEW e \in Emitters, EnterOnce(c, e) PROVE TypeOK'
  BY <1>19 DEF EnterOnce, RunBody, emitVars, connVars, ownerVars, byteVars
<1>20. ASSUME NEW c \in Conns, NEW e \in Emitters, SkipOnce(c, e) PROVE TypeOK'
  <2>1. handler' \in HandlerType /\ copier' \in CopierType
    BY <1>20, ReturnsType DEF SkipOnce
  <2>. QED
    BY <1>20, <2>1 DEF SkipOnce, HandlerType, CopierType, emitVars, connVars, ownerVars, byteVars
<1>21. CASE UNCHANGED vars
  BY <1>21 DEF vars, emitVars, connVars, ownerVars, byteVars
<1>. QED
  BY <1>1, <1>2, <1>3, <1>4, <1>5, <1>6, <1>7, <1>8, <1>9, <1>10, <1>11, <1>12, <1>13, <1>14, <1>15, <1>16, <1>17, <1>18, <1>19, <1>20, <1>21 DEF Next, Handle, EmitBody, Copy

\* Lemma: a captured copy holds the whole handshake.
LEMMA KeptHandshake == \A k \in Capture : Kept(k).hs = k.hs
  BY DEF Kept

\* Lemma: once a direction has carried ApplicationData its handshake is over.
LEMMA HandshakeFrozen ==
  ASSUME NEW c \in Conns, NEW k \in Capture, NEW n \in NextChunk(c, k), k.app > 0
  PROVE  n.hs = k.hs /\ n.app > 0
  BY DEF NextChunk, Capture

\* Every step keeps what the invariant says of a connection.
LEMMA ConnStep ==
  ASSUME TypeOK, TypeOK', \A c \in Conns : ConnInv(c), [Next]_vars, NEW d \in Conns
  PROVE  ConnInv(d)'
<1> USE DEF TypeOK, Sides, Emitters, Nobody, Draft
<1>1. CASE StopClose \/ StopCollect \/ UNCHANGED vars
  BY <1>1 DEF StopClose, StopCollect, vars, emitVars, connVars, ownerVars, byteVars, ConnInv, CaptureInv, HandlerInv, OnceInv, DraftInv, Faithful, CallsEmit, AppSeen
<1>2. ASSUME NEW c \in Conns, Accept(c) PROVE ConnInv(d)'
  BY <1>2 DEF Accept, HandlerTo, emitVars, connVars, ownerVars, byteVars, ConnInv, CaptureInv, HandlerInv, OnceInv, DraftInv, Faithful, CallsEmit, AppSeen
<1>3. ASSUME NEW c \in Conns, DialFail(c) PROVE ConnInv(d)'
  BY <1>3 DEF DialFail, HandlerTo, emitVars, connVars, ownerVars, byteVars, ConnInv, CaptureInv, HandlerInv, OnceInv, DraftInv, Faithful, CallsEmit, AppSeen
<1>4. ASSUME NEW c \in Conns, Dial(c) PROVE ConnInv(d)'
  BY <1>4 DEF Dial, HandlerTo, emitVars, connVars, ownerVars, byteVars, ConnInv, CaptureInv, HandlerInv, OnceInv, DraftInv, Faithful, CallsEmit, AppSeen
<1>5. ASSUME NEW c \in Conns, Wait(c) PROVE ConnInv(d)'
  BY <1>5 DEF Wait, Join, HandlerTo, emitVars, connVars, ownerVars, byteVars, ConnInv, CaptureInv, HandlerInv, OnceInv, DraftInv, Faithful, CallsEmit, AppSeen
<1>6. ASSUME NEW c \in Conns, CountBytes(c) PROVE ConnInv(d)'
  BY <1>6 DEF CountBytes, HandlerTo, emitVars, connVars, ownerVars, byteVars, ConnInv, CaptureInv, HandlerInv, OnceInv, DraftInv, Faithful, CallsEmit, AppSeen
<1>7. ASSUME NEW c \in Conns, CountIngress(c) PROVE ConnInv(d)'
  BY <1>7 DEF CountIngress, HandlerTo, emitVars, connVars, ownerVars, byteVars, ConnInv, CaptureInv, HandlerInv, OnceInv, DraftInv, Faithful, CallsEmit, AppSeen
<1>8. ASSUME NEW c \in Conns, CountEgress(c) PROVE ConnInv(d)'
  BY <1>8 DEF CountEgress, AddEgress, HandlerTo, emitVars, connVars, ownerVars, byteVars, ConnInv, CaptureInv, HandlerInv, OnceInv, DraftInv, Faithful, CallsEmit, AppSeen
<1>9. ASSUME NEW c \in Conns, SnapClient(c) PROVE ConnInv(d)'
  <2>1. draft'[c].client = Kept(cap[c]["client"])
    BY <1>9 DEF SnapClient
  <2>2. cap[c]["client"] \in Capture
    OBVIOUS
  <2>3. draft'[c].client.hs = cap[c]["client"].hs
    BY <2>1, <2>2, KeptHandshake
  <2>. QED
    BY <1>9, <2>1, <2>3 DEF SnapClient, EmitTo, emitVars, connVars, ownerVars, byteVars,
       ConnInv, CaptureInv, HandlerInv, OnceInv, DraftInv, Faithful, CallsEmit, AppSeen
<1>10. ASSUME NEW c \in Conns, SnapServer(c) PROVE ConnInv(d)'
  <2>1. /\ draft'[c].server = Kept(cap[c]["server"])
        /\ draft'[c].closed = (runner[c] = "handler")
        /\ draft'[c].client = draft[c].client
    BY <1>10 DEF SnapServer
  <2>2. cap[c]["server"] \in Capture
    OBVIOUS
  <2>3. draft'[c].server.hs = cap[c]["server"].hs
    BY <2>1, <2>2, KeptHandshake
  <2>4. d # c => draft'[d] = draft[d]
    BY <1>10 DEF SnapServer
  <2>. QED
    BY <1>10, <2>1, <2>3, <2>4 DEF SnapServer, EmitTo, emitVars, connVars, ownerVars, byteVars,
       ConnInv, CaptureInv, HandlerInv, OnceInv, DraftInv, Faithful, CallsEmit, AppSeen
<1>11. ASSUME NEW c \in Conns, CountConn(c) PROVE ConnInv(d)'
  BY <1>11 DEF CountConn, EmitTo, emitVars, connVars, ownerVars, byteVars, ConnInv, CaptureInv, HandlerInv, OnceInv, DraftInv, Faithful, CallsEmit, AppSeen
<1>12. ASSUME NEW c \in Conns, AppendConn(c) PROVE ConnInv(d)'
  BY <1>12 DEF AppendConn, Keep, EmitTo, emitVars, connVars, ownerVars, byteVars, ConnInv, CaptureInv, HandlerInv, OnceInv, DraftInv, Faithful, CallsEmit, AppSeen
<1>13. ASSUME NEW c \in Conns, CallBack(c) PROVE ConnInv(d)'
  BY <1>13 DEF CallBack, EmitTo, Returns, HandlerTo, CopierTo, emitVars, connVars, ownerVars, byteVars, ConnInv, CaptureInv, HandlerInv, OnceInv, DraftInv, Faithful, CallsEmit, AppSeen
<1>14. ASSUME NEW c \in Conns, NEW s \in Sides, Forward(c, s) PROVE ConnInv(d)'
  <2>1. PICK n \in NextChunk(c, forwarded[c][s]) : forwarded' = [forwarded EXCEPT ![c][s] = n]
    BY <1>14 DEF Forward
  <2>2. forwarded[c][s].app > 0 => n.hs = forwarded[c][s].hs /\ n.app > 0
    BY <2>1, HandshakeFrozen
  <2>3. cap[c][s] = forwarded[c][s]
    BY <1>14 DEF Forward, CopierTo, ConnInv, CaptureInv
  <2>. QED
    BY <1>14, <2>1, <2>2, <2>3 DEF Forward, CopierTo, emitVars, connVars, ownerVars, byteVars,
       ConnInv, CaptureInv, HandlerInv, OnceInv, DraftInv, Faithful, CallsEmit, AppSeen
<1>15. ASSUME NEW c \in Conns, NEW s \in Sides, Record(c, s) PROVE ConnInv(d)'
  BY <1>15 DEF Record, Keeps, CopierTo, emitVars, connVars, ownerVars, byteVars, ConnInv, CaptureInv, HandlerInv, OnceInv, DraftInv, Faithful, CallsEmit, AppSeen
<1>16. ASSUME NEW c \in Conns, NEW s \in Sides, BothSeen(c, s) PROVE ConnInv(d)'
  BY <1>16 DEF BothSeen, OnAppData, CopierTo, emitVars, connVars, ownerVars, byteVars, ConnInv, CaptureInv, HandlerInv, OnceInv, DraftInv, Faithful, CallsEmit, AppSeen
<1>17. ASSUME NEW c \in Conns, NEW s \in Sides, EndCopy(c, s) PROVE ConnInv(d)'
  BY <1>17 DEF EndCopy, CopierTo, emitVars, connVars, ownerVars, byteVars, ConnInv, CaptureInv, HandlerInv, OnceInv, DraftInv, Faithful, CallsEmit, AppSeen
<1>18. ASSUME NEW c \in Conns, NEW e \in Emitters, EnterOnce(c, e) PROVE ConnInv(d)'
  BY <1>18 DEF EnterOnce, RunBody, emitVars, connVars, ownerVars, byteVars, ConnInv, CaptureInv, HandlerInv, OnceInv, DraftInv, Faithful, CallsEmit, AppSeen
<1>19. ASSUME NEW c \in Conns, NEW e \in Emitters, SkipOnce(c, e) PROVE ConnInv(d)'
  BY <1>19 DEF SkipOnce, Returns, HandlerTo, CopierTo, emitVars, connVars, ownerVars, byteVars, ConnInv, CaptureInv, HandlerInv, OnceInv, DraftInv, Faithful, CallsEmit, AppSeen
<1>. QED
  BY <1>1, <1>2, <1>3, <1>4, <1>5, <1>6, <1>7, <1>8, <1>9, <1>10, <1>11, <1>12, <1>13, <1>14, <1>15, <1>16, <1>17, <1>18, <1>19 DEF Next, Handle, EmitBody, Copy

THEOREM Invariant == Spec => []IInv
<1>1. Init => IInv
  <2> SUFFICES ASSUME Init PROVE IInv
    OBVIOUS
  <2>1. Empty \in Capture
    BY ProxyAssumption DEF Empty, Capture
  <2>2. TypeOK
    BY <2>1 DEF Init, TypeOK, Draft, Sides, Nobody
  <2>3. ASSUME NEW c \in Conns PROVE ConnInv(c)
    BY DEF Init, ConnInv, CaptureInv, HandlerInv, OnceInv, DraftInv, Sides, Nobody, Empty
  <2>. QED
    BY <2>2, <2>3 DEF IInv
<1>2. IInv /\ [Next]_vars => IInv'
  BY TypeStep, ConnStep DEF IInv
<1>. QED
  BY <1>1, <1>2, PTL DEF Spec

-----------------------------------------------------------------------------
\* proxy.go:44-136.  Every variable keeps its type, for any number of connections.
THEOREM TypeCorrect == Spec => []TypeOK
  BY Invariant, PTL DEF IInv

\* proxy.go:80-100.  The Once makes the report unique among the copy goroutines
\* and the handler, for any number of connections.
THEOREM ReportUnique == Spec => []ReportedAtMostOnce
<1>1. IInv => ReportedAtMostOnce
  BY DEF IInv, ConnInv, OnceInv, ReportedAtMostOnce
<1>. QED
  BY <1>1, Invariant, PTL

\* proxy.go:102-109.  An early report holds the handshake of both directions,
\* for handshakes and traffic of any length.
THEOREM EarlyReportWhole == Spec => []EarlyReportHasHandshakes
<1>1. IInv => EarlyReportHasHandshakes
  <2> SUFFICES ASSUME IInv, NEW c \in Conns, reports[c] > 0, ~draft[c].closed
               PROVE  /\ draft[c].client.hs = forwarded[c]["client"].hs
                      /\ draft[c].server.hs = forwarded[c]["server"].hs
                      /\ forwarded[c]["client"].app > 0 /\ forwarded[c]["server"].app > 0
    BY DEF EarlyReportHasHandshakes
  <2>1. emitPc[c] = "done" /\ runner[c] \in Sides
    <3>1. emitPc[c] = "done"
      BY DEF IInv, ConnInv, OnceInv
    <3>2. runner[c] # Nobody /\ runner[c] # "handler"
      BY <3>1 DEF IInv, ConnInv, OnceInv, DraftInv
    <3>. QED
      BY <3>1, <3>2 DEF IInv, TypeOK, Emitters
  <2>2. \A s \in Sides : /\ cap[c][s].app > 0
                         /\ forwarded[c][s].app > 0
                         /\ forwarded[c][s].hs = cap[c][s].hs
    BY <2>1 DEF IInv, ConnInv, OnceInv, CaptureInv, AppSeen
  <2>3. draft[c].client.hs = cap[c]["client"].hs /\ draft[c].server.hs = cap[c]["server"].hs
    BY <2>1 DEF IInv, ConnInv, DraftInv, Faithful
  <2>. QED
    BY <2>2, <2>3 DEF Sides
<1>. QED
  BY <1>1, Invariant, PTL

\* proxy.go:90-91,129-135.  A report with FIN is the final state of the capture.
THEOREM ClosedReportFinal == Spec => []ClosedReportIsFinal
<1>1. IInv => ClosedReportIsFinal
  <2> SUFFICES ASSUME IInv, NEW c \in Conns, reports[c] > 0, draft[c].closed
               PROVE  /\ \A s \in Sides : copier[c][s] = "eof"
                      /\ draft[c].client = Kept(forwarded[c]["client"])
                      /\ draft[c].server = Kept(forwarded[c]["server"])
    BY DEF ClosedReportIsFinal
  <2>1. emitPc[c] = "done" /\ runner[c] = "handler"
    <3>1. emitPc[c] = "done"
      BY DEF IInv, ConnInv, OnceInv
    <3>2. draft[c].closed = (runner[c] = "handler")
      BY <3>1 DEF IInv, ConnInv, DraftInv
    <3>. QED
      BY <3>1, <3>2
  <2>2. \A s \in Sides : copier[c][s] = "eof" /\ cap[c][s] = forwarded[c][s]
    BY <2>1 DEF IInv, ConnInv, OnceInv, CaptureInv
  <2>. QED
    BY <2>1, <2>2 DEF IInv, ConnInv, DraftInv, Faithful, Sides
<1>. QED
  BY <1>1, Invariant, PTL

\* proxy.go:44-136.  The four together: what owners are told is true, for any number
\* of connections and captures of any length.
THEOREM ReportsAreTrue == Spec => []ReportsTrue
  BY TypeCorrect, ReportUnique, EarlyReportWhole, ClosedReportFinal, PTL DEF ReportsTrue

-----------------------------------------------------------------------------
\* The connections that connCount counts: emitted as far as the count, or beyond.
Counted == {c \in Conns : emitPc[c] \in {"append", "call", "done"}}

\* The connections that have been appended to p.conns.
Appended == {c \in Conns : emitPc[c] \in {"call", "done"}}

\* What the proxy owes its owner: the count is of the counted, p.conns holds only
\* appended connections and, until Stop takes them, all of these.
OwedInv ==
  /\ IsFiniteSet(Counted) /\ connCount = Cardinality(Counted)
  /\ conns \subseteq Appended
  /\ stage # "stopped" => conns = Appended

\* Lemma: a step that moves one emit past neither the count nor the append, and
\* leaves what the owner sees alone, owes the owner the same.
LEMMA SameDebt ==
  ASSUME TypeOK, OwedInv, UNCHANGED <<stage, conns, connCount>>,
         Counted' = Counted, Appended' = Appended
  PROVE  OwedInv'
  BY DEF OwedInv

\* Lemma: an emit that moves between two steps both before the count, or both
\* after the append, changes neither set.
LEMMA EmitMoves ==
  ASSUME TypeOK, NEW c \in Conns, NEW to, emitPc' = [emitPc EXCEPT ![c] = to],
         emitPc[c] \in {"call", "done"} <=> to \in {"call", "done"},
         emitPc[c] \in {"append", "call", "done"} <=> to \in {"append", "call", "done"}
  PROVE  Counted' = Counted /\ Appended' = Appended
<1>1. \A d \in Conns : d # c => emitPc'[d] = emitPc[d]
  BY DEF TypeOK
<1>2. emitPc'[c] = to
  BY DEF TypeOK
<1>. QED
  BY <1>1, <1>2 DEF Counted, Appended

\* Every step keeps the debt; the count and the append change it, and Stop settles it.
LEMMA OwedStep == TypeOK /\ OwedInv /\ [Next]_vars => OwedInv'
<1> SUFFICES ASSUME TypeOK, OwedInv, [Next]_vars PROVE OwedInv'
  OBVIOUS
<1>1. ASSUME emitPc' = emitPc, UNCHANGED <<stage, conns, connCount>> PROVE OwedInv'
  BY <1>1, SameDebt DEF Counted, Appended
<1>2. CASE StopClose
  <2>1. Counted' = Counted /\ Appended' = Appended
    BY <1>2 DEF StopClose, emitVars, Counted, Appended
  <2>. QED
    BY <1>2, <2>1 DEF StopClose, ownerVars, OwedInv
<1>3. CASE StopCollect
  <2>1. Counted' = Counted /\ Appended' = Appended
    BY <1>3 DEF StopCollect, emitVars, Counted, Appended
  <2>2. conns' = {} /\ stage' = "stopped" /\ connCount' = connCount
    BY <1>3 DEF StopCollect
  <2>. QED
    BY <2>1, <2>2 DEF OwedInv
<1>4. ASSUME NEW c \in Conns, CountConn(c) PROVE OwedInv'
  <2>1. emitPc[c] = "count" /\ emitPc' = [emitPc EXCEPT ![c] = "append"]
    BY <1>4 DEF CountConn, EmitTo
  <2>2. emitPc'[c] = "append" /\ \A d \in Conns : d # c => emitPc'[d] = emitPc[d]
    BY <2>1 DEF TypeOK
  <2>3. Counted' = Counted \cup {c} /\ c \notin Counted
    BY <2>1, <2>2 DEF Counted
  <2>4. Appended' = Appended
    BY <2>1, <2>2 DEF Appended
  <2>5. IsFiniteSet(Counted') /\ Cardinality(Counted') = Cardinality(Counted) + 1
    BY <2>3, FS_AddElement DEF OwedInv
  <2>6. connCount' = connCount + 1 /\ UNCHANGED <<stage, conns>>
    BY <1>4 DEF CountConn
  <2>. QED
    BY <2>4, <2>5, <2>6 DEF OwedInv
<1>5. ASSUME NEW c \in Conns, AppendConn(c) PROVE OwedInv'
  <2>1. emitPc[c] = "append" /\ emitPc' = [emitPc EXCEPT ![c] = "call"]
    BY <1>5 DEF AppendConn, Keep, EmitTo
  <2>2. emitPc'[c] = "call" /\ \A d \in Conns : d # c => emitPc'[d] = emitPc[d]
    BY <2>1 DEF TypeOK
  <2>3. Counted' = Counted
    BY <2>1, <2>2 DEF Counted
  <2>4. Appended' = Appended \cup {c}
    BY <2>1, <2>2 DEF Appended
  <2>5. conns' = conns \cup {c} /\ UNCHANGED <<stage, connCount>>
    BY <1>5 DEF AppendConn, Keep
  <2>. QED
    BY <2>3, <2>4, <2>5 DEF OwedInv
<1>6. ASSUME NEW c \in Conns, EmitBody(c) PROVE OwedInv'
  <2>1. ASSUME NEW from, NEW to, EmitTo(c, from, to), UNCHANGED <<stage, conns, connCount>>,
               <<from, to>> \in {<<"client", "server">>, <<"server", "count">>, <<"call", "done">>}
        PROVE  OwedInv'
    <3>1. emitPc[c] = from /\ emitPc' = [emitPc EXCEPT ![c] = to]
      BY <2>1 DEF EmitTo
    <3>2. Counted' = Counted /\ Appended' = Appended
      BY <2>1, <3>1, EmitMoves
    <3>. QED
      BY <2>1, <3>2, SameDebt
  <2>2. CASE SnapClient(c)
    BY <2>1, <2>2 DEF SnapClient, ownerVars
  <2>3. CASE SnapServer(c)
    BY <2>1, <2>3 DEF SnapServer, ownerVars
  <2>4. CASE CallBack(c)
    BY <2>1, <2>4 DEF CallBack, ownerVars
  <2>. QED
    BY <1>4, <1>5, <1>6, <2>2, <2>3, <2>4 DEF EmitBody
<1>7. ASSUME NEW c \in Conns, NEW e \in Emitters, EnterOnce(c, e) PROVE OwedInv'
  <2>1. emitPc[c] = "free" /\ emitPc' = [emitPc EXCEPT ![c] = "client"]
    BY <1>7 DEF EnterOnce, RunBody
  <2>2. Counted' = Counted /\ Appended' = Appended
    BY <2>1, EmitMoves
  <2>. QED
    BY <1>7, <2>2, SameDebt DEF EnterOnce, RunBody, ownerVars
<1>8. ASSUME NEW c \in Conns, NEW e \in Emitters, SkipOnce(c, e) PROVE OwedInv'
  BY <1>1, <1>8 DEF SkipOnce, emitVars, ownerVars
<1>9. ASSUME NEW c \in Conns, Accept(c) \/ Handle(c) PROVE OwedInv'
  BY <1>1, <1>9 DEF Accept, Handle, DialFail, Dial, Wait, Join, CountBytes, CountIngress, CountEgress, AddEgress, emitVars, ownerVars
<1>10. ASSUME NEW c \in Conns, NEW s \in Sides, Copy(c, s) PROVE OwedInv'
  BY <1>1, <1>10 DEF Copy, Forward, Record, Keeps, BothSeen, OnAppData, EndCopy, emitVars, ownerVars
<1>11. CASE UNCHANGED vars
  BY <1>1, <1>11 DEF vars, emitVars, ownerVars
<1>. QED
  BY <1>2, <1>3, <1>6, <1>7, <1>8, <1>9, <1>10, <1>11 DEF Next

\* proxy.go:44-52,93-100.  Stop hands over every connection that was reported before
\* it collects, and no more than were counted, whatever was under way.
THEOREM StopReturnsAll == Spec => StopReturnsReported
<1>1. Init => OwedInv
  <2> SUFFICES ASSUME Init PROVE OwedInv
    OBVIOUS
  <2>1. Counted = {} /\ Appended = {}
    BY DEF Init, Counted, Appended
  <2>. QED
    BY <2>1, FS_EmptySet DEF Init, OwedInv
<1>2. IInv /\ OwedInv /\ [Next]_vars => OwedInv'
  BY OwedStep DEF IInv
<1>3. IInv /\ OwedInv /\ [Next]_vars =>
        [stage # "stopped" /\ stage' = "stopped" =>
           /\ {c \in Conns : reports[c] > 0} \subseteq collected'
           /\ Cardinality(collected') <= connCount]_vars
  <2> SUFFICES ASSUME IInv, OwedInv, Next, stage # "stopped", stage' = "stopped"
               PROVE  /\ {c \in Conns : reports[c] > 0} \subseteq collected'
                      /\ Cardinality(collected') <= connCount
    OBVIOUS
  <2>1. StopCollect
    <3>1. ASSUME NEW c \in Conns, Handle(c) PROVE stage' = stage
      BY <3>1 DEF Handle, DialFail, Dial, Wait, Join, CountBytes, CountIngress, CountEgress, AddEgress
    <3>2. ASSUME NEW c \in Conns, EmitBody(c) PROVE stage' = stage
      BY <3>2 DEF EmitBody, SnapClient, SnapServer, CountConn, AppendConn, Keep, CallBack
    <3>3. ASSUME NEW c \in Conns, NEW s \in Sides, Copy(c, s) PROVE stage' = stage
      BY <3>3 DEF Copy, Forward, Record, Keeps, BothSeen, OnAppData, EndCopy
    <3>. QED
      BY <3>1, <3>2, <3>3 DEF Next, StopClose, Accept, EnterOnce, RunBody, SkipOnce
  <2>2. collected' = conns /\ conns = Appended
    BY <2>1 DEF StopCollect, OwedInv
  <2>3. \A c \in Conns : reports[c] > 0 => emitPc[c] = "done"
    BY DEF IInv, ConnInv, OnceInv
  <2>4. {c \in Conns : reports[c] > 0} \subseteq Appended
    BY <2>3 DEF Appended
  <2>5. Appended \subseteq Counted
    BY DEF Appended, Counted
  <2>6. Cardinality(Appended) <= connCount
    BY <2>5, FS_Subset DEF OwedInv
  <2>. QED
    BY <2>2, <2>4, <2>6
<1>. QED
  BY <1>1, <1>2, <1>3, Invariant, PTL DEF Spec, StopReturnsReported
=============================================================================
