--------------------------- MODULE CapturedSession ---------------------------
(***************************************************************************)
(* internal/pcapint/analyze.go: from the packets of one connection to the  *)
(* session that is reported: Reassembly, then SessionTracker.  The peers   *)
(* are the environment: they follow one of the exchanges below, up to any  *)
(* point, perhaps after a STARTTLS dialogue in the clear, and the capture  *)
(* may start late and end early.  What really happened is then compared    *)
(* with what is reported.                                                  *)
(***************************************************************************)
EXTENDS Reassembly, SessionTracker

CONSTANT Preambles   \* how the connection begins: members of DOMAIN Preamble

a == "a"   \* the TLS client
b == "b"

Preamble == [none |-> <<>>, banner |-> <<<<b, <<"text">>>>>>,
             dialog |-> <<<<b, <<"text">>>>, <<a, <<"text">>>>, <<b, <<"text">>>>>>]

\* Each flight is sent by one peer; done: the flight that completes the handshake.
Hello12  == <<<<a, <<"CH">>>>, <<b, <<"SH12", "CERT", "SHD">>>>>>
Exchanges ==
  {[flights |-> Hello12 \o <<<<a, <<"CKX", "CCS", "enc">>>>, <<b, <<"CCS", "enc">>>>, <<a, <<"app">>>>,
                             <<b, <<"app", "encAlert">>>>>>, done |-> 4, version |-> "1.2"],
   [flights |-> Hello12 \o <<<<a, <<"CERT", "CKX", "CCS", "enc">>>>, <<b, <<"alert">>>>>>, done |-> 99, version |-> "1.2"],
   [flights |-> Hello12 \o <<<<a, <<"alert">>>>>>, done |-> 99, version |-> "1.2"],
   [flights |-> <<<<a, <<"CH">>>>, <<b, <<"alert">>>>>>, done |-> 99, version |-> "1.2"],
   [flights |-> <<<<a, <<"CH">>>>, <<b, <<"SH13", "CCS", "app">>>>, <<a, <<"CCS", "app">>>>, <<a, <<"app">>>>>>,
    done |-> 3, version |-> "1.3"],
   \* The client rejects the ServerHello before it has keys.
   [flights |-> <<<<a, <<"CH">>>>, <<b, <<"SH13", "CCS", "app">>>>, <<a, <<"alert">>>>>>, done |-> 99, version |-> "1.3"],
   \* The client rejects the certificate: its alert looks like application data.
   [flights |-> <<<<a, <<"CH">>>>, <<b, <<"SH13", "CCS", "app">>>>, <<a, <<"CCS", "app">>>>>>, done |-> 99, version |-> "1.3"]}

VARIABLE world   \* what the peers do and how the analysis was asked for

Worlds ==
  UNION {[exchange : {x}, flights : 1..Len(x.flights), preamble : Preambles, skipped : IF MidStream THEN {0, 1} ELSE {0},
          ending : {"open", "bare", "carried"}, closer : {a, b}, aggressive : BOOLEAN, keylog : BOOLEAN] : x \in Exchanges}

\* The flights that are sent, from the one the capture starts with.
Traffic(w) == LET all == Preamble[w.preamble] \o SubSeq(w.exchange.flights, 1, w.flights)
              IN SubSeq(all, w.skipped + 1, Len(all))

\* A FIN or RST comes alone or with the closer's last bytes.
StreamOf(w) ==
  [e \in Endpoints |->
    LET mine == SelectSeq(Traffic(w), LAMBDA f : f[1] = e)
        Mark(i) == w.ending = "carried" /\ w.closer = e /\ i = Len(mine)
    IN [i \in DOMAIN mine |-> [bytes |-> mine[i][2], end |-> Mark(i)]]
       \o IF w.ending = "bare" /\ w.closer = e THEN <<[bytes |-> <<>>, end |-> TRUE]>> ELSE <<>>]

\* What Streams is for these exchanges.
WorldStreams == {StreamOf(w) : w \in Worlds}

WorldInit == world \in Worlds /\ sent = StreamOf(world) /\ TCPInit
WorldSpec == WorldInit /\ [][TCPNext /\ UNCHANGED world]_<<tcpVars, world>>

-----------------------------------------------------------------------------
(* What is reported, and what happened.                                    *)

Session == Process(data, fin, world.aggressive, world.keylog)
Reported == flushed /\ Session.reported

Delivered(e) == SubSeq(sent[e], 1, Len(sent[e]) - Len(pending[e]))
BytesOf(chunks) == FlattenSeq([i \in DOMAIN chunks |-> chunks[i].bytes])
Arrived(e) == BytesOf(Delivered(e))
Completed == world.flights >= world.exchange.done
HasUnit(s, x) == \E i \in DOMAIN s : s[i] = x

-----------------------------------------------------------------------------
(* Properties.                                                             *)

\* Once a ClientHello has been captured its sender is the client ("The
\* ClientHello is the authority"), unless a dialogue in the clear was captured from
\* the middle: there the client may have spoken as the server already.
FromStart == world.skipped = 0
RolesKnown == FromStart /\ client = a
HelloCaptured == \E e \in Endpoints : HasUnit(Arrived(e), "CH")
RolesRight == HelloCaptured /\ world.preamble # "dialog" => client = a

\* The server's certificate is reported whenever the capture holds it in a form
\* the options let the analysis read: in the clear, or encrypted with the keys
\* known; in whatever order the two directions arrived.
Readable == RolesKnown /\ (world.preamble = "none" \/ world.aggressive)
CertReported ==
  Reported /\ Readable =>
    /\ HasUnit(Arrived(b), "CERT") => Session.certs
    /\ world.keylog /\ HasUnit(Arrived(a), "CH") /\ HasUnit(Arrived(b), "SH13")
         /\ HasUnit(Arrived(b), "app") => Session.certs

\* And it is the server's: a client's certificate is never reported in its place
\* (a capture that missed the ClientHello may take one side for the other).
CertsAreServers ==
  Reported /\ RolesKnown /\ Session.certs => HasUnit(Arrived(b), "CERT") \/ (world.exchange.version = "1.3" /\ world.keylog)

\* The session is that of the server: its role and its certificate are found whenever
\* the capture holds them, and no other's (fixRoles, SetRoles, processRecord).
ServerIsFound == TCPTypeOK /\ RolesRight /\ CertReported /\ CertsAreServers

\* An alert in the clear that was captured fails the session, whichever side
\* sent it and whatever the other side had already sent in the meantime.  (After
\* a dialogue in the clear TLS is found by the sender's hello.)
HelloFound(e) == world.aggressive /\ \E h \in {"CH", "SH12", "SH13"} : HasUnit(Arrived(e), h)
FatalAlertFails ==
  (Reported /\ \E e \in Endpoints : HasUnit(Arrived(e), "alert") /\ (StartsTLS(Arrived(e)) \/ HelloFound(e)))
    => Session.status = "FAILED"

\* A TLS 1.2 session reported OK has completed its handshake.
OkCompleted12 == Reported /\ Session.status = "OK" /\ world.exchange.version = "1.2" => Completed

\* What is said of the outcome is what was captured of it (Status).
StatusIsTrue == FatalAlertFails /\ OkCompleted12

\* The rest is known not to hold (README, Known divergences).

\* A captured ClientHello settles the roles, wherever the capture starts.
HelloSettlesRoles == HelloCaptured => client = a

\* OkCompleted12 for every version ("StatusOK: Handshake completed successfully").
OkCompleted == Reported /\ Session.status = "OK" => Completed

\* An alert is reported for failed handshakes ("Alert (if handshake failed)").
AlertMeansFailed == Reported /\ Session.alertFrom # "nobody" => ~Completed

\* A connection whose end was captured before the handshake completed is
\* reported as aborted ("TCP RST/FIN without completion").
EndReported ==
  Reported /\ (\E e \in Endpoints : \E i \in DOMAIN Delivered(e) : Delivered(e)[i].end)
           /\ Session.state < Established => Session.status = "ABORTED"

\* The state named in a diagnosis is one the session had reached before it
\* failed ("returns the last state before failure/abort").
LastStateReached ==
  Reported /\ Session.status = "FAILED" =>
    \/ Session.last = Init0
    \/ \E e \in Endpoints : \E i \in DOMAIN Arrived(e) :
         Rank(Arrived(e)[i], IF e = a THEN "client" ELSE "server") = Session.last
=============================================================================
