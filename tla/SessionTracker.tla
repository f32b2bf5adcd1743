---------------------------- MODULE SessionTracker ----------------------------
(***************************************************************************)
(* pkg/packet_anal/session/tracker.go: what the tracker makes of the two   *)
(* byte streams of a connection.  A stream is a sequence of records, each  *)
(* named for what it carries; "text" stands for bytes that are not TLS.    *)
(*                                                                         *)
(* The states of a session are ordered and only ever raised, except that   *)
(* an alert forces Failed and application data forces Established; so the  *)
(* state after a stream depends on which records occur in it, and the      *)
(* definitions below are over that set.                                    *)
(***************************************************************************)
EXTENDS Naturals, Sequences, SequencesExt, FiniteSetsExt

States == <<"ClientHello", "ServerHello", "Certificate", "ServerHelloDone", "ClientKeyExchange",
            "ClientCCS", "ServerCCS", "Established", "Failed", "Aborted">>
Init0 == 0
Established == 8
Failed == 9
Aborted == 10

\* ContentHandshake records by message ("enc": an encrypted Finished, which
\* parses as no message), and the other content types.  A TLS 1.2 alert after
\* the keys are in use is encrypted, but keeps its content type.
Handshake == {"CH", "SH12", "SH13", "CERT", "SHD", "CKX", "enc"}
Alerts    == {"alert", "encAlert"}
Records   == Handshake \cup Alerts \cup {"CCS", "app"}

\* findTLSData: the stream itself, or in aggressive mode the stream from its
\* first hello record on; <<>> stands for none.
StartsTLS(data) == data # <<>> /\ data[1] \in Records
AtStart(data, aggressive) == IF StartsTLS(data) THEN data ELSE <<>>
FindTLSData(data, aggressive) ==
  LET hellos == {i \in DOMAIN data : data[i] \in {"CH", "SH12", "SH13"}}
  IN IF StartsTLS(data) THEN data
     ELSE IF aggressive /\ hellos # {} THEN SubSeq(data, Min(hellos), Len(data)) ELSE <<>>

\* ParseRecords stops at the first bytes that are no record.
ParseRecords(data) ==
  {data[i] : i \in {j \in DOMAIN data : \A k \in 1..j : data[k] \in Records}}

\* maxState for the records and messages that only raise the state.
RankLoose(rec, direction) == IF rec = "CCS" THEN 8 ELSE IF rec = "CH" THEN 1 ELSE Init0
Rank(rec, direction) ==
  CASE rec = "CH" -> 1 [] rec \in {"SH12", "SH13"} -> 2
    [] rec = "CERT" /\ direction = "server" -> 3
    [] rec = "SHD" -> 4 [] rec = "CKX" -> 5
    [] rec = "CCS" -> IF direction = "client" THEN 6 ELSE 7
    [] OTHER -> Init0

\* parseDirection and parseHandshakeMessages.
AppWins(state, recs, direction) == IF "app" \in recs THEN Established ELSE IF recs \cap Alerts # {} THEN Failed ELSE state
Raise(state, recs, direction) ==
  IF state = Failed \/ recs \cap Alerts # {} THEN Failed
  ELSE IF "app" \in recs THEN Established
  ELSE Max({state} \cup {Rank(r, direction) : r \in recs})

SawHello(recs)   == "CH" \in recs
LegacyVersion(recs) == IF recs \cap {"SH12", "SH13"} # {} THEN "1.2" ELSE "--"
ServerVersion(recs) == IF "SH13" \in recs THEN "1.3" ELSE IF "SH12" \in recs THEN "1.2" ELSE "--"

\* The certificate in the clear is taken from the server's side only.
PlainCertEither(c, s) == "CERT" \in c \cup s
PlainCert(c, s) == "CERT" \in s

\* maybeDecryptTLS13 needs both hellos, the server's bytes and the secrets.
Decrypts(c, s, version, keylog) ==
  version = "1.3" /\ ~PlainCert(c, s) /\ SawHello(c \cup s) /\ keylog /\ {"SH13", "app"} \subseteq s

\* finalize; lastMeaningfulState walks down from ServerCCS and takes the first
\* state that the final state is not below.
Finalize(state, ended) ==
  CASE state = Established -> "OK" [] state = Failed -> "FAILED"
    [] ended -> "ABORTED" [] OTHER -> "INCOMPLETE"

LastMeaningful(final) == Min({7, final})

\* processConnection: [reported |-> FALSE] for nil.  keylog says whether the
\* secrets of the connection are known.
Process(data, fin, aggressive, keylog) ==
  LET clientData == FindTLSData(data["client"], aggressive)
      serverData == FindTLSData(data["server"], aggressive)
      c == ParseRecords(clientData)
      s == ParseRecords(serverData)
      parsed == Raise(Raise(Init0, c, "client"), s, "server")
      version == IF ServerVersion(s) # "--" THEN ServerVersion(s) ELSE ServerVersion(c)
      decrypted == Decrypts(c, s, version, keylog)
      state == IF decrypted THEN Max({parsed, 3}) ELSE parsed
      status == Finalize(state, fin["client"] \/ fin["server"])
      final == IF status = "ABORTED" THEN Aborted ELSE state
  IN [reported |-> clientData # <<>> \/ serverData # <<>>,
      state |-> state, status |-> status, version |-> version,
      last |-> LastMeaningful(final),
      hello |-> SawHello(c \cup s),
      certs |-> PlainCert(c, s) \/ decrypted,
      alertFrom |-> IF s \cap Alerts # {} THEN "server" ELSE IF c \cap Alerts # {} THEN "client" ELSE "nobody"]
=============================================================================
