------------------------------- MODULE Starttls -------------------------------
(***************************************************************************)
(* internal/certlib/starttls.go: the plaintext dialogue before TLS.  Each  *)
(* protocol is a list of exchanges: what the client sends (nothing, where  *)
(* the server speaks first) and the answer it then reads.  A line of an    *)
(* answer is [ok, last, tls]: whether it has the prefix of a positive      *)
(* answer, whether the answer ends with it, whether it offers STARTTLS.    *)
(***************************************************************************)
EXTENDS Integers, Sequences

Exchange(asks, answer) == [asks |-> asks, answer |-> answer]
starttlsSMTP == << Exchange("nothing", "greeting"), Exchange("EHLO", "caps"), Exchange("STARTTLS", "go") >>
starttlsIMAP == << Exchange("nothing", "greeting"), Exchange("CAPABILITY", "caps"), Exchange("STARTTLS", "go") >>
starttlsPOP3 == << Exchange("nothing", "greeting"), Exchange("STLS", "go") >>
starttlsFTP == << Exchange("nothing", "greeting"), Exchange("AUTH TLS", "go") >>
starttlsLDAP == << Exchange("StartTLS", "go") >>
starttlsMySQL == << Exchange("nothing", "greeting") >>     \* its request for TLS has no answer
starttlsPostgres == << Exchange("SSLRequest", "go") >>
Exchanges ==
  [none |-> <<>>, smtp |-> starttlsSMTP, imap |-> starttlsIMAP, pop3 |-> starttlsPOP3, ftp |-> starttlsFTP,
   ldap |-> starttlsLDAP, mysql |-> starttlsMySQL, postgres |-> starttlsPostgres]

DefaultStarttlsPort ==
  [none |-> 443, smtp |-> 587, imap |-> 143, pop3 |-> 110, ftp |-> 21, ldap |-> 389, mysql |-> 3306, postgres |-> 5432]

ServerSpeaksFirst(proto) == Exchanges[proto] # <<>> /\ Exchanges[proto][1].asks = "nothing"

\* Answers over several lines: SMTP's but the last, FTP's, IMAP's to a tagged command.
SMTPOnly(proto, answer) == proto = "smtp" /\ answer \in {"greeting", "caps"}
OverSeveralLines(proto, answer) ==
  \/ proto = "smtp" /\ answer \in {"greeting", "caps"}
  \/ proto = "imap" /\ answer \in {"caps", "go"}
  \/ proto = "ftp"

\* Whether a negative line ends the dialogue at once.  Lists of capabilities are not
\* looked at for it, and what IMAP says before the tagged line is not either.
Positive(proto, answer, line) ==
  \/ line.ok
  \/ answer = "caps"
  \/ proto = "imap" /\ answer = "go" /\ ~line.last

\* Once an answer is read: has the server offered what is asked of it next?
Offered(proto, answer, offered) ==
  \/ offered
  \/ proto \in {"smtp", "imap"} /\ answer \in {"greeting", "go"}
  \/ proto \notin {"smtp", "imap", "mysql"}

\* What a line read while waiting for an answer leads to.
Reading(proto, answer, line, offered) ==
  IF ~Positive(proto, answer, line) THEN "refused"
  ELSE IF OverSeveralLines(proto, answer) /\ ~line.last THEN "more"
  ELSE IF ~Offered(proto, answer, offered \/ line.tls) THEN "refused" ELSE "next"

\* An IMAP server may offer it with the greeting; it is then not asked for its list.
NextExchange(proto, stage, offered) ==
  IF proto = "imap" /\ stage = 1 /\ offered THEN 3 ELSE stage + 1
===============================================================================
