-------------------------------- MODULE MCScan --------------------------------
(* Model-checking instance of Scan: trees of two entries taken from a      *)
(* catalogue that has every kind of entry, format and lock once.            *)
EXTENDS Scan

Item(kind, lock) == [kind |-> kind, lock |-> lock]
Content(fmt, lock, items) == [fmt |-> fmt, lock |-> lock, items |-> items]
File(ext, bound, content) ==
  [kind |-> "file", ext |-> ext, big |-> FALSE, depth |-> 0, bound |-> bound, content |-> content]

Cert == Content("PEM", Plain, <<Item("cert", Plain)>>)
TwoKeys == Content("PEM", Plain, <<Item("key", "p1"), Item("malformed", Plain), Item("key", "p2")>>)
Files ==
  { File("pem", FALSE, Cert), File("txt", FALSE, Cert),
    File("pem", TRUE, TwoKeys),
    File("pem", FALSE, Content("DER", Plain, <<Item("cert", Plain)>>)),
    File("csr", FALSE, Content("DER", Plain, <<Item("csr", Plain)>>)),
    File("p12", FALSE, Content("PKCS12", "p2", <<Item("cert", Plain), Item("key", Plain)>>)),
    File("txt", FALSE, Content("PKCS12", Empty, <<Item("cert", Plain)>>)),
    File("jks", TRUE, Content("JKS", "p1", <<Item("cert", Plain), Item("key", "x"), Item("key", "p2")>>)),
    File("p7b", FALSE, Content("PKCS7", Plain, <<Item("cert", Plain)>>)),
    File("csr", FALSE, Content("junk", Plain, <<>>)),
    File("pem", FALSE, Content("PEM", Plain, <<Item("ignored", Plain)>>)) }
Mislabelled == { File("p12", FALSE, Cert), File("jks", FALSE, Content("PKCS12", "p1", <<Item("cert", Plain)>>)) }
Others ==
  LET cert == File("pem", FALSE, Cert)
  IN  { [cert EXCEPT !.kind = k] : k \in {"link", "broken", "linkdir", "special", "unreadable", "dir"} }
      \cup { [cert EXCEPT !.big = TRUE], [cert EXCEPT !.depth = 1],
             [cert EXCEPT !.depth = 2, !.kind = "link", !.big = TRUE] }

MCTrees == { <<a, b>> : a \in Files \cup Mislabelled \cup Others, b \in Files \cup Mislabelled \cup Others }
Setting(named, signature, recursive, maxDepth, noTryAll, interactive) ==
  [named |-> named, signature |-> signature, recursive |-> recursive, maxDepth |-> maxDepth,
   noTryAll |-> noTryAll, interactive |-> interactive]
MCSettings ==
  { Setting(FALSE, FALSE, TRUE, 0, FALSE, TRUE), Setting(FALSE, FALSE, TRUE, 2, TRUE, TRUE),
    Setting(FALSE, TRUE, FALSE, 0, FALSE, FALSE), Setting(TRUE, FALSE, FALSE, 0, TRUE, TRUE),
    Setting(TRUE, TRUE, FALSE, 0, FALSE, TRUE) }
MCProvided ==
  [s \in Sources |->
     CASE s = "by_filename" -> <<"p1">> [] s = "built-in" -> <<"changeit">> [] s = "arg" -> <<"x">> [] OTHER -> <<>>]

\* A named path is an existing file.
MCInit == ScanInit /\ (opts.named => tree[1].kind = "file" /\ tree[1].depth = 0 /\ ~tree[1].big)
MCSpec == MCInit /\ [][ScanNext]_scanVars
===============================================================================
