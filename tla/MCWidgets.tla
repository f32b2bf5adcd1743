------------------------------ MODULE MCWidgets ------------------------------
(***************************************************************************)
(* Browser on three small directories, and, in scenarios of their own, the *)
(* file dialog, while which the interface that opened it is suspended, and *)
(* the forms, which take every key while one is open.                      *)
(***************************************************************************)
EXTENDS Browser, FilePicker, Form, TLC

It(id, cert, locked, words, label, sans) ==
    [id |-> id, cert |-> cert, locked |-> locked, words |-> words, label |-> label, sans |-> sans]
File(name, bundle, source, errors, label, items) ==
    [name |-> name, bundle |-> bundle, relationsOnly |-> source = "aia", source |-> source,
     passwordErrors |-> errors, words |-> {name}, label |-> label, items |-> items]

Leaf == It("leaf", "L", FALSE, {"leaf"}, 8, <<11>>)
Inter == It("inter", "I", FALSE, {"ca"}, 8, <<>>)
InterCopy == [Inter EXCEPT !.id = "interCopy"]
Key1 == It("key", "none", TRUE, {"locked"}, 5, <<>>)
Root == It("root", "R", FALSE, {"ca"}, 8, <<>>)
Wide == It("wide", "W", FALSE, {"leaf"}, 26, <<40, 12, 9>>)

MCScenarios == {"scroller", "reader", "selector", "picker", "form"}
OnlyReader == {"reader"}
MCFilesIn ==
    [scroller |-> <<File("pem", TRUE, "file", FALSE, 7, <<Wide, Inter>>),
                    File("der", FALSE, "file", FALSE, 31, <<Leaf>>),
                    File("p12", TRUE, "file", TRUE, 7, <<>>)>>,
     reader |-> <<File("leafpem", FALSE, "file", FALSE, 8, <<Leaf>>),
                  File("jks", TRUE, "file", FALSE, 8, <<Inter>>),
                  File("aia", FALSE, "aia", FALSE, 8, <<Root>>)>>,
     selector |-> <<File("bundle", TRUE, "file", FALSE, 8, <<Leaf, InterCopy>>),
                    File("jks", TRUE, "file", FALSE, 8, <<Inter, Key1>>),
                    File("aia", FALSE, "aia", FALSE, 8, <<Root>>)>>,
     picker |-> <<File("der", FALSE, "file", FALSE, 8, <<Leaf>>)>>,
     form |-> <<File("der", FALSE, "file", FALSE, 8, <<Leaf>>)>>]
MCSkippedIn ==
    [scroller |-> <<{"skipped"}>>, reader |-> <<>>, selector |-> <<{"skipped"}>>, picker |-> <<>>, form |-> <<>>]
MCKeysIn == [scroller |-> {"move", "fold", "search", "wrap", "size", "columns", "options", "detail"},
             reader |-> {"move", "fold", "search", "detail", "relations"},
             selector |-> {"move", "fold", "search", "select", "delete", "rescan"},
              picker |-> {}, form |-> {}]
MCGoneIn == [scroller |-> {}, reader |-> {}, selector |-> {"jks"}, picker |-> {}, form |-> {}]
Size(w, full, half) == [w |-> w, full |-> full, half |-> half]
MCSizesIn == [scroller |-> {Size(80, 4, 2), Size(44, 2, 0)}, reader |-> {Size(80, 3, 2)},
              selector |-> {Size(80, 6, 3)}, picker |-> {Size(80, 6, 3)},
              form |-> {Size(80, 6, 3)}]
MCWordsIn == [scroller |-> {"leaf", "jks"}, reader |-> {"leaf"}, selector |-> {"leaf"},
              picker |-> {"leaf"}, form |-> {"leaf"}]
To(kind, id) == [kind |-> kind, id |-> id]
MCPeers == [id \in {"leaf", "inter", "interCopy", "key", "root", "wide"} |->
    CASE id = "leaf" -> <<To("signedBy", "inter"), To("signedBy", "interCopy"), To("key", "key")>>
      [] id \in {"inter", "interCopy"} -> <<To("signedBy", "root"), To("issuerOf", "leaf")>>
      [] id = "root" -> <<To("issuerOf", "inter")>>
      [] OTHER -> <<>>]

(* The file dialog: a directory with a sub-directory, a link to it, one that *)
(* cannot be listed, and files, one of them hidden; a directory the user     *)
(* makes is a third completion in a list of two lines.                       *)

E(d, name, kind, to, common, initial) ==
    [dir |-> d, name |-> name, kind |-> kind, to |-> to, hidden |-> initial = ".",
     common |-> common, initial |-> initial,
     prefixes |-> IF name \in {"sub", "sealed"} THEN <<"", "s">> ELSE <<"">>]
MCTree == <<E("top", "work", "dir", "work", 0, "w"),
            E("work", ".h.pem", "file", "none", 0, "."),
            E("work", "a.pem", "file", "none", 1, "a"),
            E("work", "b.txt", "file", "none", 0, "b"),
            E("work", "link", "link", "sub", 0, "l"),
            E("work", "new", "dir", "new", 0, "n"),
            E("work", "sealed", "dir", "sealed", 0, "s"),
            E("work", "sub", "dir", "sub", 1, "s"),
            E("sub", "c.pem", "file", "none", 1, "c"),
            E("sub", "n.txt", "file", "none", 0, "n")>>
MCAtFirst == {1, 2, 3, 4, 5, 7, 8, 9, 10}
MCOthers == {3, 8}
Asks(dialog, keys) == [dialog |-> dialog, keys |-> keys \union {"move", "enter", "focus"}]
MCSessions ==
    {Asks("openField", {"switch", "others"}),
     Asks("openField", {"path", "escape", "bookmarks"}),
     [dialog |-> "openSeveral", keys |-> {"tick", "switch", "move", "enter"}],
     Asks("openSeveral", {"tick", "resize"}),
     [dialog |-> "directoryField", keys |-> {"newdir", "path"}],
     Asks("directoryField", {"newdir", "search", "escape", "quit"}),
     Asks("saveField", {"type"}),
     Asks("saveChain", {"type", "switch"}),
     Asks("verifyFile", {"path", "escape", "bookmarks"}),
     Asks("saveCertificate", {"type", "path", "escape"}),
     [dialog |-> "saveNew", keys |-> {"type", "others", "enter", "focus"}],
     Asks("saveStrict", {"type"})}
MCPem == {"a.pem", "c.pem", ".h.pem"}
In(d, base) == [dir |-> d, base |-> base]
MCTyped == {In("", "a.pem"), In("", "b.txt"), In("", ""), In("sub", "c.pem"), In("sealed", "d.txt")}
At(d, name) == [dir |-> d, name |-> name]
MCPaths == {At("work", "s"), At("work", "b.txt"), At("sub", "c.pem"), At("sealed", "c.pem"),
            At("top", "")}

(* The forms: what each opens with, and the fields that are filled in it. *)

Opens(kind, opens, changes) == [kind |-> kind, opens |-> opens, changes |-> changes]
MCFormSessions ==
    {Opens("createKey", <<>>, {"algo", "format", "encrypt", "password", "output"}),
     Opens("createCert", <<>>, {"cn", "key_source", "key_path", "algo", "output_mode"}),
     Opens("createCert", [algo |-> "RSA"], {"cn", "key_source", "output_mode", "format", "encrypt_key", "encrypt_password"}),
     Opens("createCert", [key_source |-> Existing, key_path |-> "file"], {"cn", "signing", "ca_cert", "ca_key"}),
     Opens("createCert", [cn |-> "x", cert_type |-> "CA", key_usage |-> "own", ext_key_usage |-> "own"],
           {"cert_type", "days", "path_len", "key_usage"}),
     Opens("createCSR", <<>>, {"cn", "sans", "key_source", "key_path"}),
     Opens("createCSR", [extra_dn |-> "OU=x", sans |-> <<"x">>], {"cn", "extra_dn", "format", "csr_out", "key_out"}),
     Opens("signCSR", <<>>, {"signing", "ca_cert", "ca_key", "cert_type", "permitted_names"}),
     Opens("renew", <<>>, {"days", "key_source", "key_path", "key_out", "cert_out"}),
     Opens("renew", [key_path |-> "file", cert_out |-> "file"], {"key_source", "algo", "signing", "ca_cert", "ca_key"}),
     Opens("convert", <<>>, {"format", "password", "alias", "legacy", "output"}),
     Opens("extract", [output_dir |-> "file"], {"type_filter", "format"}),
     Opens("extractItem", <<>>, {"format", "output_file"}),
     Opens("reencrypt", <<>>, {"remove_password", "new_password", "confirm_password", "output_mode", "output"}),
     Opens("removePassphrase", <<>>, {"output_mode", "output"}),
     Opens("bundle", [item_aliases |-> <<"a", "b", "key">>], {"format", "item_aliases", "output"}),
     Opens("bundle", [item_aliases |-> <<"key">>], {"format", "password", "legacy", "output"}),
     Opens("remote", <<>>, {"target", "mtls_mode", "client_key", "client_p12", "client_alias", "client_password"}),
     Opens("remote", [target |-> "host"], {"tls_version", "sni", "ip_version"}),
     Opens("proxy", <<>>, {"proxy_listen", "proxy_target", "proxy_aggressive"}),
     Opens("pcap", <<>>, {"pcap_file", "pcap_aggressive"})}

\* No dialog is open: one whose keys nobody presses.
NoDialog == [dialog |-> "openField", keys |-> {}]
\* No form is open.
NoForm == form = NewForm(Opens("extract", <<>>, {})) /\ formPhase = "closed" /\ request = NoRequest

WidgetsInit ==
    /\ Init
    /\ IF scenario = "picker" THEN PickerInit ELSE NewPickerModel(NoDialog)
    /\ "resize" \notin session.keys => height = MinBox
    /\ IF scenario = "form" THEN FormInit ELSE NoForm

BrowserAlone == UNCHANGED <<pickerVars, formVars>>
PickerAlone == UNCHANGED <<vars, formVars>>
FormAlone == UNCHANGED <<vars, pickerVars>>

WidgetsNext ==
    \/ Move /\ BrowserAlone
    \/ Fold /\ BrowserAlone
    \/ FoldAll /\ BrowserAlone
    \/ OpenSearch /\ BrowserAlone
    \/ TypeSearch /\ BrowserAlone
    \/ CloseSearch /\ BrowserAlone
    \/ WordWrap /\ BrowserAlone
    \/ WindowSize /\ BrowserAlone
    \/ ToggleColumn /\ BrowserAlone
    \/ DisplayOption /\ BrowserAlone
    \/ OpenDetail /\ BrowserAlone
    \/ OpenBeside /\ BrowserAlone
    \/ CloseDetail /\ BrowserAlone
    \/ Tab /\ BrowserAlone
    \/ DetailMove /\ BrowserAlone
    \/ Follow /\ BrowserAlone
    \/ Back /\ BrowserAlone
    \/ Forward /\ BrowserAlone
    \/ Vanish /\ BrowserAlone
    \/ Rescan /\ BrowserAlone
    \/ ScanDone /\ BrowserAlone
    \/ ScanFailed /\ BrowserAlone
    \/ OpenMultiSelect /\ BrowserAlone
    \/ CloseMultiSelect /\ BrowserAlone
    \/ Space /\ BrowserAlone
    \/ AutoChain /\ BrowserAlone
    \/ AskDelete /\ BrowserAlone
    \/ Decline /\ BrowserAlone
    \/ Delete /\ BrowserAlone
    \/ MoveCursor /\ PickerAlone
    \/ Search /\ PickerAlone
    \/ Up /\ PickerAlone
    \/ Tick /\ PickerAlone
    \/ ActivateEntry /\ PickerAlone
    \/ Escape /\ PickerAlone
    \/ CycleFocus /\ PickerAlone
    \/ Switch /\ PickerAlone
    \/ Accept /\ PickerAlone
    \/ TypeName /\ PickerAlone
    \/ AnswerConfirm /\ PickerAlone
    \/ CloseAlert /\ PickerAlone
    \/ OpenPathModal /\ PickerAlone
    \/ EditPath /\ PickerAlone
    \/ CommitPath /\ PickerAlone
    \/ Bookmarks /\ PickerAlone
    \/ NewDir /\ PickerAlone
    \/ CloseModal /\ PickerAlone
    \/ Resize /\ PickerAlone
    \/ OtherProcess /\ PickerAlone
    \/ TabForm /\ FormAlone
    \/ Arrow /\ FormAlone
    \/ Choose /\ FormAlone
    \/ TypeText /\ FormAlone
    \/ TypeRow /\ FormAlone
    \/ AddRow /\ FormAlone
    \/ RemoveRow /\ FormAlone
    \/ TypeAlias /\ FormAlone
    \/ PickFile /\ FormAlone
    \/ Submit /\ FormAlone
    \/ EscForm /\ FormAlone
    \/ AnswerDiscard /\ FormAlone
    \/ AnswerOverwrite /\ FormAlone
    \/ FormResult /\ FormAlone

WidgetsSpec == WidgetsInit /\ [][WidgetsNext]_<<vars, pickerVars, formVars>>

\* The tables of rows, of what a filter leaves and of heights; comparing them
\* makes TLC work them out once.
ASSUME TablesAssumption ==
    /\ AllNodes = AllNodes /\ AllVisible = AllVisible
    /\ HeightOf = HeightOf /\ LinesAbove = LinesAbove /\ RelationIndex = RelationIndex
=============================================================================
