------------------------------ MODULE FormKinds ------------------------------
(***************************************************************************)
(* internal/tui/form_*.go: the forms of the interface.  For each kind: its *)
(* fields in order, the rules that show and hide them, and what a filled   *)
(* form asks its operation for.  A text is told apart as far as its checks *)
(* and the operation tell it apart: empty, good or bad.                    *)
(***************************************************************************)
EXTENDS Sequences

\* f, and of g what f has not.
f ++ g == [x \in DOMAIN f \union DOMAIN g |-> IF x \in DOMAIN f THEN f[x] ELSE g[x]]

Generate == "Generate new"
Existing == "Use existing"
WithCA == "Sign with CA"
Autosign == "Autosign"

\* A field and what it may hold, the value it opens with first.
Field(name, type, holds) == [name |-> name, type |-> type, holds |-> holds]
NamesOf(fields) == {fields[i].name : i \in DOMAIN fields}
Radio(name, holds) == Field(name, "radio", holds)
Box(name)          == Field(name, "check", <<"false", "true">>)
Line(name, holds)  == Field(name, "text", holds)
Must(name, holds)  == Field(name, "must", holds)
Pick(name)         == Field(name, "pick", <<"", "file">>)
Button             == Field("submit", "button", <<"">>)

SubjectFields ==
    <<Must("cn", <<"", "x", "***">>), Line("org", <<"", "x">>), Line("country", <<"", "x">>),
      Line("extra_dn", <<"", "OU=x", "bad">>), Field("sans", "list", <<"", "x", "bad">>)>>
KeyFields == <<Radio("algo", <<"ECDSA", "RSA", "Ed25519">>), Radio("size", <<"2048", "4096">>),
               Radio("curve", <<"P-256", "P-384", "P-521">>)>>
SigningFields(ways) == <<Radio("signing", ways), Pick("ca_cert"), Pick("ca_key")>>
CertSectionFields ==
    <<Radio("cert_type", <<"Leaf", "CA">>), Line("days", <<"leafDays", "", "30", "bad">>),
      Line("path_len", <<"", "1", "bad">>), Line("permitted_names", <<"", "DNS:x", "bad">>),
      Line("excluded_names", <<"", "DNS:x", "bad">>),
      Field("key_usage", "multi", <<"leaf", "own">>), Field("ext_key_usage", "multi", <<"leaf", "own">>)>>
FormatField == Radio("format", <<"PEM", "DER">>)

CreateKeyFields ==
    KeyFields \o <<FormatField, Box("encrypt"), Must("password", <<"", "p">>), Pick("output"), Button>>
CreateCertFields ==
    SubjectFields \o <<Radio("key_source", <<Generate, Existing>>), Pick("key_path")>> \o KeyFields
    \o SigningFields(<<"Self-signed", WithCA, Autosign>>) \o CertSectionFields
    \o <<Radio("output_mode", <<"Individual files", "Bundle (PEM)">>), FormatField, Box("encrypt_key"),
         Must("encrypt_password", <<"", "p">>), Pick("cert_out"), Pick("key_out"), Pick("bundle_out"), Button>>
CreateCSRFields ==
    SubjectFields \o <<Radio("key_source", <<Generate, Existing>>), Pick("key_path")>> \o KeyFields
    \o <<FormatField, Pick("csr_out"), Pick("key_out"), Button>>
SignCSRFields ==
    SigningFields(<<WithCA, Autosign>>) \o CertSectionFields \o <<FormatField, Pick("output"), Button>>
RenewFields ==
    <<Line("days", <<"leafDays", "", "30", "bad">>), Radio("key_source", <<"Reuse existing", Generate>>),
      Pick("key_path")>> \o KeyFields \o SigningFields(<<"Self-signed", WithCA, Autosign>>)
    \o <<FormatField, Pick("cert_out"), Pick("key_out"), Button>>
ConvertFields ==
    <<Radio("format", <<"PEM", "DER", "PKCS#12", "PKCS#7", "JKS">>), Radio("include", <<"All", "Certificates only", "Keys only">>),
      Line("password", <<"", "p">>), Line("alias", <<"", "a">>), Box("legacy"), Pick("output"), Button>>
ExtractFields == <<Radio("type_filter", <<"All", "Certificates only", "Keys only">>), FormatField, Pick("output_dir"), Button>>
\* A path is told by its extension here: one of the formats, or one that is unknown.
ExtractItemFields == <<FormatField, Field("output_file", "pick", <<"pem", "der", "txt">>), Button>>
ReencryptFields ==
    <<Box("remove_password"), Must("new_password", <<"", "p", "q">>),
      Field("confirm_password", "confirm", <<"", "p", "q">>),
      Radio("output_mode", <<"Overwrite original", "New file">>), Pick("output"), Button>>
RemovePassphraseFields == <<Radio("output_mode", <<"Overwrite original", "New file">>), Pick("output"), Button>>
BundleFields ==
    <<Radio("format", <<"PEM", "PKCS#12", "PKCS#7", "JKS">>), Field("item_aliases", "aliases", <<"", "a", "b", "A">>),
      Field("tip", "note", <<"">>), Field("pkcs12_notice", "note", <<"">>), Line("password", <<"", "p">>),
      Box("legacy"), Pick("output"), Button>>
RemoteFields ==
    <<Must("target", <<"", "host">>),
      Radio("starttls", <<"None", "SMTP", "IMAP", "POP3", "FTP", "LDAP", "MySQL", "PostgreSQL">>),
      Radio("tls_version", <<"Auto", "TLS 1.0", "TLS 1.1", "TLS 1.2", "TLS 1.3">>),
      Line("sni", <<"", "x">>), Radio("ip_version", <<"Any", "IPv4", "IPv6">>), Radio("mtls_mode", <<"None", "PEM cert+key", "PKCS#12", "JKS">>),
      Line("client_cert", <<"", "x">>), Line("client_key", <<"", "x">>), Line("client_p12", <<"", "x">>),
      Line("client_jks", <<"", "x">>), Line("client_alias", <<"", "a">>), Line("client_password", <<"", "p">>), Button>>
ProxyFields == <<Must("proxy_listen", <<"", "at">>), Must("proxy_target", <<"", "host">>),
                 Box("proxy_aggressive"), Button>>
PcapFields == <<Pick("pcap_file"), Box("pcap_aggressive"), Button>>

FieldsOf == [createKey |-> CreateKeyFields, createCert |-> CreateCertFields, createCSR |-> CreateCSRFields,
             signCSR |-> SignCSRFields, renew |-> RenewFields, convert |-> ConvertFields,
             extract |-> ExtractFields, extractItem |-> ExtractItemFields, reencrypt |-> ReencryptFields,
             removePassphrase |-> RemovePassphraseFields, bundle |-> BundleFields, remote |-> RemoteFields,
             proxy |-> ProxyFields, pcap |-> PcapFields]

-------------------------------------------------------------------------------
(* The visibility rules, in the order they are added in: the target is shown *)
(* when the condition holds and the field it depends on is shown.            *)

Rule(target, on, when) == [target |-> target, on |-> on, when |-> when]

KeySourceRules(v, pathWhen) ==
    LET generate == v.key_source = Generate
        rsa == generate /\ v.algo = "RSA"
        ecdsa == generate /\ v.algo = "ECDSA"
    IN <<Rule("key_path", "key_source", v.key_source = pathWhen), Rule("algo", "key_source", generate),
         Rule("size", "algo", rsa), Rule("size", "key_source", rsa),
         Rule("curve", "algo", ecdsa), Rule("curve", "key_source", ecdsa)>>
SigningRules(v) ==
    <<Rule("ca_cert", "signing", v.signing = WithCA), Rule("ca_key", "signing", v.signing = WithCA)>>
CertSectionRules(v) ==
    LET ca(name) == Rule(name, "cert_type", v.cert_type = "CA")
    IN <<ca("path_len"), ca("permitted_names"), ca("excluded_names")>>
KeyOutRules(v) == <<Rule("key_out", "key_source", v.key_source = Generate)>>

CreateKeyRules(v) ==
    <<Rule("size", "algo", v.algo = "RSA"), Rule("curve", "algo", v.algo = "ECDSA"),
      Rule("encrypt", "format", v.format = "PEM"), Rule("password", "encrypt", v.encrypt = "true")>>
EncryptRules(v) ==
    LET may == v.key_source = Generate /\ (v.output_mode = "Bundle (PEM)" \/ v.format = "PEM")
    IN <<Rule("encrypt_key", "key_source", may), Rule("encrypt_key", "output_mode", may),
         Rule("encrypt_key", "format", may)>>
EncryptPasswordRules(v) == <<Rule("encrypt_password", "encrypt_key", v.encrypt_key = "true")>>
OutputRules(v) ==
    LET files == v.output_mode = "Individual files"
        keyFile == files /\ v.key_source = Generate
    IN <<Rule("format", "output_mode", files), Rule("cert_out", "output_mode", files),
         Rule("key_out", "output_mode", keyFile), Rule("key_out", "key_source", keyFile),
         Rule("bundle_out", "output_mode", ~files)>>
\* Mutant: the password asks for its rule before the box it depends on.
PasswordAskedFirst(v) ==
    CertSectionRules(v) \o KeySourceRules(v, Existing) \o SigningRules(v) \o OutputRules(v)
    \o EncryptPasswordRules(v) \o EncryptRules(v)
CreateCertRules(v) ==
    CertSectionRules(v) \o KeySourceRules(v, Existing) \o SigningRules(v) \o OutputRules(v)
    \o EncryptRules(v) \o EncryptPasswordRules(v)
CreateCSRRules(v) == KeySourceRules(v, Existing) \o KeyOutRules(v)
SignCSRRules(v) == CertSectionRules(v) \o SigningRules(v)
RenewRules(v) == KeySourceRules(v, "Reuse existing") \o SigningRules(v) \o KeyOutRules(v)
ConvertRules(v) ==
    <<Rule("password", "format", v.format \in {"PKCS#12", "JKS"}), Rule("alias", "format", v.format = "JKS"),
      Rule("legacy", "format", v.format = "PKCS#12")>>
NewFileRules(v) == <<Rule("output", "output_mode", v.output_mode = "New file")>>
ReencryptPasswordRules(v) ==
    <<Rule("new_password", "remove_password", v.remove_password # "true"),
      Rule("confirm_password", "remove_password", v.remove_password # "true")>>
ReencryptRules(v) == ReencryptPasswordRules(v) \o NewFileRules(v)
BundleRules(v) ==
    <<Rule("pkcs12_notice", "format", v.format = "PKCS#12"),
      Rule("password", "format", v.format \in {"PKCS#12", "JKS"}), Rule("legacy", "format", v.format = "PKCS#12")>>
RemoteRules(v) ==
    LET client(name, modes) == Rule(name, "mtls_mode", v.mtls_mode \in modes)
    IN <<client("client_cert", {"PEM cert+key"}), client("client_key", {"PEM cert+key"}),
         client("client_p12", {"PKCS#12"}), client("client_jks", {"JKS"}),
         client("client_alias", {"PKCS#12", "JKS"}), client("client_password", {"PEM cert+key", "PKCS#12", "JKS"})>>

RulesOf(kind, v) ==
    CASE kind = "createKey" -> CreateKeyRules(v)
      [] kind = "createCert" -> CreateCertRules(v)
      [] kind = "createCSR" -> CreateCSRRules(v)
      [] kind = "signCSR" -> SignCSRRules(v)
      [] kind = "renew" -> RenewRules(v)
      [] kind = "convert" -> ConvertRules(v)
      [] kind = "reencrypt" -> ReencryptRules(v)
      [] kind = "removePassphrase" -> NewFileRules(v)
      [] kind = "bundle" -> BundleRules(v)
      [] kind = "remote" -> RemoteRules(v)
      [] OTHER -> <<>>

-------------------------------------------------------------------------------
(* What the operation is asked for: only what it reads.                      *)

When(condition, options) == IF condition THEN options ELSE <<>>
EffectiveValue(v, shown, name) == IF name \in shown THEN v[name] ELSE ""
OrSuggested(path) == IF path = "" THEN "suggested" ELSE path
Days(v) == IF v.days \in {"", "bad"} THEN "365" ELSE v.days

KeyGenOptions(v) ==
    [algo |-> v.algo] ++ When(v.algo = "RSA", [size |-> v.size]) ++ When(v.algo = "ECDSA", [curve |-> v.curve])
SubjectOptions(v) ==
    [cn |-> v.cn, org |-> v.org, country |-> v.country, extra_dn |-> v.extra_dn, sans |-> v.sans]
\* Autosign looks for a certificate authority and its key in the directories.
SignerOptions(v) ==
    When(v.signing = WithCA, [ca_cert |-> v.ca_cert, ca_key |-> v.ca_key])
    ++ When(v.signing = Autosign, [ca_cert |-> "found", ca_key |-> "found"])
UsageOptions(v) == [ku |-> v.key_usage, eku |-> v.ext_key_usage, days |-> Days(v)]

CreateKeyOptions(v, shown) ==
    KeyGenOptions(v) ++ [output |-> v.output, format |-> v.format]
    ++ When(EffectiveValue(v, shown, "encrypt") = "true", [password |-> EffectiveValue(v, shown, "password")])
CreateCertOptions(v, shown) ==
    LET bundle == v.output_mode = "Bundle (PEM)"
    IN SubjectOptions(v) ++ UsageOptions(v) ++ [isCA |-> v.cert_type = "CA"]
       ++ When(v.cert_type = "CA",
               [path_len |-> v.path_len, permitted |-> v.permitted_names, excluded |-> v.excluded_names])
       ++ When(bundle, [output |-> OrSuggested(v.bundle_out)])
       ++ When(~bundle, [output |-> OrSuggested(v.cert_out), format |-> v.format])
       ++ When(v.key_source = Existing, [key |-> v.key_path])
       ++ When(v.key_source = Generate, KeyGenOptions(v))
       ++ When(v.key_source = Generate /\ ~bundle, [keyOutput |-> OrSuggested(v.key_out)])
       ++ When(v.key_source = Generate /\ EffectiveValue(v, shown, "encrypt_key") = "true",
               [password |-> EffectiveValue(v, shown, "encrypt_password")])
       ++ SignerOptions(v)
CreateCSROptions(v) ==
    LET path(name) == IF v[name] = "" /\ v.cn = "x" THEN "suggested" ELSE v[name]
    IN SubjectOptions(v) ++ [output |-> path("csr_out"), format |-> v.format]
       ++ When(v.key_source = Existing, [key |-> v.key_path])
       ++ When(v.key_source = Generate, KeyGenOptions(v) ++ [keyOutput |-> path("key_out")])
\* The names a certificate authority is limited to are shown here too, and not read.
SignCSROptions(v) ==
    UsageOptions(v) ++ [isCA |-> v.cert_type = "CA", output |-> OrSuggested(v.output), format |-> v.format]
    ++ When(v.cert_type = "CA", [path_len |-> v.path_len]) ++ SignerOptions(v)
RenewOptions(v) ==
    [days |-> Days(v), output |-> v.cert_out, format |-> v.format] ++ SignerOptions(v)
    ++ When(v.key_source # Generate, [key |-> v.key_path])
    ++ When(v.key_source = Generate, KeyGenOptions(v) ++ [keyOutput |-> v.key_out])
\* The form passes everything on; the encoder of a format reads what it needs.
EncodeOptions(v) ==
    [format |-> v.format, output |-> v.output]
    ++ When(v.format \in {"PKCS#12", "JKS"}, [outputPassword |-> v.password])
    ++ When(v.format = "PKCS#12", [legacy |-> v.legacy])
ConvertOptions(v) ==
    EncodeOptions(v) ++ [include |-> v.include] ++ When(v.format = "JKS", [alias |-> v.alias])
ExtractOptions(v) == [output |-> v.output_dir, format |-> v.format, filter |-> v.type_filter]
ExtractItemOptions(v) == [output |-> v.output_file, format |-> v.format]
NewFileOptions(v) == [output |-> IF v.output_mode = "Overwrite original" THEN "original" ELSE v.output]
ReencryptOptions(v) == NewFileOptions(v) ++ When(v.remove_password # "true", [password |-> v.new_password])
BundleOptions(v) == EncodeOptions(v) ++ When(v.format = "JKS", [aliases |-> v.item_aliases])
ClientOptions(v) ==
    When(v.mtls_mode # "None", [outputPassword |-> v.client_password])
    ++ When(v.mtls_mode = "PEM cert+key", [cert |-> v.client_cert, key |-> v.client_key])
    ++ When(v.mtls_mode = "PKCS#12", [container |-> v.client_p12, alias |-> v.client_alias])
    ++ When(v.mtls_mode = "JKS", [container |-> v.client_jks, alias |-> v.client_alias])
RemoteOptions(v) ==
    [target |-> v.target, starttls |-> v.starttls, tls_version |-> v.tls_version, sni |-> v.sni,
     ip_version |-> v.ip_version] ++ ClientOptions(v)
ProxyOptions(v) == [listen |-> v.proxy_listen, target |-> v.proxy_target, aggressive |-> v.proxy_aggressive]
PcapOptions(v) == [file |-> v.pcap_file, aggressive |-> v.pcap_aggressive]

OptionsOf(kind, v, shown) ==
    CASE kind = "createKey" -> CreateKeyOptions(v, shown)
      [] kind = "createCert" -> CreateCertOptions(v, shown)
      [] kind = "createCSR" -> CreateCSROptions(v)
      [] kind = "signCSR" -> SignCSROptions(v)
      [] kind = "renew" -> RenewOptions(v)
      [] kind = "convert" -> ConvertOptions(v)
      [] kind = "extract" -> ExtractOptions(v)
      [] kind = "extractItem" -> ExtractItemOptions(v)
      [] kind = "reencrypt" -> ReencryptOptions(v)
      [] kind = "removePassphrase" -> NewFileOptions(v)
      [] kind = "bundle" -> BundleOptions(v)
      [] kind = "remote" -> RemoteOptions(v)
      [] kind = "proxy" -> ProxyOptions(v)
      [] kind = "pcap" -> PcapOptions(v)

\* What an operation cannot do without.
Needed == {"cn", "output", "keyOutput", "key", "ca_cert", "ca_key", "password", "target", "cert", "container",
           "listen", "file"}
Lacks(options) == \E name \in Needed \cap DOMAIN options : options[name] = ""
=============================================================================
