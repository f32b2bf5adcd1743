-------------------------------- MODULE Form --------------------------------
(***************************************************************************)
(* internal/tui/form.go, formfield.go, model_menu.go: one form from its    *)
(* opening to the end of the operation it asks for.  Every key ends in     *)
(* evaluateVisibility, which shows and hides fields by the rules, puts     *)
(* defaults in when the type of certificate changes, calls back, and moves *)
(* the focus off a field that is hidden.                                   *)
(***************************************************************************)
EXTENDS Integers, FiniteSets, SequencesExt, FormKinds

CONSTANTS FormSessions,  \* forms opened: their kind, what they open with, and the fields changed
          MaxRows        \* bound: rows of a list

\* What a form opens with are values of its fields; the form of a bundle lists its items.
ASSUME FormAssumption ==
    \A s \in FormSessions :
        /\ s.kind \in DOMAIN FieldsOf
        /\ DOMAIN s.opens \subseteq NamesOf(FieldsOf[s.kind])
        /\ "sans" \in DOMAIN s.opens => s.opens.sans \in Seq(STRING) \ {<<>>}
        /\ s.kind = "bundle" => "item_aliases" \in DOMAIN s.opens /\ s.opens.item_aliases \in Seq(STRING)
        /\ \A field \in ToSet(FieldsOf[s.kind]) :
             field.type = "radio" /\ field.name \in DOMAIN s.opens => s.opens[field.name] \in ToSet(field.holds)

VARIABLES form,       \* values, their initial ones, what is shown, focus and row
          formPhase,  \* edit, discard or overwrite (a question), sent, done, closed
          request     \* what was submitted, until its answer

formVars == <<form, formPhase, request>>

FieldAt(f, i) == FieldsOf[f.kind][i]
Places(f) == DOMAIN FieldsOf[f.kind]
Aliasable(f) == {i \in DOMAIN f.v.item_aliases : f.v.item_aliases[i] # "key"}

\* Visible and Focusable of the kinds of fields.
Stops(f, i) ==
    /\ FieldAt(f, i).name \in f.shown
    /\ FieldAt(f, i).type # "note"
    /\ FieldAt(f, i).type = "aliases" => f.v.format = "JKS" /\ Aliasable(f) # {}

\* nextFocusable (d = 1), prevFocusable (d = -1).
Neighbour(f, d) ==
    LET n == Len(FieldsOf[f.kind])
        around(k) == LET i == IF d = 1 THEN f.focus + k ELSE f.focus - k
                     IN IF i > n THEN i - n ELSE IF i < 1 THEN i + n ELSE i
        stops == {k \in 1..n : Stops(f, around(k))}
    IN IF stops = {} THEN f.focus
       ELSE around(CHOOSE k \in stops : \A other \in stops : k <= other)

\* What is shown once the rules were applied in their order: of several rules for one
\* field, one is enough.
Applied(rules, shown) ==
    LET after[k \in 0..Len(rules)] ==
          IF k = 0 THEN shown
          ELSE LET before == after[k - 1]
                   rule == rules[k]
                   seen == \E j \in 1..(k - 1) : rules[j].target = rule.target
               IN IF (rule.when /\ rule.on \in before) \/ (seen /\ rule.target \in before)
                  THEN before \union {rule.target} ELSE before \ {rule.target}
    IN after[Len(rules)]
ShownBy(f) == Applied(RulesOf(f.kind, f.v), f.shown)

Set(f, new) == [f EXCEPT !.v = new ++ @, !.initial = new ++ @]
\* The value rules of the certificate section.
Defaults(f) ==
    IF "cert_type" \notin DOMAIN f.v \/ f.v.cert_type = f.last THEN f
    ELSE LET ca == f.v.cert_type = "CA"
         IN [Set(f, [days |-> IF ca THEN "caDays" ELSE "leafDays", key_usage |-> IF ca THEN "ca" ELSE "leaf",
                     ext_key_usage |-> IF ca THEN "none" ELSE "leaf"]) EXCEPT !.last = f.v.cert_type]
ExtOf(format) == IF format = "PEM" THEN "pem" ELSE "der"
\* The callback of the form that extracts one item.
RewriteOutputExt(f) ==
    IF f.kind = "extractItem" /\ f.v.output_file \in {"pem", "der"}
    THEN Set(f, [output_file |-> ExtOf(f.v.format)]) ELSE f
Advance(f) == IF Stops(f, f.focus) THEN f ELSE [f EXCEPT !.focus = Neighbour(f, 1)]
EvaluateVisibility(f) == Advance(RewriteOutputExt(Defaults([f EXCEPT !.shown = ShownBy(f)])))
SetFocus(f, i) == EvaluateVisibility([f EXCEPT !.focus = i])

\* buildForm: pre-filled values are no changes, and no reason for defaults either.
NewForm(s) ==
    LET names == NamesOf(FieldsOf[s.kind])
        holds(name) == (CHOOSE i \in DOMAIN FieldsOf[s.kind] : FieldsOf[s.kind][i].name = name)
        opening == s.opens ++ [name \in names |->
            IF name = "sans" THEN <<"">> ELSE FieldsOf[s.kind][holds(name)].holds[1]]
        last == IF "cert_type" \in names THEN opening.cert_type ELSE ""
    IN EvaluateVisibility([kind |-> s.kind, changes |-> s.changes, v |-> opening, initial |-> opening,
                           shown |-> names, focus |-> 1, row |-> 1, last |-> last])

NoRequest == [options |-> <<>>, overwrite |-> FALSE]

FormInit == \E s \in FormSessions :
    /\ form = NewForm(s) /\ formPhase = "edit"
    /\ request = NoRequest

-------------------------------------------------------------------------------
(* Validation. *)

\* What the file fields suggest when nothing was picked: names made of the common
\* name, of which nothing may remain, or of the name of the request.
Suggests(f, name) ==
    \/ f.kind = "createCert" /\ name \in {"cert_out", "key_out", "bundle_out"} /\ f.v.cn = "x"
    \/ f.kind = "createCSR" /\ name \in {"csr_out", "key_out"} /\ f.v.cn = "x"
    \/ f.kind = "signCSR" /\ name = "output"

LowerCase(alias) == IF alias = "A" THEN "a" ELSE alias
\* Mutant: aliases are compared as they were typed.
AliasesDifferAsTyped(f) ==
    LET alias(i) == f.v.item_aliases[i]
    IN \A i, k \in Aliasable(f) : alias(i) # "" /\ (i # k => alias(i) # alias(k))
AliasesDiffer(f) ==
    LET alias(i) == LowerCase(f.v.item_aliases[i])
    IN \A i, k \in Aliasable(f) : alias(i) # "" /\ (i # k => alias(i) # alias(k))

Valid(f, i) ==
    LET name == FieldAt(f, i).name
        type == FieldAt(f, i).type
    IN /\ type \in {"must", "confirm"} => f.v[name] # ""
       /\ type = "confirm" => f.v[name] = f.v.new_password
       /\ type = "text" => f.v[name] # "bad"
       /\ type = "pick" => f.v[name] # "" \/ Suggests(f, name)
       /\ type = "aliases" /\ f.v.format = "JKS" => AliasesDiffer(f)
Invalid(f) == {i \in Places(f) : FieldAt(f, i).name \in f.shown /\ ~Valid(f, i)}
First(places) == CHOOSE i \in places : \A k \in places : i <= k

\* isDirty; the rows of a list that are empty do not count.
Value(v, field) == IF field.type = "list" THEN SelectSeq(v[field.name], LAMBDA row : row # "") ELSE v[field.name]
Dirty(f) == \E i \in Places(f) :
    FieldAt(f, i).name \in f.shown /\ Value(f.v, FieldAt(f, i)) # Value(f.initial, FieldAt(f, i))

-------------------------------------------------------------------------------
(* The keys of an open form. *)

Editing == formPhase = "edit"
Focused == FieldAt(form, form.focus)
Rows1(f) == IF Focused.type = "list" THEN Len(f.v.sans) ELSE Cardinality(Aliasable(f))
Composite == Focused.type \in {"list", "aliases"}
AtBoundary(d) == Composite => form.row + d \notin 1..Rows1(form)

\* Tab, Shift+Tab, and the arrows of a field that has no row left that way.
TabForm == Editing /\ UNCHANGED <<formPhase, request>> /\ \E d \in {1, -1} :
    form' = SetFocus(form, Neighbour(form, d))
Arrow == Editing /\ UNCHANGED <<formPhase, request>> /\ \E d \in {1, -1} :
    /\ ~AtBoundary(d)
    /\ form' = EvaluateVisibility([form EXCEPT !.row = @ + d])

Changes(types) ==
    /\ Editing /\ UNCHANGED <<formPhase, request>>
    /\ Focused.type \in types /\ Focused.name \in form.changes
Holding(value) == EvaluateVisibility([form EXCEPT !.v[Focused.name] = value])

Choose == Changes({"radio", "check"}) /\ \E d \in {1, -1} :
    LET n == Len(Focused.holds)
        at == CHOOSE i \in 1..n : Focused.holds[i] = form.v[Focused.name]
    IN form' = Holding(Focused.holds[((at - 1 + d) % n) + 1])
TypeText == Changes({"text", "must", "confirm", "multi"}) /\ \E text \in ToSet(Focused.holds) \ {form.v[Focused.name]} :
    form' = Holding(text)

RowTexts == ToSet(Focused.holds)
TypeRow == Changes({"list"}) /\ \E text \in RowTexts \ {form.v.sans[form.row]} :
    form' = Holding([form.v.sans EXCEPT ![form.row] = text])
AddRow == Changes({"list"}) /\ Len(form.v.sans) < MaxRows /\
    form' = [Holding(InsertAt(form.v.sans, form.row + 1, "")) EXCEPT !.row = @ + 1]
RemoveRow == Changes({"list"}) /\ Len(form.v.sans) > 1 /\ form.v.sans[form.row] = "" /\
    form' = [Holding(RemoveAt(form.v.sans, form.row)) EXCEPT !.row = IF @ = Len(form.v.sans) THEN @ - 1 ELSE @]
TypeAlias == Changes({"aliases"}) /\ form.v.format = "JKS" /\
    \E item \in Aliasable(form) :
        /\ Cardinality({k \in Aliasable(form) : k <= item}) = form.row
        /\ \E text \in RowTexts \ {form.v.item_aliases[item]} :
              form' = Holding([form.v.item_aliases EXCEPT ![item] = text])

\* handleFilePicked: the answer of a file dialog comes when the key is long done;
\* a path without extension got the one of the format.
PickFile == Changes({"pick"}) /\ \E picked \in ToSet(Focused.holds) \ {""} :
    form' = Set(form, [name \in {Focused.name} |-> picked])

Sends(overwrite) ==
    /\ formPhase' = "sent" /\ form' = form
    /\ request' = [options |-> OptionsOf(form.kind, form.v, form.shown), overwrite |-> overwrite]
\* F2 anywhere, Enter on the button.
Submit == Editing /\
    IF Invalid(form) = {} THEN Sends(FALSE)
    ELSE form' = SetFocus(form, First(Invalid(form))) /\ UNCHANGED <<formPhase, request>>

\* Esc: a file form with changes asks first, the remote form just closes.
EscForm == Editing /\ UNCHANGED <<form, request>> /\
    formPhase' = IF form.kind # "remote" /\ Dirty(form) THEN "discard" ELSE "closed"
AnswerDiscard == formPhase = "discard" /\ UNCHANGED <<form, request>> /\ formPhase' \in {"closed", "edit"}
AnswerOverwrite ==
    \/ formPhase = "overwrite" /\ Sends(TRUE)
    \/ formPhase = "overwrite" /\ formPhase' = "edit" /\ form' = form /\ request' = NoRequest

\* The options cannot be made of what was typed: names that do not parse, or a
\* client certificate without its files.
Refused(f) ==
    \/ f.kind \in {"createCert", "createCSR"} /\ "bad" \in ToSet(f.v.sans)
    \/ f.kind = "remote" /\ Lacks(ClientOptions(f.v))
MayFind(f) == f.kind \notin {"remote", "proxy", "pcap"} /\ ~request.overwrite /\ request.options.output # "original"
\* handleFormResult: done, the file exists, or an error; handleProxyStart comes back to its
\* form with an error, while the form of a capture is gone when its file is read.
FormResult ==
    /\ formPhase = "sent" /\ form' = form
    /\ \/ ~Refused(form) /\ formPhase' = "done" /\ request' = request
       \/ ~Refused(form) /\ MayFind(form) /\ formPhase' = "overwrite" /\ request' = request
       \/ form.kind # "pcap" /\ formPhase' = "edit" /\ request' = NoRequest

FormNext ==
    \/ TabForm \/ Arrow \/ Choose \/ TypeText \/ TypeRow \/ AddRow \/ RemoveRow \/ TypeAlias \/ PickFile
    \/ Submit \/ EscForm \/ AnswerDiscard \/ AnswerOverwrite \/ FormResult
FormSpec == FormInit /\ [][FormNext]_formVars

-------------------------------------------------------------------------------
(* Properties *)

\* What is shown is what the rules say of the values as they are, all at once: one pass
\* over the rules is enough in the order they are in (evaluateVisibility).
RulesHold(f) ==
    LET rules == ToSet(RulesOf(f.kind, f.v))
    IN \A i \in Places(f) :
         LET name == FieldAt(f, i).name
             mine == {r \in rules : r.target = name}
         IN name \in f.shown <=> mine = {} \/ \E r \in mine : r.when /\ r.on \in f.shown

\* What was typed into a field that is hidden now has no effect (form_hidden_stale_test.go).
HiddenIsIgnored(f) ==
    LET asItOpened(i) == IF FieldAt(f, i).type = "list" THEN <<"">> ELSE FieldAt(f, i).holds[1]
        hidden == {i \in Places(f) : FieldAt(f, i).name \notin f.shown}
        blank == [name \in {FieldAt(f, i).name : i \in hidden} |->
                    asItOpened(CHOOSE i \in hidden : FieldAt(f, i).name = name)]
    IN OptionsOf(f.kind, blank ++ f.v, f.shown) = OptionsOf(f.kind, f.v, f.shown)

\* While a form is open, after every key: the focus is on a field that is shown and takes it, its row exists,
\* what is shown is what the rules say, and what is hidden does not count.
FormSettled ==
    formPhase # "closed" =>
        /\ Stops(form, form.focus)
        /\ Composite => form.row \in 1..Rows1(form)
        /\ RulesHold(form)
        /\ HiddenIsIgnored(form)

\* What is carried out lacks nothing it needs, sets the password that was confirmed and
\* gives each certificate an alias of its own; and a file is replaced only by the very
\* request that was refused because of it, after the answer.
SubmitIsMeant ==
    [][/\ formPhase' = "done" =>
            /\ ~Lacks(request.options)
            /\ form.kind = "reencrypt" /\ "password" \in DOMAIN request.options =>
                 request.options.password = form.v.confirm_password
            /\ "aliases" \in DOMAIN request.options =>
                 \A i, k \in Aliasable(form) : i # k =>
                   LowerCase(request.options.aliases[i]) # LowerCase(request.options.aliases[k])
       /\ formPhase' = "sent" /\ request'.overwrite =>
            formPhase = "overwrite" /\ request'.options = request.options]_formVars
=============================================================================
