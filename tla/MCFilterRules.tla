--------------------------- MODULE MCFilterRules ---------------------------
(***************************************************************************)
(* A small instance of FilterRules: two requests, two header fields, trees *)
(* of depth 2 with 3 conditions, and bodies chosen so that every construct *)
(* of the language, and every way to be refused, occurs.                   *)
(***************************************************************************)
EXTENDS FilterRules

Rule1(op, conds, actions) ==
    [enabled |-> TRUE, order |-> 0, scope |-> {},
     match |-> [op |-> op, conditions |-> conds], actions |-> actions]

Do(type, value) == [type |-> type, value |-> value]

SubjectV == Leaf(FALSE, "subject", "contains", "v")
NotFromW == Leaf(TRUE, "from", "is", "w")
BodyW == Leaf(FALSE, "body", "regex", "w")
HasFlagV == Leaf(FALSE, "keyword", "is", "v")

Labelling == Rule1("allof", <<SubjectV, NotFromW>>, <<Do("keyword", "v"), Do("read", "")>>)
Filing == Rule1("anyof", <<BodyW, HasFlagV>>, <<Do("move", "Archive"), Do("stop", "")>>)

MCFirstRules == <<Labelling, Filing>>

MCPayloads == {
    Labelling, Filing,
    Rule1("", <<Nested(TRUE, "anyof", <<SubjectV, Leaf(FALSE, "from", "exists", "")>>)>>, <<>>),
    [Rule1("allof", <<Leaf(FALSE, "subject", "", "ctl")>>, <<Do("flag", "")>>)
        EXCEPT !.enabled = FALSE, !.order = 2],
    [Rule1("allof", <<>>, <<Do("unkeyword", "v"), Do("delete", "")>>) EXCEPT !.scope = {"INBOX"}],
    \* refused: too deep, and too many conditions
    Rule1("allof", <<Nested(FALSE, "anyof", <<Nested(FALSE, "allof", <<SubjectV>>)>>)>>, <<>>),
    Rule1("anyof", <<SubjectV, NotFromW, BodyW, HasFlagV>>, <<>>)}

Script(test, actions) ==
    [lexes |-> TRUE, require |-> {"fileinto"}, test |-> test, actions |-> actions]

Verb(name) == [verb |-> name, value |-> ""]
Both(name, tag, value) == Test(name, tag, <<"from", "subject">>, value, <<>>)
Not(t) == Test("not", "", <<>>, "", <<t>>)
AllOf(ts) == Test("allof", "", <<>>, "", ts)
AnyOf(ts) == Test("anyof", "", <<>>, "", ts)
Flagged == Test("hasflag", "", <<>>, "v", <<>>)
BodyHas == Test("body", "", <<>>, "w", <<>>)

MCScripts == {
    Script(AllOf(<<AnyOf(<<Both("header", "contains", "v"), Flagged>>)>>),
           <<Verb("archive"), Verb("stop")>>),
    Script(Not(Both("header", "", "w")), <<[verb |-> "addflag", value |-> "v"]>>),
    Script(Not(Not(Test("exists", "", <<"subject">>, "", <<>>))), <<Verb("keep")>>),
    Script(AllOf(<<Not(BodyHas), Not(Flagged)>>), <<Verb("markspam")>>),
    \* refused: too deep, empty group, unknown tag, unknown field, unknown
    \* verb, unknown capability, and text that is no script
    Script(AllOf(<<AnyOf(<<AllOf(<<Both("exists", "", "")>>)>>)>>), <<>>),
    Script(AllOf(<<>>), <<>>),
    Script(Test("body", "near", <<>>, "w", <<>>), <<>>),
    Script(Test("exists", "", <<"body">>, "", <<>>), <<>>),
    Script(Flagged, <<Verb("reject")>>),
    [Script(Flagged, <<>>) EXCEPT !.require = {"vacation"}],
    [Script(Flagged, <<>>) EXCEPT !.lexes = FALSE]}

MCContent ==
    "m1" :> [from |-> {"w"}, subject |-> {"v"}, body |-> {"w"}] @@
    "m2" :> [from |-> {"v"}, subject |-> {"v", "w"}, body |-> {}] @@
    "m3" :> [from |-> {}, subject |-> {}, body |-> {"v"}]

MCFirstPlace ==
    "m1" :> [folder |-> "INBOX", uid |-> 1] @@
    "m2" :> [folder |-> "Archive", uid |-> 1] @@
    "m3" :> [folder |-> "INBOX", uid |-> 2]

\* A run reads the rules once, when it begins, and writes none of them: what
\* the handlers do during or after it could as well be done before, so it is
\* enough to begin a run when no request is in flight and to end with it.
MCNext ==
    \/ runs = 0 /\ StoreNext
    \/ (\A q \in Requests : req[q].op = "idle") /\ RunNext

MCSpec == Init /\ [][MCNext]_vars

Symmetry == Permutations(Requests)

============================================================================
