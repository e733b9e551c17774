------------------------------- MODULE Sieve -------------------------------
(***************************************************************************)
(* The filter-rule language: the match trees of rules/model.go, what they  *)
(* match (rules/engine.go), the Sieve script a rule is shown as and the    *)
(* rule a script is read back as (rules/sieve.go).                         *)
(*                                                                         *)
(* Data.  A text is the set of its words; patterns are single words with   *)
(* no metacharacter, for which ":matches" is ":is" and ":regex" is         *)
(* ":contains".  A script is its syntax tree; every text that is not the   *)
(* text of one (a lexical error, a missing bracket, trailing content) is   *)
(* a script with lexes = FALSE.  An optional value is a sequence of length *)
(* 0 or 1, and an error is its empty case.                                 *)
(***************************************************************************)
EXTENDS Integers, Sequences, FiniteSets, SequencesExt

CONSTANTS
    HeaderFields,        \* the header fields a test may name
    MaxTestNestingDepth, \* maxTestNestingDepth, scaled down
    MaxMatchConditions   \* maxMatchConditions, scaled down

Comparators == {"contains", "is", "matches", "regex"}
Capabilities == {"fileinto", "body", "regex", "imap4flags", "kymail"}

Leaf(negate, field, comparator, value) ==
    [negate |-> negate, group |-> <<>>, field |-> field,
     comparator |-> comparator, value |-> value]

Nested(negate, op, conditions) ==
    [negate |-> negate, group |-> <<[op |-> op, conditions |-> conditions]>>,
     field |-> "", comparator |-> "", value |-> ""]

Test(name, tag, fields, value, of) ==
    [test |-> name, tag |-> tag, fields |-> fields, value |-> value, of |-> of]

----------------------------------------------------------------------------
(* engine.go: what a rule matches                                          *)

\* An unknown comparator is treated as "contains".
matchesValue(comparator, text, value) ==
    CASE comparator = "exists" -> text # {}
      [] comparator \in {"is", "matches"} -> text = {value}
      [] OTHER -> value \in text

fieldValue(input, field) ==
    IF field \in DOMAIN input.text THEN input.text[field] ELSE {}

RECURSIVE matchGroup(_, _), conditionMatches(_, _)

\* "anyof" is OR; every other operator is AND, true of no conditions.
matchGroup(g, input) ==
    IF g.op = "anyof"
    THEN \E i \in DOMAIN g.conditions : conditionMatches(g.conditions[i], input)
    ELSE \A i \in DOMAIN g.conditions : conditionMatches(g.conditions[i], input)

conditionMatches(c, input) ==
    LET result ==
            IF c.group # <<>> THEN matchGroup(c.group[1], input)
            ELSE IF c.field = "keyword"
                 THEN \E kw \in input.keywords :
                          matchesValue(c.comparator, {kw}, c.value)
                 ELSE matchesValue(c.comparator, fieldValue(input, c.field), c.value)
    IN  result # c.negate

folderInScope(scope, folder) == scope = {} \/ folder \in scope

\* Stable sort by order: equal orders keep their place in the list.
ByOrder(rs) ==
    LET before(i, j) == \/ rs[i].order < rs[j].order
                        \/ rs[i].order = rs[j].order /\ i < j
        at == SortSeq([i \in DOMAIN rs |-> i], before)
    IN  [k \in DOMAIN rs |-> rs[at[k]]]

Hits(r, input) ==
    /\ r.enabled
    /\ folderInScope(r.scope, input.folder)
    /\ matchGroup(r.match, input)

HasStop(r) == \E i \in DOMAIN r.actions : r.actions[i].type = "stop"

\* The walk over the rules: a matched rule adds its actions, and its "stop"
\* ends the walk.
Evaluate(input, active) ==
    LET visit(out, r) ==
            IF out.stopped \/ ~Hits(r, input) THEN out
            ELSE [matched |-> Append(out.matched, r.id),
                  applied |-> out.applied \o r.actions,
                  stopped |-> HasStop(r)]
    IN  FoldLeft(visit, [matched |-> <<>>, applied |-> <<>>, stopped |-> FALSE],
                 ByOrder(active))

----------------------------------------------------------------------------
(* sieve.go, CompileRule: the script a rule is shown as                    *)

\* A value is quoted as a Go literal and read back by a lexer that drops the
\* backslash and keeps the next character: a control character, written as an
\* escape letter, comes back as that letter.
LexQuoted(value) == IF value = "ctl" THEN "ctlLexed" ELSE value

comparatorTag(comparator) ==
    IF comparator \in Comparators THEN comparator ELSE "is"

compileLeafCondition(c) ==
    LET tag == comparatorTag(c.comparator)
        value == LexQuoted(c.value)
    IN  CASE c.field \in HeaderFields ->
               IF c.comparator = "exists"
               THEN <<Test("exists", "", <<c.field>>, "", <<>>)>>
               ELSE <<Test("header", tag, <<c.field>>, value, <<>>)>>
          [] c.field = "body" -> <<Test("body", tag, <<>>, value, <<>>)>>
          [] c.field = "keyword" -> <<Test("hasflag", tag, <<>>, value, <<>>)>>
          [] OTHER -> <<>>

\* All of a sequence of optional values, or nothing when one is missing.
AllOrNone(parts) ==
    IF \E i \in DOMAIN parts : parts[i] = <<>> THEN <<>>
    ELSE <<[i \in DOMAIN parts |-> parts[i][1]]>>

RECURSIVE compileMatchGroup(_), compileCondition(_)

compileMatchGroup(g) ==
    LET parts == AllOrNone([i \in DOMAIN g.conditions |->
                               compileCondition(g.conditions[i])])
        op == IF g.op = "anyof" THEN "anyof" ELSE "allof"
    IN  IF parts = <<>> THEN <<>>
        ELSE <<Test(op, "", <<>>, "", parts[1])>>

\* Mutant of compileCondition: only a leaf is written with its "not".
CompileNotOfLeafOnly(c) ==
    LET inner == IF c.group # <<>> THEN compileMatchGroup(c.group[1])
                 ELSE compileLeafCondition(c)
    IN  IF inner # <<>> /\ c.negate /\ c.group = <<>>
        THEN <<Test("not", "", <<>>, "", inner)>>
        ELSE inner

compileCondition(c) ==
    LET inner == IF c.group # <<>> THEN compileMatchGroup(c.group[1])
                 ELSE compileLeafCondition(c)
    IN  IF inner # <<>> /\ c.negate
        THEN <<Test("not", "", <<>>, "", inner)>>
        ELSE inner

\* The Sieve verb of each action type.
VerbOf ==
    [keyword |-> "addflag", unkeyword |-> "removeflag", move |-> "fileinto",
     read |-> "markread", archive |-> "archive", spam |-> "markspam",
     delete |-> "discard", stop |-> "stop"]

TakesValue == {"keyword", "unkeyword", "move"}

compileAction(a) ==
    IF a.type \notin DOMAIN VerbOf THEN <<>>
    ELSE <<[verb |-> VerbOf[a.type],
            value |-> IF a.type \in TakesValue THEN LexQuoted(a.value) ELSE ""]>>

\* The leaf conditions anywhere below g.
RECURSIVE Leaves(_)
Leaves(g) ==
    UNION {LET c == g.conditions[i]
           IN  IF c.group = <<>> THEN {c} ELSE Leaves(c.group[1]) :
           i \in DOMAIN g.conditions}

matchGroupUsesField(g, field) == \E c \in Leaves(g) : c.field = field

matchGroupUsesComparator(g, comparator) ==
    \E c \in Leaves(g) : c.comparator = comparator

usesCapability(r, capability) ==
    LET acts(types) == \E i \in DOMAIN r.actions : r.actions[i].type \in types
    IN  CASE capability = "fileinto" -> acts({"move"})
          [] capability = "imap4flags" ->
                acts({"keyword", "unkeyword"}) \/ matchGroupUsesField(r.match, "keyword")
          [] capability = "kymail" -> acts({"read", "archive", "spam"})
          [] capability = "body" -> matchGroupUsesField(r.match, "body")
          [] capability = "regex" -> matchGroupUsesComparator(r.match, "regex")

CompileRule(r) ==
    LET test == compileMatchGroup(r.match)
        acts == AllOrNone([i \in DOMAIN r.actions |-> compileAction(r.actions[i])])
    IN  IF test = <<>> \/ acts = <<>> THEN <<>>
        ELSE <<[lexes |-> TRUE,
                require |-> {c \in Capabilities : usesCapability(r, c)},
                test |-> test[1],
                actions |-> IF acts[1] = <<>> THEN <<[verb |-> "keep", value |-> ""]>>
                            ELSE acts[1]]>>

----------------------------------------------------------------------------
(* sieve.go, ParseRuleText: the rule a script is read as                   *)

parseComparatorTag(tag, default) ==
    IF tag = "" THEN <<default>>
    ELSE IF tag \in Comparators THEN <<tag>> ELSE <<>>

\* Mutant of fieldsToCondition: all of the fields have to match.
AllFieldsToCondition(fields, comparator, value) ==
    IF Len(fields) = 1 THEN Leaf(FALSE, fields[1], comparator, value)
    ELSE Nested(FALSE, "allof",
                [i \in DOMAIN fields |-> Leaf(FALSE, fields[i], comparator, value)])

\* One field is a leaf, several are a nested "anyof" of leaves.
fieldsToCondition(fields, comparator, value) ==
    IF Len(fields) = 1 THEN Leaf(FALSE, fields[1], comparator, value)
    ELSE Nested(FALSE, "anyof",
                [i \in DOMAIN fields |-> Leaf(FALSE, fields[i], comparator, value)])

FieldsValid(fields) == fields # <<>> /\ \A i \in DOMAIN fields : fields[i] \in HeaderFields

\* enterTest: one more level of not, allof or anyof
TooDeep(depth) == depth + 1 > MaxTestNestingDepth

\* A test at the given depth, as a condition: "not" flips the negation of what
\* it is in front of.
RECURSIVE parseTest(_, _)
parseTest(t, depth) ==
    LET leaf(field, default) ==
            LET cmp == parseComparatorTag(t.tag, default)
            IN  IF cmp = <<>> THEN <<>> ELSE <<Leaf(FALSE, field, cmp[1], t.value)>>
    IN  CASE t.test = "not" ->
               LET inner == IF TooDeep(depth) THEN <<>>
                            ELSE parseTest(t.of[1], depth + 1)
               IN  IF inner = <<>> THEN <<>>
                   ELSE <<[inner[1] EXCEPT !.negate = ~@]>>
          [] t.test \in {"allof", "anyof"} ->
               LET conds == IF TooDeep(depth) \/ t.of = <<>> THEN <<>>
                            ELSE AllOrNone([i \in DOMAIN t.of |->
                                               parseTest(t.of[i], depth + 1)])
               IN  IF conds = <<>> THEN <<>>
                   ELSE <<Nested(FALSE, t.test, conds[1])>>
          [] t.test \in {"header", "address"} ->
               LET cmp == parseComparatorTag(t.tag, "is")
               IN  IF cmp = <<>> \/ ~FieldsValid(t.fields) THEN <<>>
                   ELSE <<fieldsToCondition(t.fields, cmp[1], t.value)>>
          [] t.test = "exists" ->
               IF FieldsValid(t.fields)
               THEN <<fieldsToCondition(t.fields, "exists", "")>> ELSE <<>>
          [] t.test = "body" -> leaf("body", "contains")
          [] t.test = "hasflag" -> leaf("keyword", "is")
          [] OTHER -> <<>>

parseAction(a) ==
    IF a.verb = "keep" THEN <<[type |-> "keep", value |-> ""]>>
    ELSE LET types == {ty \in DOMAIN VerbOf : VerbOf[ty] = a.verb}
         IN  IF types = {} THEN <<>>
             ELSE LET ty == CHOOSE x \in types : TRUE
                  IN  <<[type |-> ty,
                         value |-> IF ty \in TakesValue THEN a.value ELSE ""]>>

\* The root: a group becomes the rule's match tree, anything else the only
\* condition of an "allof".  What a "not" in front of the group set in the
\* condition around it goes no further.
RootMatch(rootCond) ==
    IF rootCond.group # <<>> THEN rootCond.group[1]
    ELSE [op |-> "allof", conditions |-> <<rootCond>>]

ParseRuleText(script, existing) ==
    LET rootCond == parseTest(script.test, 0)
        acts == AllOrNone([i \in DOMAIN script.actions |-> parseAction(script.actions[i])])
    IN  IF \/ ~script.lexes
           \/ ~(script.require \subseteq Capabilities)
           \/ rootCond = <<>> \/ acts = <<>>
        THEN <<>>
        ELSE <<[existing EXCEPT
                  !.match = RootMatch(rootCond[1]),
                  !.actions = SelectSeq(acts[1], LAMBDA a : a.type # "keep")]>>

----------------------------------------------------------------------------
(* sieve.go, ValidateMatchShape: the bounds on a tree posted as JSON       *)

RECURSIVE GroupDepth(_), LeafCount(_)

GroupDepth(g) ==
    LET below == {GroupDepth(g.conditions[i].group[1]) :
                     i \in {k \in DOMAIN g.conditions : g.conditions[k].group # <<>>}}
    IN  IF below = {} THEN 1 ELSE 1 + Max(below)

LeafCount(g) ==
    FoldLeft(LAMBDA n, c : n + (IF c.group = <<>> THEN 1 ELSE LeafCount(c.group[1])),
             0, g.conditions)

ValidateMatchShape(g) ==
    /\ GroupDepth(g) <= MaxTestNestingDepth
    /\ LeafCount(g) <= MaxMatchConditions

============================================================================
