---------------------------- MODULE FilterRules ----------------------------
(***************************************************************************)
(* One user's filter rules: the store of rules/store.go, the handlers of   *)
(* api/rules_handlers.go that edit it, and the manual run that applies the *)
(* rules to a folder through the IMAP adapter.                             *)
(*                                                                         *)
(* Every store operation re-reads rules.json under the store's mutex and   *)
(* only the API process writes it, so a store operation is one step; a     *)
(* handler is several: it reads the rule, decodes the request body and     *)
(* writes the rule back, and other handlers run in between.  The rule's    *)
(* name, its time stamps, Rev and the counter Rev comes from are read by   *)
(* no code and are left out.                                               *)
(***************************************************************************)
EXTENDS Sieve

CONSTANTS
    Requests,   \* HTTP requests that can be in flight together
    Payloads,   \* rule bodies a client posts as JSON
    Scripts,    \* script texts a client puts
    FirstRules, \* the rule bodies stored at the start, created in this order
    Content,    \* message |-> its fields, [Messages -> [text]]
    FirstPlace, \* message |-> its first place, [folder, uid]
    MaxRules,   \* maxRulesPerUser, scaled down
    MaxIds,     \* bound: rules ever created
    MaxWrites,  \* bound: writes of the rules file that save or reorder rules
    MaxRuns,    \* bound: manual runs
    MaxFaults   \* bound: IMAP calls that fail, messages moved meanwhile

Messages == DOMAIN Content
Folders == {"INBOX", "Archive", "Spam", "Trash", "none"}

VARIABLES
    rules,  \* rules.json: the rules, in file order
    writes, \* such writes so far
    ids,    \* rule ids handed out so far
    req,    \* request |-> what its handler holds
    mail,   \* message |-> its folder, UID and keywords on the IMAP server
    uidNext,\* folder |-> next UID
    run,    \* the manual run in progress
    runs,   \* runs started
    faults, \* faults so far
    wanted, \* history: the ids of the last Reorder, in order
    unsure, \* history: ids some edit had read before that Reorder
    astray  \* history: actions that reached another message than the one evaluated

vars == <<rules, writes, ids, req, mail, uidNext, run, runs, faults, wanted, unsure, astray>>
storeVars == <<rules, writes, ids, req, wanted, unsure>>
mailVars == <<mail, uidNext, run, runs, faults, astray>>

Idle == [op |-> "idle", id |-> 0, enabled |-> FALSE, order |-> 0, scope |-> {}]
NoRun == [phase |-> "idle", mailbox |-> "none", active |-> <<>>, todo |-> <<>>]

\* ruleFromPayload: the stored rule of a JSON body
NewRule(id, order, p) ==
    [id |-> id, enabled |-> p.enabled, order |-> order, scope |-> p.scope,
     match |-> p.match, actions |-> p.actions, via |-> <<>>]

Init ==
    /\ rules = [i \in DOMAIN FirstRules |-> NewRule(i, i - 1, FirstRules[i])]
    /\ ids = Len(FirstRules) /\ writes = 0
    /\ req = [q \in Requests |-> Idle]
    /\ mail = [m \in Messages |-> [folder |-> FirstPlace[m].folder,
                                   uid |-> FirstPlace[m].uid, keywords |-> {}]]
    /\ uidNext = [f \in Folders |->
                    1 + Cardinality({m \in Messages : FirstPlace[m].folder = f})]
    /\ run = NoRun /\ runs = 0 /\ faults = 0
    /\ wanted = <<>> /\ unsure = {} /\ astray = {}

----------------------------------------------------------------------------
(* rules/store.go                                                          *)

Stored == {rules[i].id : i \in DOMAIN rules}
Position(id) == CHOOSE i \in DOMAIN rules : rules[i].id = id

\* Mutant of Upsert: an edited rule is appended beside the old one.
UpsertAppends(r) ==
    /\ writes < MaxWrites
    /\ writes' = writes + 1
    /\ ids' = IF r.id = 0 THEN ids + 1 ELSE ids
    /\ ids' <= MaxIds
    /\ rules' = Append(rules, IF r.id = 0 THEN [r EXCEPT !.id = ids + 1] ELSE r)

\* A rule without an id is new and goes last, with the list's length as its
\* order unless it has one; a known id is replaced in place; an unknown id
\* (its rule was deleted meanwhile) is appended as it is.
Upsert(r) ==
    /\ writes < MaxWrites
    /\ writes' = writes + 1
    /\ IF r.id = 0
       THEN /\ ids < MaxIds
            /\ ids' = ids + 1
            /\ rules' = Append(rules,
                  [r EXCEPT !.id = ids + 1,
                            !.order = IF @ = 0 THEN Len(rules) ELSE @])
       ELSE /\ rules' = IF r.id \in Stored
                        THEN [rules EXCEPT ![Position(r.id)] = r]
                        ELSE Append(rules, r)
            /\ UNCHANGED ids

Delete(id) ==
    /\ id \in Stored
    /\ rules' = RemoveAt(rules, Position(id))
    /\ UNCHANGED <<writes, ids, req, wanted, unsure>>
    /\ UNCHANGED mailVars

\* Each named rule's order becomes its place in the request, from 0.
Reorder(named) ==
    LET hit == {i \in DOMAIN rules : rules[i].id \in Range(named)}
        place(id) == (CHOOSE k \in DOMAIN named : named[k] = id) - 1
    IN  /\ hit # {}
        /\ writes < MaxWrites
        /\ rules' = [i \in DOMAIN rules |->
                       IF i \in hit THEN [rules[i] EXCEPT !.order = place(rules[i].id)]
                       ELSE rules[i]]
        /\ writes' = writes + 1
        /\ wanted' = named
        /\ unsure' = {req[q].id : q \in Requests}
        /\ UNCHANGED <<ids, req>>
        /\ UNCHANGED mailVars

----------------------------------------------------------------------------
(* api/rules_handlers.go: creating and editing                             *)

Save(q, r) ==
    /\ Upsert(r)
    /\ req' = [req EXCEPT ![q] = Idle]
    /\ UNCHANGED <<wanted, unsure>>
    /\ UNCHANGED mailVars

\* Mutant of PostBegin: the rules are not counted.
PostBeginUncounted(q) ==
    /\ req[q].op = "idle"
    /\ req' = [req EXCEPT ![q] = [Idle EXCEPT !.op = "post"]]
    /\ UNCHANGED <<rules, writes, ids, wanted, unsure>>
    /\ UNCHANGED mailVars

\* POST counts the rules first and creates one in a later step.
PostBegin(q) ==
    /\ req[q].op = "idle"
    /\ Len(rules) < MaxRules
    /\ req' = [req EXCEPT ![q] = [Idle EXCEPT !.op = "post"]]
    /\ UNCHANGED <<rules, writes, ids, wanted, unsure>>
    /\ UNCHANGED mailVars

PostRule(q, p) ==
    /\ req[q].op = "post"
    /\ ValidateMatchShape(p.match)
    /\ Save(q, NewRule(0, p.order, p))

\* PUT and the script's PUT read the rule before they decode the body.
EditBegin(q, op, id) ==
    /\ req[q].op = "idle"
    /\ id \in Stored
    /\ LET r == rules[Position(id)]
       IN  req' = [req EXCEPT ![q] = [op |-> op, id |-> id, enabled |-> r.enabled,
                                      order |-> r.order, scope |-> r.scope]]
    /\ UNCHANGED <<rules, writes, ids, wanted, unsure>>
    /\ UNCHANGED mailVars

\* Mutant of PutRule: the order is the body's, 0 when the client leaves it out.
PutRuleOrder(q, p) ==
    /\ req[q].op = "put"
    /\ ValidateMatchShape(p.match)
    /\ Save(q, [NewRule(req[q].id, p.order, p) EXCEPT !.scope = req[q].scope])

\* The order and the scope are those of the rule as it was read.
PutRule(q, p) ==
    /\ req[q].op = "put"
    /\ ValidateMatchShape(p.match)
    /\ Save(q, [NewRule(req[q].id, req[q].order, p) EXCEPT !.scope = req[q].scope])

\* Match and actions come from the script, the rest from the rule as read.
PutScript(q, s) ==
    LET existing == [id |-> req[q].id, enabled |-> req[q].enabled, order |-> req[q].order,
                     scope |-> req[q].scope, match |-> {}, actions |-> <<>>, via |-> <<s>>]
        parsed == ParseRuleText(s, existing)
    IN  /\ req[q].op = "sieve"
        /\ parsed # <<>>
        /\ Save(q, parsed[1])

\* A malformed body, a tree out of bounds, a script that does not parse, or a
\* write that fails: the request ends and the file is as it was.
Refuse(q) ==
    /\ req[q].op # "idle"
    /\ req' = [req EXCEPT ![q] = Idle]
    /\ UNCHANGED <<rules, writes, ids, wanted, unsure>>
    /\ UNCHANGED mailVars

----------------------------------------------------------------------------
(* api/rules_handlers.go: the manual run                                   *)

\* What the rules see of message m; the body is only there when fetched.
EvalInput(m, mailbox, withBody) ==
    [text |-> [f \in DOMAIN Content[m] |->
                 IF f = "body" /\ ~withBody THEN {} ELSE Content[m][f]],
     keywords |-> mail[m].keywords, folder |-> mailbox]

conditionsUseBody(g) == matchGroupUsesField(g, "body")

\* The outcome of every listed message, newest first, as one list of calls.
Plan(inputs, active) ==
    FlattenSeq([k \in DOMAIN inputs |->
        LET out == Evaluate(inputs[k].input, active)
        IN  [j \in DOMAIN out.applied |->
                [action |-> out.applied[j], msg |-> inputs[k].msg, uid |-> inputs[k].uid]]])

\* Store.List sorts by order, and rules of one order may come out in any order:
\* the sort is not a stable one.
Lists ==
    {[k \in DOMAIN rules |-> rules[p[k]]] : p \in
        {q \in SetToSeqs(DOMAIN rules) :
            \A i, j \in DOMAIN q : i < j => rules[q[i]].order <= rules[q[j]].order}}

\* List takes the enabled rules; ListOverviews lists the folder.  The bodies,
\* when a rule needs them, are a second call.
RunBegin(mailbox) == \E list \in Lists :
    LET active == SelectSeq(list, LAMBDA r : r.enabled)
        here == {m \in Messages : mail[m].folder = mailbox}
        newest == SetToSortSeq(here, LAMBDA a, b : mail[a].uid > mail[b].uid)
        needsBody == \E i \in DOMAIN active : conditionsUseBody(active[i].match)
        inputs == [k \in DOMAIN newest |->
                     [msg |-> newest[k], uid |-> mail[newest[k]].uid,
                      input |-> EvalInput(newest[k], mailbox, FALSE)]]
    IN  /\ run.phase = "idle"
        /\ runs < MaxRuns
        /\ runs' = runs + 1
        /\ run' = IF needsBody /\ inputs # <<>>
                  THEN [phase |-> "bodies", mailbox |-> mailbox,
                        active |-> active, todo |-> inputs]
                  ELSE LET plan == Plan(inputs, active)
                       IN  IF plan = <<>> THEN NoRun
                           ELSE [phase |-> "apply", mailbox |-> mailbox,
                                 active |-> <<>>, todo |-> plan]
        /\ UNCHANGED <<mail, uidNext, faults, astray>>
        /\ UNCHANGED storeVars

\* A message that has left the folder has no body; the overview is used as
\* it was listed.
RunBodies ==
    LET here(x) == /\ mail[x.msg].folder = run.mailbox
                   /\ mail[x.msg].uid = x.uid
        inputs == [k \in DOMAIN run.todo |->
                     LET x == run.todo[k]
                     IN  [x EXCEPT !.input.text =
                            EvalInput(x.msg, run.mailbox, here(x)).text]]
        plan == Plan(inputs, run.active)
    IN  /\ run.phase = "bodies"
        /\ run' = IF plan = <<>> THEN NoRun
                  ELSE [run EXCEPT !.phase = "apply", !.active = <<>>, !.todo = plan]
        /\ UNCHANGED <<mail, uidNext, runs, faults, astray>>
        /\ UNCHANGED storeVars

\* Mutant of Selected: no call selects the folder it is given.
SelectedInbox(type, mailbox) == "INBOX"

\* The IMAP adapter selects its own mailbox, INBOX, before every call; only
\* ApplyInboxAction then selects the folder it is given.
Selected(type, mailbox) ==
    IF type \in {"keyword", "unkeyword"} THEN "INBOX" ELSE mailbox

\* Where the adapter puts the message; its own folder when it stays.
Target(a, mailbox) ==
    CASE a.type = "move" -> a.value
      [] a.type = "archive" -> "Archive"
      [] a.type = "spam" -> "Spam"
      [] a.type = "delete" -> IF mailbox = "Trash" THEN "none" ELSE "Trash"
      [] OTHER -> mailbox

Relocate(m, folder) ==
    /\ mail' = [mail EXCEPT ![m].folder = folder, ![m].uid = uidNext[folder]]
    /\ uidNext' = [uidNext EXCEPT ![folder] = @ + 1]

\* The effect of one action on the message that has the UID there.
Effect(m, a, mailbox) ==
    CASE a.type = "keyword" ->
           /\ mail' = [mail EXCEPT ![m].keywords = @ \cup {a.value}]
           /\ UNCHANGED uidNext
      [] a.type = "unkeyword" ->
           /\ mail' = [mail EXCEPT ![m].keywords = @ \ {a.value}]
           /\ UNCHANGED uidNext
      [] a.type \in {"move", "archive", "spam", "delete"} /\ Target(a, mailbox) # mailbox ->
           Relocate(m, Target(a, mailbox))
      [] OTHER -> UNCHANGED <<mail, uidNext>>

NextCall ==
    run' = IF Len(run.todo) = 1 THEN NoRun ELSE [run EXCEPT !.todo = Tail(@)]

\* ApplyOutcome, one call: the message is named by its UID alone.  "stop",
\* "read" and an unknown type change nothing here.
RunApply ==
    LET x == Head(run.todo)
        a == x.action
        hit == {m \in Messages : /\ mail[m].folder = Selected(a.type, run.mailbox)
                                 /\ mail[m].uid = x.uid}
        changing == a.type \in {"keyword", "unkeyword", "move", "archive", "spam", "delete"}
    IN  /\ run.phase = "apply"
        /\ IF hit = {} \/ ~changing
           THEN UNCHANGED <<mail, uidNext, astray>>
           ELSE LET m == CHOOSE h \in hit : TRUE
                IN  /\ Effect(m, a, run.mailbox)
                    /\ astray' = IF m = x.msg THEN astray
                                 ELSE astray \cup {[type |-> a.type, mailbox |-> run.mailbox]}
        /\ NextCall
        /\ UNCHANGED <<runs, faults>>
        /\ UNCHANGED storeVars

\* One action fails: the remaining ones still run.
RunApplyFails ==
    /\ run.phase = "apply"
    /\ faults < MaxFaults
    /\ faults' = faults + 1
    /\ NextCall
    /\ UNCHANGED <<mail, uidNext, runs, astray>>
    /\ UNCHANGED storeVars

\* The body fetch fails: the run is over.
RunBodiesFail ==
    /\ run.phase = "bodies"
    /\ faults < MaxFaults
    /\ faults' = faults + 1
    /\ run' = NoRun
    /\ UNCHANGED <<mail, uidNext, runs, astray>>
    /\ UNCHANGED storeVars

\* The user's mail client moves a message meanwhile.
MovedElsewhere(m, folder) ==
    /\ run.phase # "idle"
    /\ faults < MaxFaults
    /\ mail[m].folder \notin {folder, "none"}
    /\ faults' = faults + 1
    /\ Relocate(m, folder)
    /\ UNCHANGED <<run, runs, astray>>
    /\ UNCHANGED storeVars

----------------------------------------------------------------------------

Handler(q) ==
    \/ PostBegin(q)
    \/ \E p \in Payloads : PostRule(q, p) \/ PutRule(q, p)
    \/ \E id \in 1..ids, op \in {"put", "sieve"} : EditBegin(q, op, id)
    \/ \E s \in Scripts : PutScript(q, s)
    \/ Refuse(q)

\* A client names rules it has seen, each once; naming one that is gone only
\* leaves a gap in the orders.
Orders == {SubSeq(named, 1, n) : n \in 1..Cardinality(Stored),
              named \in {f \in [1..Cardinality(Stored) -> Stored] : IsInjective(f)}}

StoreNext ==
    \/ \E q \in Requests : Handler(q)
    \/ \E id \in 1..ids : Delete(id)
    \/ \E named \in Orders : Reorder(named)

RunNext ==
    \/ \E mailbox \in {"INBOX", "Archive"} : RunBegin(mailbox)
    \/ RunBodies \/ RunBodiesFail \/ RunApply \/ RunApplyFails
    \/ \E m \in Messages, folder \in {"INBOX", "Archive"} : MovedElsewhere(m, folder)

Next == StoreNext \/ RunNext

Spec == Init /\ [][Next]_vars

----------------------------------------------------------------------------
(* Properties                                                              *)

\* Every variable has its type: rules and requests name ids that were handed
\* out, and two messages never share a place in a folder.
TypeOK ==
    /\ ids \in 0..MaxIds /\ writes \in 0..MaxWrites
    /\ \A i \in DOMAIN rules : rules[i].id \in 1..ids
    /\ \A i, j \in DOMAIN rules : rules[i].id = rules[j].id => i = j
    /\ \A q \in Requests : req[q].id \in 0..ids
    /\ \A m, n \in Messages :
          m # n => <<mail[m].folder, mail[m].uid>> # <<mail[n].folder, mail[n].uid>>
    /\ \A m \in Messages : mail[m].uid < uidNext[mail[m].folder]

\* Every message the rules can be asked about, with and without a keyword.
Inputs ==
    {[text |-> Content[m], keywords |-> kws, folder |-> "INBOX"] :
        m \in Messages, kws \in {{}, {"v"}}}

\* What a script can say: known fields and comparators, no empty group, no
\* value that quoting changes, and nesting the parser accepts.
RECURSIVE TestDepth(_)
TestDepth(t) ==
    IF t.of = <<>> THEN 0 ELSE 1 + Max({TestDepth(t.of[i]) : i \in DOMAIN t.of})

RECURSIVE NoEmptyGroup(_)
NoEmptyGroup(g) ==
    /\ g.conditions # <<>>
    /\ \A i \in DOMAIN g.conditions :
          g.conditions[i].group # <<>> => NoEmptyGroup(g.conditions[i].group[1])

Expressible(r) ==
    /\ NoEmptyGroup(r.match)
    /\ \A c \in Leaves(r.match) :
          /\ c.field \in HeaderFields \cup {"body", "keyword"}
          /\ \/ c.comparator \in Comparators
             \/ c.comparator = "exists" /\ c.field \in HeaderFields
          /\ c.value # "ctl"
    /\ \A i \in DOMAIN r.actions : r.actions[i].type \in DOMAIN VerbOf
    /\ TestDepth(compileMatchGroup(r.match)[1]) <= MaxTestNestingDepth

\* Opening the script of a stored rule and saving it unchanged keeps what the
\* rule does: CompileRule and ParseRuleText are inverse up to meaning, on every
\* rule a script can express, however the rule came about (TestRoundTrip tries
\* a handful of them).
RoundTrip ==
    \A i \in DOMAIN rules :
        LET r == rules[i]
            script == CompileRule(r)
            back == ParseRuleText(script[1], r)
        IN  Expressible(r) =>
              /\ script # <<>> /\ back # <<>>
              /\ back[1].actions = r.actions
              /\ \A input \in Inputs : matchGroup(back[1].match, input) = matchGroup(r.match, input)

\* The meaning of a test, by the comments of sieve.go: a test that lists
\* several fields is true if any of them matches.
RECURSIVE Denotes(_, _)
Denotes(t, input) ==
    LET tag(default) == IF t.tag = "" THEN default ELSE t.tag
    IN  CASE t.test = "not" -> ~Denotes(t.of[1], input)
          [] t.test = "allof" -> \A i \in DOMAIN t.of : Denotes(t.of[i], input)
          [] t.test = "anyof" -> \E i \in DOMAIN t.of : Denotes(t.of[i], input)
          [] t.test \in {"header", "address"} ->
                \E f \in Range(t.fields) : matchesValue(tag("is"), input.text[f], t.value)
          [] t.test = "exists" -> \E f \in Range(t.fields) : input.text[f] # {}
          [] t.test = "body" -> matchesValue(tag("contains"), input.text["body"], t.value)
          [] t.test = "hasflag" ->
                \E kw \in input.keywords : matchesValue(tag("is"), {kw}, t.value)

\* The one construct ParseRuleText loses: an odd number of "not" in front of a
\* whole group or of a test with several fields.
RECURSIVE DropsNot(_, _)
DropsNot(t, odd) ==
    IF t.test = "not" THEN DropsNot(t.of[1], ~odd)
    ELSE odd /\ (t.test \in {"allof", "anyof"} \/ Len(t.fields) > 1)

\* A rule saved from a script matches exactly the messages its script
\* describes, until the rule is edited again; scripts whose root is a negated
\* group are excluded, because ParseRuleText drops that negation.
ScriptMeaning ==
    \A i \in DOMAIN rules :
        LET r == rules[i]
        IN  r.via # <<>> /\ ~DropsNot(r.via[1].test, FALSE) =>
              \A input \in Inputs : matchGroup(r.match, input) = Denotes(r.via[1].test, input)

\* The limits of the store hold as far as they can.  The cap on rules is checked
\* before the write, and an edit re-creates a rule deleted under it, so the cap
\* can be passed, but by less than the number of requests in flight together.
\* No stored tree is deeper than the entry points allow: a script may be one
\* level deeper than a JSON tree (a test with several fields becomes a group
\* that no "not", "allof" or "anyof" was counted for), never more.
LimitsHold ==
    /\ Len(rules) <= MaxRules + Cardinality(Requests) - 1
    /\ \A i \in DOMAIN rules : GroupDepth(rules[i].match) <= MaxTestNestingDepth + 1

\* The rules are listed and run in the order of the last reordering: two rules it
\* named keep that order through every edit that read its rule after it.
ReorderSticks ==
    \A list \in Lists :
        LET at(id) == CHOOSE k \in DOMAIN list : list[k].id = id
        IN  \A i, j \in DOMAIN wanted :
                (i < j /\ {wanted[i], wanted[j]} \subseteq Stored \ unsure)
                    => at(wanted[i]) < at(wanted[j])

\* A manual run changes no message but the ones it evaluated, whatever is
\* moved meanwhile, except that keywords of a run on another folder than INBOX
\* go to INBOX messages: ApplyLabel and RemoveLabel take no folder.
StraysOnlyLabels ==
    \A x \in astray : x.type \in {"keyword", "unkeyword"} /\ x.mailbox # "INBOX"

\* The manual run "lists the target folder's messages ..., evaluates every
\* enabled rule against each, and applies matched actions": no action reaches
\* another message than the one it was evaluated for.
RunHitsEvaluated == astray = {}

============================================================================
