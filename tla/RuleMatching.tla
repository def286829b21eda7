----------------------------- MODULE RuleMatching -----------------------------
(***************************************************************************)
(* Detection rules (detection.py): how a rule file is accepted, what of it *)
(* reaches the table, and how its condition is evaluated on an event.      *)
(*                                                                         *)
(* A text is a sequence of words in lower case, so that "contains",        *)
(* "startswith" and "endswith" are about parts of sequences.               *)
(***************************************************************************)
EXTENDS Naturals, Sequences, SequencesExt

CONSTANT Null    \* no value

\* A rule has named selections and a condition: the names that "and" joins, in groups that
\* "or" joins.  A selection is a set of items, each with a field, a modifier and the set of
\* texts that it expects one of.
NamesOf(rule) == UNION {Range(group) : group \in Range(rule.condition)}

FIELD_MAP == [user |-> "username", hash |-> "file_hash", file |-> "file_path",
              Image |-> "process", CommandLine |-> "command_line"]

\* The attribute that the field stands for, or else the entry in the event's metadata.
FieldValue(event, field) ==
    LET attr == IF field \in DOMAIN FIELD_MAP THEN FIELD_MAP[field] ELSE field
    IN  IF attr \in DOMAIN event.columns THEN event.columns[attr]
        ELSE IF field \in DOMAIN event.metadata THEN event.metadata[field] ELSE Null

ValueMatches(actual, expected, modifier) ==
    /\ actual # Null
    /\ \E wanted \in expected :
        \/ modifier = "contains" /\ \E k \in 0..Len(actual) :
                                        IsPrefix(wanted, SubSeq(actual, k + 1, Len(actual)))
        \/ modifier = "endswith" /\ IsSuffix(wanted, actual)
        \/ modifier = "startswith" /\ IsPrefix(wanted, actual)
        \/ modifier = "" /\ wanted = actual

SelectionMatches(event, selection) ==
    \A item \in selection :
        ValueMatches(FieldValue(event, item.field), item.expected, item.modifier)

\* Every name is the one of a selection, whatever joins them.
Validated(rule) == NamesOf(rule) # {} /\ NamesOf(rule) \subseteq DOMAIN rule.selections

\* Mutant: selections joined by "and" are taken as alternatives.
EvaluateAsOr(event, rule) ==
    IF \E name \in NamesOf(rule) : SelectionMatches(event, rule.selections[name])
    THEN "match" ELSE "none"

\* An "or" splits the condition into names; a group that still holds an "and" is no name, and
\* looking it up raises.  What is left of it counts first.
Evaluate(event, rule) ==
    LET groups == rule.condition
        matches(k) == SelectionMatches(event, rule.selections[groups[k][1]])
        stops == {k \in DOMAIN groups : IF Len(groups[k]) = 1 THEN matches(k) ELSE TRUE}
        first == CHOOSE k \in stops : \A j \in stops : k <= j
    IN  IF Len(groups) = 1
        THEN IF \A name \in Range(groups[1]) : SelectionMatches(event, rule.selections[name])
             THEN "match" ELSE "none"
        ELSE IF stops = {} THEN "none"
        ELSE IF Len(groups[first]) = 1 THEN "match" ELSE "error"

\* The table after start-up: the files replace what a rule says, not whether it is enabled,
\* and a rule without a file stays.
Synced(table, rules) ==
    [id \in DOMAIN table \cup DOMAIN rules |->
        IF id \notin DOMAIN rules THEN table[id]
        ELSE [body |-> rules[id], source |-> "sigma-compatible",
              enabled |-> IF id \in DOMAIN table THEN table[id].enabled ELSE TRUE]]

\* Definitions of web attacks stand in the same table, under another source.
FromFiles(table) == {id \in DOMAIN table : table[id].source = "sigma-compatible"}
Enabled(table) == {id \in FromFiles(table) : table[id].enabled}

\* Evaluating one of the enabled rules on the event raises.
Undecidable(table, event) == \E id \in Enabled(table) : Evaluate(event, table[id].body) = "error"

\* The enabled rules that match an event; none has an alert when one of them raises, since all
\* alerts of the event are committed together.
Matching(table, event) ==
    IF Undecidable(table, event) THEN {}
    ELSE {id \in Enabled(table) : Evaluate(event, table[id].body) = "match"}

\* What a condition means: all selections of one of its groups hold.
Satisfies(event, rule) ==
    \E group \in Range(rule.condition) : \A name \in Range(group) :
        SelectionMatches(event, rule.selections[name])
=============================================================================
