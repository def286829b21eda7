------------------------------ MODULE Detection ------------------------------
(***************************************************************************)
(* Ingestion with the rules of RuleMatching: what the table of rules says  *)
(* of the contents of the events decides which alerts Ingestion raises,    *)
(* and on which events it fails.                                           *)
(***************************************************************************)
EXTENDS Ingestion, RuleMatching

CONSTANTS
    Table,    \* the table of rules, by rule
    Content   \* per event, its columns and metadata

\* A condition has groups, and every group has names.
ASSUME RulesAssumption ==
    /\ FromFiles(Table) = Rules
    /\ \A r \in Rules :
         /\ Table[r].body.condition \in Seq(Seq(NamesOf(Table[r].body)) \ {<<>>}) \ {<<>>}
         /\ Validated(Table[r].body)
    /\ \A e \in AllEvents : Matches[e] = Matching(Table, Content[e])
    /\ Undecided = {e \in AllEvents : Undecidable(Table, Content[e])}

\* An event whose delivery was answered has been decided by all enabled rules: it has alerts of
\* exactly those whose condition it satisfies, by what the condition means (detection.py:127-166).
AlertsAreDetections ==
    \A p \in replies : ~p.duplicate =>
        {r \in Rules : alert[<<p.event, r>>] # NoAlert}
          = {r \in Enabled(Table) : Satisfies(Content[p.event], Table[r].body)}
=============================================================================
