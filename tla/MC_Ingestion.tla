---------------------------- MODULE MC_Ingestion ----------------------------
(* Small instances of Ingestion.                                            *)
EXTENDS Detection, TLC

CONSTANTS t1, t2, th, l1, l2, e1, e2, e3, d1, d2, low, high, k1, k2, ip, url

mcOneLoop == [t \in {t1, t2} |-> l1]
mcTwoLoops == [t \in {t1, t2} |-> IF t = t1 THEN l1 ELSE l2]
mcOneTask == [t \in {t1} |-> l1]

\* A MEDIUM rule of 40 percent and a HIGH one of 80: LOW, MEDIUM, HIGH and, with
\* both indicators malicious, CRITICAL are all within reach.
mcSeverity == (low :> 2) @@ (high :> 3)
mcConfidence == (low :> 40) @@ (high :> 80)

mcSameKey == [a \in Alerts |-> k1]
mcKeyPerRule == [a \in Alerts |-> IF a[2] = low THEN k1 ELSE k2]

Item(field, modifier, expected) ==
    [field |-> field, modifier |-> modifier, expected |-> expected]

\* Rules in the form of the bundled ones: encoded PowerShell, and a sensor or a honeypot.
mcSelections ==
    (high :> [image |-> {Item("Image", "endswith", {<<"powershell">>, <<"pwsh">>})},
              flags |-> {Item("command_line", "contains", {<<"-enc">>, <<"-e">>})}])
    @@
    (low :> [ids |-> {Item("source_type", "", {<<"suricata">>}),
                      Item("severity", "", {<<"high">>, <<"critical">>})},
             honeypot |-> {Item("session", "startswith", {<<"cowrie">>})},
             image |-> {Item("process", "endswith", {<<"pwsh">>})},
             flags |-> {Item("CommandLine", "contains", {<<"-w", "hidden">>})}])
mcBody(r, condition) == [selections |-> mcSelections[r], condition |-> condition]
mcRules == (high :> mcBody(high, <<<<"image", "flags">>>>))
           @@ (low :> mcBody(low, <<<<"ids">>, <<"honeypot">>>>))

\* A file that mixes "or" and "and", which is accepted.
mcMixedRules == (low :> mcBody(low, <<<<"ids">>, <<"honeypot">>, <<"image", "flags">>>>))
                @@ mcRules

\* The table before start-up knows an older form of one rule, and a web attack.
mcOldTable == (low :> [body |-> mcRules[high], source |-> "sigma-compatible", enabled |-> TRUE])
              @@ ("web" :> [body |-> [family |-> "sqli"], source |-> "ghostsoc-web", enabled |-> TRUE])
mcTable == Synced(mcOldTable, mcRules)
mcMixedTable == Synced(mcOldTable, mcMixedRules)

\* e1 satisfies both rules, e2 one.  e3 satisfies both, but no alternative of the mixed rule
\* matches it before the group that cannot be looked up.  A demo event satisfies one, or none.
mcContent ==
    (e1 :> [columns |-> [process |-> <<"system32", "powershell">>, source_type |-> <<"sysmon">>,
                         command_line |-> <<"powershell", "-enc", "text">>, severity |-> Null],
            metadata |-> [session |-> <<"cowrie", "7">>]])
    @@
    (e2 :> [columns |-> [process |-> <<"pwsh">>, source_type |-> <<"suricata">>,
                         command_line |-> Null, severity |-> <<"high">>],
            metadata |-> [sensor |-> <<"eth0">>]])
    @@
    (e3 :> [columns |-> [process |-> <<"pwsh">>, source_type |-> <<"sysmon">>,
                         command_line |-> <<"pwsh", "-w", "hidden", "-e", "text">>,
                         severity |-> Null],
            metadata |-> [sensor |-> <<"eth1">>]])
    @@
    (d1 :> [columns |-> [process |-> <<"powershell">>, source_type |-> <<"demo">>,
                         command_line |-> <<"powershell", "-enc", "text">>, severity |-> Null],
            metadata |-> [sensor |-> <<"demo">>]])
    @@
    (d2 :> [columns |-> [process |-> Null, source_type |-> <<"demo">>, command_line |-> Null,
                         severity |-> Null],
            metadata |-> [sensor |-> <<"demo">>]])

mcMatches == [e \in AllEvents |-> Matching(Table, mcContent[e])]
\* The same of mcTable written out, which is faster; Detection's assumption compares the two.
mcMatchesWritten == [e \in AllEvents |-> ((e1 :> {low, high}) @@ (e2 :> {low}) @@ (d1 :> {high}) @@ (d2 :> {}))[e]]
mcUndecided == {e \in AllEvents : Undecidable(Table, mcContent[e])}
mcIocs == (e1 :> {ip}) @@ (e2 :> {ip, url}) @@ (e3 :> {url}) @@ (d1 :> {url}) @@ (d2 :> {url})
mcEventIocs == [e \in AllEvents |-> mcIocs[e]]
mcOneIoc == [e \in AllEvents |-> IF e = e2 THEN {ip} ELSE mcIocs[e]]
mcUrlOnly == [e \in AllEvents |-> {url}]
=============================================================================
