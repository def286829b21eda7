------------------------------- MODULE Memory -------------------------------
(***************************************************************************)
(* The security memory (services/hindsight.py, api/memory.py) and the      *)
(* investigation agent that reads it (services/agent.py).                  *)
(*                                                                         *)
(* rows is the table memory_experiences: what analysts wrote about an      *)
(* incident, next to a snapshot of the incident itself.  provider is       *)
(* Hindsight, an HTTP service that keeps one document per incident.  A     *)
(* handler reads the row, builds the new experience in memory, commits it  *)
(* as PENDING, posts it, and commits what became of the post.  Handlers    *)
(* run on pool threads, so they interleave between these steps; a call     *)
(* that timed out may still reach the provider.                            *)
(*                                                                         *)
(* An experience is abstracted to the version of the incident's own fields *)
(* (facts), the fields that only the retain endpoint writes (review: root  *)
(* cause, investigation, side effects) and the list of notes (feedback and *)
(* lessons).                                                               *)
(***************************************************************************)
EXTENDS Naturals, Sequences, FiniteSets, Risk

CONSTANTS
    Threads,     \* handlers that run at the same time
    Incidents,
    Techniques, Words, \* per incident: techniques of its alerts, telling words of its title
    Reviews,     \* what the retain endpoint may be given
    Feedback,    \* decisions on recommendations, sent to the learn endpoint
    Annotations, \* corrections, sent to the update endpoint
    Fails,       \* the reviews and notes that tell of a failure or a rejection
    Succeeds,    \* those that tell of a success
    Calls,       \* per handler, the requests it may be given, any number of times
    Limit,       \* how many matches a recall returns
    MaxVersion, MaxFacts, \* bounds: versions of a row, changes per incident,
    MaxRecommendations,   \* recommendations stored between two resets
    Plain,       \* no review yet
    NoRow, Nothing

Notes == Feedback \cup Annotations

\* An analyst retains, learns or updates; a closure or an approval retains without
\* amendments; a recall and a recommendation only read.
ASSUME CallsAssumption ==
    /\ \A w \in Threads : \A c \in Calls[w] :
        /\ c.op \in {"retain", "learn", "update", "hook", "recall", "recommend", "bypass"}
        /\ c.incident \in Incidents
        /\ c.review \in Reviews \cup {Plain}
        /\ c.note \in Notes \cup {Nothing}
        /\ c.op = "learn" <=> c.note \in Feedback
    /\ Limit \in Nat \ {0}
    /\ MaxVersion \in Nat /\ MaxFacts \in [Incidents -> Nat] /\ MaxRecommendations \in Nat

VARIABLES
    facts,           \* facts[i]: how often incident i has changed, or Nothing when it is deleted
    rows, provider,  \* per incident: the committed row, the provider's document
    late,            \* posts that timed out and may still arrive
    recommendations, \* the rows of investigation_recommendations
    session,
    \* history variables:
    confirmed,  \* the experiences the provider has acknowledged
    saved,      \* per incident: the last review and the notes of all commits
    overlapped, \* incidents where a handler wrote over a row it had not seen
    crashed     \* incidents whose handler died between its two commits

vars == <<facts, rows, provider, late, recommendations, session,
          confirmed, saved, overlapped, crashed>>
history == <<confirmed, saved, overlapped, crashed>>


Experience == [facts : Nat, review : Reviews \cup {Plain}, notes : Seq(Notes)]
Row == [version : Nat, status : {"PENDING", "RETAINED", "UNAVAILABLE"},
        experience : Experience]
Idle == [step |-> "idle"]

ASSUME NothingAssumption == NoRow \notin Row /\ Nothing \notin Nat \cup Notes \cup Experience

Init ==
    /\ facts = [i \in Incidents |-> 0]
    /\ rows = [i \in Incidents |-> NoRow]
    /\ provider = [i \in Incidents |-> Nothing]
    /\ late = {}
    /\ recommendations = {}
    /\ session = [w \in Threads |-> Idle]
    /\ confirmed = {}
    /\ saved = [i \in Incidents |-> [review |-> Plain, notes |-> {}]]
    /\ overlapped = {}
    /\ crashed = {}

At(w, step) == session[w].step = step
Move(w, s) == session' = [session EXCEPT ![w] = s]

\* A bound: no more versions than MaxVersion, those on their way included.
Room(i) ==
    LET writers == {w \in Threads : session[w].step \in {"learn", "read", "save"}
                                    /\ session[w].incident = i}
    IN  (IF rows[i] = NoRow THEN 0 ELSE rows[i].version) + Cardinality(writers) < MaxVersion

-----------------------------------------------------------------------------
(* retain, learn, update: from the request to the first commit.             *)

\* A handler that writes over a row that is not as it has seen it.
Overlap(s) == IF s.seen = rows[s.incident] THEN overlapped ELSE overlapped \cup {s.incident}

\* The notes of an experience.
Entered(x) == {x.notes[n] : n \in DOMAIN x.notes}

\* What a call adds to an experience.
Amendment(c) ==
    [review |-> c.review, notes |-> IF c.note = Nothing THEN <<>> ELSE <<c.note>>]
Unamended == [review |-> Plain, notes |-> <<>>]

\* Mutant: the snapshot replaces the notes of an existing row.
MergedAfresh(row, now, amendment) ==
    [facts |-> now, notes |-> amendment.notes,
     review |-> IF amendment.review # Plain THEN amendment.review
                ELSE IF row = NoRow THEN Plain ELSE row.experience.review]

\* The new experience: the incident as it is now, and what analysts wrote is kept.
Merged(row, now, amendment) ==
    [facts |-> now,
     review |-> IF amendment.review # Plain THEN amendment.review
                ELSE IF row = NoRow THEN Plain ELSE row.experience.review,
     notes |-> (IF row = NoRow THEN <<>> ELSE row.experience.notes) \o amendment.notes]

\* A request is accepted: the handler loads the incident.
Call(w, c) ==
    /\ At(w, "idle")
    /\ c.op \in {"retain", "learn", "hook"}
    /\ facts[c.incident] # Nothing
    /\ Room(c.incident)
    /\ Move(w, [step |-> IF c.op = "learn" THEN "learn" ELSE "read",
                incident |-> c.incident, facts |-> facts[c.incident], row |-> NoRow,
                seen |-> rows[c.incident], amendment |-> Amendment(c)])
    /\ UNCHANGED <<facts, rows, provider, late, recommendations, history>>

\* An update loads the row first and compares the version its client has seen with it.
UpdateCall(w, c, expected) ==
    LET row == rows[c.incident]
    IN  /\ At(w, "idle")
        /\ c.op = "update"
        /\ row # NoRow
        /\ row.version = expected
        /\ Room(c.incident)
        /\ Move(w, [step |-> "read", incident |-> c.incident, facts |-> facts[c.incident],
                    row |-> row, seen |-> row, amendment |-> Amendment(c)])
        /\ UNCHANGED <<facts, rows, provider, late, recommendations, history>>

\* A decision that is saved already is not entered again, its post is only retried.
Repeated(row, amendment) ==
    /\ row # NoRow
    /\ Entered(row.experience) \cap Entered(amendment) # {}

LearnRead(w) ==
    LET s == session[w]
        row == rows[s.incident]
    IN  /\ At(w, "learn")
        /\ Move(w, [s EXCEPT !.step = "read", !.row = row,
                    !.amendment = IF Repeated(row, @) THEN Unamended ELSE @])
        /\ UNCHANGED <<facts, rows, provider, late, recommendations, history>>

\* retain looks the row up; a row this session has loaded before comes back as it was.
Read(w) ==
    LET s == session[w]
        row == IF rows[s.incident] = NoRow \/ s.row = NoRow THEN rows[s.incident] ELSE s.row
    IN  /\ At(w, "read")
        /\ Move(w, [s EXCEPT !.step = "save", !.row = row])
        /\ UNCHANGED <<facts, rows, provider, late, recommendations, history>>

\* The first commit.  A row inserted or deleted since the read fails it (Abort).
Save(w) ==
    LET s == session[w]
        i == s.incident
        new == Merged(s.row, s.facts, s.amendment)
    IN  /\ At(w, "save")
        /\ facts[i] # Nothing
        /\ (s.row = NoRow) <=> (rows[i] = NoRow)
        /\ rows' = [rows EXCEPT ![i] =
                        IF s.row = NoRow
                        THEN [version |-> 1, status |-> "PENDING", experience |-> new]
                        ELSE [version |-> s.row.version + 1,
                              status |-> Flush(s.row.status, "PENDING", @.status),
                              experience |-> Flush(s.row.experience, new, @.experience)]]
        /\ saved' = [saved EXCEPT ![i] =
                        [review |-> IF s.amendment.review = Plain THEN @.review ELSE s.amendment.review,
                         notes |-> @.notes \cup Entered(s.amendment)]]
        /\ overlapped' = Overlap(s)
        /\ Move(w, [step |-> "post", incident |-> i, sent |-> new, seen |-> rows'[i]])
        /\ UNCHANGED <<facts, provider, late, recommendations, confirmed, crashed>>

-----------------------------------------------------------------------------
(* The post and the second commit.                                          *)

Replied(s, reply) == [step |-> "settle", incident |-> s.incident, seen |-> s.seen, reply |-> reply]

\* The provider stores the document and says so.
Acknowledge(w) ==
    LET s == session[w]
    IN  /\ At(w, "post")
        /\ provider' = [provider EXCEPT ![s.incident] = s.sent]
        /\ confirmed' = confirmed \cup {<<s.incident, s.sent>>}
        /\ Move(w, Replied(s, "success"))
        /\ UNCHANGED <<facts, rows, late, recommendations, saved, overlapped, crashed>>

\* No provider is configured, it answers with an error, or it only promises to work on it.
Refuse(w) ==
    /\ At(w, "post")
    /\ \E reply \in {"none", "async"} : Move(w, Replied(session[w], reply))
    /\ UNCHANGED <<facts, rows, provider, late, recommendations, history>>

\* The call times out; the document may be stored at any later time.
TimeOut(w) ==
    LET s == session[w]
    IN  /\ At(w, "post")
        /\ late' = late \cup {<<s.incident, s.sent>>}
        /\ Move(w, Replied(s, "none"))
        /\ UNCHANGED <<facts, rows, provider, recommendations, history>>

Arrive(p) ==
    /\ late' = late \ {p}
    /\ provider' = [provider EXCEPT ![p[1]] = p[2]]
    /\ UNCHANGED <<facts, rows, recommendations, session, history>>

\* Mutant: an answer that only promises to store the document counts as stored.
OutcomeOfAnyAnswer(reply) == IF reply = "none" THEN "UNAVAILABLE" ELSE "RETAINED"

Outcome(reply) == IF reply = "success" THEN "RETAINED" ELSE "UNAVAILABLE"

\* Mutant: only a success is recorded.
SettleSuccess(w) ==
    LET s == session[w]
    IN  /\ At(w, "settle")
        /\ rows[s.incident] # NoRow
        /\ rows' = [rows EXCEPT ![s.incident].status =
                        IF s.reply = "success" THEN "RETAINED" ELSE @]
        /\ overlapped' = Overlap(s)
        /\ Move(w, Idle)
        /\ UNCHANGED <<facts, provider, late, recommendations, confirmed, saved, crashed>>

\* The second commit; the reply and the audit row follow without another look at the row.
Settle(w) ==
    LET s == session[w]
    IN  /\ At(w, "settle")
        /\ rows[s.incident] # NoRow
        /\ rows' = [rows EXCEPT ![s.incident].status = Outcome(s.reply)]
        /\ overlapped' = Overlap(s)
        /\ Move(w, Idle)
        /\ UNCHANGED <<facts, provider, late, recommendations, confirmed, saved, crashed>>

-----------------------------------------------------------------------------
(* recall and recommend.                                                    *)

\* The memory is asked, unless the client wants a recommendation without it.
Ask(w, c) ==
    /\ At(w, "idle")
    /\ c.op \in {"recall", "recommend", "bypass"}
    /\ facts[c.incident] # Nothing
    /\ Move(w, [step |-> IF c.op = "bypass" THEN "draft" ELSE "recall", op |-> c.op,
                incident |-> c.incident, memory |-> "bypassed", matches |-> {}])
    /\ UNCHANGED <<facts, rows, provider, late, recommendations, history>>

Similar(i, j) == Techniques[i] \cap Techniques[j] # {} \/ Words[i] \cap Words[j] # {}

\* Of the documents the provider names, those of other, related incidents whose row is RETAINED.
Recallable(i, documents) ==
    {j \in documents : /\ rows[j] # NoRow
                       /\ rows[j].status = "RETAINED"
                       /\ j # i
                       /\ Similar(i, j)}

History(j) == <<j, rows[j].experience>>

\* The provider answers with facts from any of its documents, and the rows are read.
Recall(w) ==
    LET s == session[w]
    IN  /\ At(w, "recall")
        /\ \E documents \in SUBSET {j \in Incidents : provider[j] # Nothing} :
           \E shown \in SUBSET Recallable(s.incident, documents) :
            /\ \/ shown = Recallable(s.incident, documents) /\ Cardinality(shown) <= Limit
               \/ Cardinality(Recallable(s.incident, documents)) > Limit /\ Cardinality(shown) = Limit
            /\ Move(w, [s EXCEPT !.step = "draft", !.memory = "available",
                        !.matches = {History(j) : j \in shown}])
        /\ UNCHANGED <<facts, rows, provider, late, recommendations, history>>

RecallUnavailable(w) ==
    /\ At(w, "recall")
    /\ Move(w, [session[w] EXCEPT !.step = "draft", !.memory = "unavailable"])
    /\ UNCHANGED <<facts, rows, provider, late, recommendations, history>>

\* A recall is answered; a recommendation ends here when no inference provider is
\* configured, when it fails, or when its answer does not pass the checks below.
Answer(w) ==
    /\ At(w, "draft")
    /\ Move(w, Idle)
    /\ UNCHANGED <<facts, rows, provider, late, recommendations, history>>

\* The answer of the model, external: what it cites, the incidents and the history its
\* text speaks of, and whether it weighs conflicting outcomes.
Drafts == [cited : SUBSET Incidents, mentioned : SUBSET Incidents,
           claims : BOOLEAN, weighs : BOOLEAN]

Tells(x, kind) == x.review \in kind \/ Entered(x) \cap kind # {}
Conflict(matches) ==
    /\ \E m \in matches : Tells(m[2], Succeeds)
    /\ \E m \in matches : Tells(m[2], Fails)

Sources(matches) == {m[1] : m \in matches}

\* Mutant: a text may speak of any incident.
AcceptedByCitation(draft, matches) ==
    /\ draft.cited \subseteq Sources(matches)
    /\ draft.claims => draft.cited # {}
    /\ Conflict(matches) => draft.weighs

Accepted(draft, matches) ==
    /\ draft.mentioned \cup draft.cited \subseteq Sources(matches)
    /\ draft.claims => draft.cited # {}
    /\ Conflict(matches) => draft.weighs

\* The recommendation is stored with the part of the history it cites.
Recommend(w, draft) ==
    LET s == session[w]
    IN  /\ At(w, "draft")
        /\ s.op # "recall"
        /\ Cardinality(recommendations) < MaxRecommendations
        /\ Accepted(draft, s.matches)
        /\ facts[s.incident] # Nothing
        /\ recommendations' = recommendations \cup
              {[incident |-> s.incident, memory |-> s.memory,
                cited |-> draft.cited, mentioned |-> draft.mentioned,
                evidence |-> {m \in s.matches : m[1] \in draft.cited}]}
        /\ Move(w, Idle)
        /\ UNCHANGED <<facts, rows, provider, late, history>>

-----------------------------------------------------------------------------
(* Around the handlers.                                                     *)

\* Other components change the incident: alerts, evidence, actions, its status.
Progress(i) ==
    /\ facts[i] # Nothing
    /\ facts[i] < MaxFacts[i]
    /\ facts' = [facts EXCEPT ![i] = @ + 1]
    /\ UNCHANGED <<rows, provider, late, recommendations, session, history>>

\* The demo reset deletes incidents, experiences and recommendations; the provider keeps
\* its documents.
Reset ==
    /\ \E i \in Incidents : facts[i] # Nothing
    /\ facts' = [i \in Incidents |-> Nothing]
    /\ rows' = [i \in Incidents |-> NoRow]
    /\ recommendations' = {}
    /\ saved' = [i \in Incidents |-> [review |-> Plain, notes |-> {}]]
    /\ UNCHANGED <<provider, late, session, confirmed, overlapped, crashed>>

\* A handler dies or a statement of it fails: what it has not committed is gone.
Abort(w) ==
    /\ ~At(w, "idle")
    /\ Move(w, Idle)
    /\ crashed' = IF session[w].step \in {"post", "settle"}
                  THEN crashed \cup {session[w].incident} ELSE crashed
    /\ UNCHANGED <<facts, rows, provider, late, recommendations, confirmed, saved, overlapped>>

Proceed(w) ==
    \/ LearnRead(w) \/ Read(w) \/ Save(w)
    \/ Acknowledge(w) \/ Refuse(w) \/ TimeOut(w) \/ Settle(w)
    \/ Recall(w) \/ RecallUnavailable(w) \/ Answer(w)

Next ==
    \/ \E w \in Threads :
        \/ Proceed(w)
        \/ \E c \in Calls[w] : Call(w, c) \/ Ask(w, c)
        \/ \E c \in Calls[w], v \in 1..MaxVersion : UpdateCall(w, c, v)
        \/ \E draft \in Drafts : Recommend(w, draft)
        \/ Abort(w)
    \/ \E p \in late : Arrive(p)
    \/ \E i \in Incidents : Progress(i)
    \/ Reset

\* The thread pool schedules every handler, and the HTTP client gives up after its timeout.
Spec == Init /\ [][Next]_vars /\ \A w \in Threads : WF_vars(Proceed(w))

-----------------------------------------------------------------------------
(* Properties.                                                              *)

TypeOK ==
    /\ facts \in [Incidents -> Nat \cup {Nothing}]
    /\ rows \in [Incidents -> Row \cup {NoRow}]
    /\ provider \in [Incidents -> Experience \cup {Nothing}]
    /\ late \cup confirmed \subseteq Incidents \X Experience
    /\ \A r \in recommendations : r.incident \in Incidents /\ r.cited \cup r.mentioned \subseteq Incidents

\* No decision is in the list twice.
Once(notes) ==
    \A m, n \in DOMAIN notes : notes[m] = notes[n] /\ notes[m] \in Feedback => m = n

\* What analysts wrote stays in the experience through every later retain, hook, update
\* and failed post, and a decision sent again, because its post failed or its answer was lost,
\* is entered once, as long as no handler saves over a row it has not seen
\* (hindsight.py:129-144,205-208; the version is only compared when an update begins).
NotesKept ==
    \A i \in Incidents \ overlapped :
        rows[i] # NoRow =>
            /\ rows[i].experience.review = saved[i].review
            /\ saved[i].notes = Entered(rows[i].experience)
            /\ Once(rows[i].experience.notes)

\* History is shown, and given to the agent, only as the provider has acknowledged it: a
\* note whose post failed or is still on its way is not presented as recalled
\* (hindsight.py:193-199), handlers that overlap aside.
ShownWasConfirmed ==
    \A w \in Threads :
        At(w, "draft") => \A m \in session[w].matches : m \in confirmed \/ m[1] \in overlapped

\* A stored recommendation speaks of no incident but those recalled for it, shows the
\* history it cites as the provider has acknowledged it, never its own incident's, and
\* none at all when the memory was down or left out (agent.py:103-136).
Provenance ==
    \A r \in recommendations :
        /\ r.mentioned # {} => r.memory = "available"
        /\ r.incident \notin r.mentioned
        /\ r.cited = Sources(r.evidence)
        /\ \A m \in r.evidence : m \in confirmed \/ m[1] \in overlapped

\* PENDING is not the last word: unless the process dies between the two commits, a row is
\* settled whatever the provider does (hindsight.py:152-157).
PendingSettles ==
    \A i \in Incidents :
        (rows[i] # NoRow /\ rows[i].status = "PENDING")
            ~> (rows[i] = NoRow \/ rows[i].status # "PENDING" \/ i \in crashed)
=============================================================================
