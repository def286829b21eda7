----------------------------- MODULE Memory_proofs -----------------------------
(* Proofs about Memory, for any threads, incidents, notes and calls.          *)
EXTENDS Memory, SequenceTheorems, TLAPS

-----------------------------------------------------------------------------
(* The inductive invariant.                                                 *)

\* What a handler holds, by its step.
Held == Row \cup {NoRow}
Amendments == [review : Reviews \cup {Plain}, notes : {<<>>} \cup {<<n>> : n \in Notes}]
Writing == [step : {"learn", "read", "save"}, incident : Incidents, facts : Nat,
            row : Held, seen : Held, amendment : Amendments]
Posting == [step : {"post"}, incident : Incidents, sent : Experience, seen : Row]
Settling == [step : {"settle"}, incident : Incidents, seen : Row,
             reply : {"success", "none", "async"}]
Reading == [step : {"recall", "draft"}, op : {"recall", "recommend", "bypass"},
            incident : Incidents, memory : {"bypassed", "available", "unavailable"},
            matches : SUBSET (Incidents \X Experience)]
Sessions == Writing \cup Posting \cup Settling \cup Reading \cup {Idle}

Types ==
    /\ TypeOK
    /\ saved \in [Incidents -> [review : Reviews \cup {Plain}, notes : SUBSET Notes]]
    /\ session \in [Threads -> Sessions]

\* Of two states of a row, b is not the older one: a version has one experience, and is
\* PENDING only until it is settled.
Earlier(a, b) ==
    /\ a.version <= b.version
    /\ a.version = b.version => /\ a.experience = b.experience
                                /\ b.status = "PENDING" => a.status = "PENDING"

\* An incident that exists, and whose row no handler has written over unseen.
Watched(i) == facts[i] # Nothing /\ i \notin overlapped

\* A state of the row that a handler has seen.
Known(i, r) == r # NoRow => rows[i] # NoRow /\ Earlier(r, rows[i])

RowInv(i) ==
    /\ facts[i] = Nothing => rows[i] = NoRow
    /\ rows[i] = NoRow => saved[i] = [review |-> Plain, notes |-> {}]
    /\ i \notin overlapped /\ rows[i] # NoRow =>
        /\ rows[i].experience.review = saved[i].review
        /\ saved[i].notes = Entered(rows[i].experience)
        /\ Once(rows[i].experience.notes)
        /\ rows[i].status = "RETAINED" => <<i, rows[i].experience>> \in confirmed

WritingInv(s) == LET i == s.incident IN
    Watched(i) =>
        /\ Known(i, s.row) /\ Known(i, s.seen)
        /\ s.row # NoRow /\ s.seen # NoRow => Earlier(s.seen, s.row)
        /\ s.step # "learn" /\ s.seen # NoRow /\ Entered(s.amendment) \cap Feedback # {} =>
             s.row # NoRow /\ Entered(s.row.experience) \cap Entered(s.amendment) = {}

PostingInv(s) == Watched(s.incident) => Known(s.incident, s.seen) /\ s.sent = s.seen.experience

SettlingInv(s) ==
    Watched(s.incident) =>
        /\ Known(s.incident, s.seen)
        /\ s.reply = "success" => <<s.incident, s.seen.experience>> \in confirmed

ReadingInv(s) ==
    /\ s.step = "recall" \/ s.memory # "available" => s.matches = {}
    /\ \A m \in s.matches : m[1] # s.incident /\ (m \in confirmed \/ m[1] \in overlapped)

WorkInv(w) ==
    /\ session[w] \in Writing => WritingInv(session[w])
    /\ session[w] \in Posting => PostingInv(session[w])
    /\ session[w] \in Settling => SettlingInv(session[w])
    /\ session[w] \in Reading => ReadingInv(session[w])

MemInv ==
    /\ Types
    /\ \A i \in Incidents : RowInv(i)
    /\ \A w \in Threads : WorkInv(w)
    /\ Provenance

-----------------------------------------------------------------------------
(* Steps in general.                                                        *)

LEMMA EarlierTransitive ==
    ASSUME NEW a \in Row, NEW b \in Row, NEW c \in Row, Earlier(a, b), Earlier(b, c)
    PROVE  Earlier(a, c)
BY DEF Earlier, Row

LEMMA EarlierReflexive == ASSUME NEW a \in Row PROVE Earlier(a, a)
BY DEF Earlier, Row

\* What a session holds keeps being so while others work.
LEMMA WorkKept ==
    ASSUME Types, Types', NEW w \in Threads, WorkInv(w), session'[w] = session[w],
           confirmed \subseteq confirmed', overlapped \subseteq overlapped',
           \A i \in Incidents : Watched(i)' => Watched(i),
           \A i \in Incidents : Watched(i)' /\ rows[i] # NoRow
                                  => rows'[i] # NoRow /\ Earlier(rows[i], rows'[i])
    PROVE  WorkInv(w)'
<1> DEFINE s == session[w]
<1>0. PICK t : t = s
  OBVIOUS
<1>1. ASSUME NEW i \in Incidents, NEW r \in Held, Watched(i)', Known(i, r)
      PROVE  Known(i, r)'
  <2>1. CASE r = NoRow
    BY <2>1 DEF Known
  <2>2. CASE r # NoRow
    <3>1. r \in Row /\ rows[i] \in Row /\ rows'[i] \in Row /\ rows'[i] # NoRow
          /\ Earlier(r, rows[i]) /\ Earlier(rows[i], rows'[i])
      BY <1>1, <2>2 DEF Known, Held, Types, TypeOK
    <3>2. Earlier(r, rows'[i])
      BY <3>1, EarlierTransitive
    <3> QED BY <3>1, <3>2 DEF Known, Earlier
  <2> QED BY <2>1, <2>2
<1>2. CASE t \in Writing
  <2>1. t.incident \in Incidents /\ t.row \in Held /\ t.seen \in Held
    BY <1>2 DEF Writing
  <2>2. WritingInv(t)
    BY <1>0, <1>2 DEF WorkInv
  <2>3. WritingInv(t)'
    BY <1>1, <2>1, <2>2 DEF WritingInv, Earlier, Entered
  <2> QED BY <1>0, <1>2, <2>3 DEF WorkInv, Writing, Posting, Settling, Reading
<1>3. CASE t \in Posting
  <2>1. t.incident \in Incidents /\ t.seen \in Held
    BY <1>3 DEF Posting, Held
  <2>2. PostingInv(t)
    BY <1>0, <1>3 DEF WorkInv
  <2>3. PostingInv(t)'
    BY <1>1, <2>1, <2>2 DEF PostingInv
  <2> QED BY <1>0, <1>3, <2>3 DEF WorkInv, Writing, Posting, Settling, Reading
<1>4. CASE t \in Settling
  <2>1. t.incident \in Incidents /\ t.seen \in Held
    BY <1>4 DEF Settling, Held
  <2>2. SettlingInv(t)
    BY <1>0, <1>4 DEF WorkInv
  <2>3. SettlingInv(t)'
    BY <1>1, <2>1, <2>2 DEF SettlingInv
  <2> QED BY <1>0, <1>4, <2>3 DEF WorkInv, Writing, Posting, Settling, Reading
<1>5. CASE t \in Reading
  <2>1. ReadingInv(t)
    BY <1>0, <1>5 DEF WorkInv
  <2>2. ReadingInv(t)'
    BY <2>1 DEF ReadingInv
  <2> QED BY <1>0, <1>5, <2>2 DEF WorkInv, Writing, Posting, Settling, Reading
<1>6. CASE t = Idle
  BY <1>0, <1>6 DEF WorkInv, Idle, Writing, Posting, Settling, Reading
<1> QED BY <1>0, <1>2, <1>3, <1>4, <1>5, <1>6 DEF Types, Sessions

\* A step that leaves the rows and the recommendations alone.
LEMMA Quiet ==
    ASSUME MemInv, Types', UNCHANGED <<facts, rows, saved, recommendations>>,
           confirmed \subseteq confirmed', overlapped \subseteq overlapped',
           \A w \in Threads : session'[w] = session[w] \/ WorkInv(w)'
    PROVE  MemInv'
<1>1. \A i \in Incidents : RowInv(i)'
  BY DEF MemInv, RowInv, Entered, Once
<1>2. ASSUME NEW i \in Incidents
      PROVE  /\ Watched(i)' => Watched(i)
             /\ rows[i] # NoRow => rows'[i] # NoRow /\ Earlier(rows[i], rows'[i])
  <2>1. rows[i] # NoRow => rows[i] \in Row
    BY DEF MemInv, Types, TypeOK
  <2> QED BY <2>1, EarlierReflexive DEF Watched
<1>3. ASSUME NEW w \in Threads PROVE WorkInv(w)'
  <2>1. Types /\ WorkInv(w)
    BY DEF MemInv
  <2> QED BY <1>2, <2>1, WorkKept
<1>4. Provenance'
  BY DEF MemInv, Provenance, Sources
<1> QED BY <1>1, <1>3, <1>4 DEF MemInv

\* A step of one session that leaves them alone, too.
LEMMA SessionStep ==
    ASSUME MemInv, NEW w \in Threads, NEW t \in Sessions, Move(w, t), TypeOK',
           UNCHANGED <<facts, rows, saved, recommendations>>,
           confirmed \subseteq confirmed', overlapped \subseteq overlapped',
           t \in Writing => WritingInv(t)', t \in Posting => PostingInv(t)',
           t \in Settling => SettlingInv(t)', t \in Reading => ReadingInv(t)'
    PROVE  MemInv'
<1>1. session \in [Threads -> Sessions]
  BY DEF MemInv, Types
<1>2. session'[w] = t /\ \A v \in Threads \ {w} : session'[v] = session[v]
  BY <1>1 DEF Move
<1>3. session' \in [Threads -> Sessions]
  BY <1>1 DEF Move
<1>4. Types'
  BY <1>3 DEF MemInv, Types
<1>5. WorkInv(w)'
  BY <1>2 DEF WorkInv
<1> QED BY <1>2, <1>4, <1>5, Quiet

\* The kind of a session is told by its step.
LEMMA KindOfStep ==
    ASSUME NEW s \in Sessions
    PROVE  /\ s.step \in {"learn", "read", "save"} <=> s \in Writing
           /\ s.step = "post" <=> s \in Posting
           /\ s.step = "settle" <=> s \in Settling
           /\ s.step \in {"recall", "draft"} <=> s \in Reading
BY DEF Sessions, Writing, Posting, Settling, Reading, Idle

LEMMA SessionType == MemInv => \A w \in Threads : session[w] \in Sessions
BY DEF MemInv, Types

-----------------------------------------------------------------------------
(* From the request to the first commit.                                    *)

LEMMA AmendmentType ==
    ASSUME NEW w \in Threads, NEW c \in Calls[w]
    PROVE  /\ Amendment(c) \in Amendments
           /\ c.op # "learn" => Entered(Amendment(c)) \cap Feedback = {}
<1>1. /\ c.review \in Reviews \cup {Plain} /\ c.note \in Notes \cup {Nothing}
      /\ c.op = "learn" <=> c.note \in Feedback
  BY CallsAssumption
<1>2. Amendment(c) = [review |-> c.review, notes |-> IF c.note = Nothing THEN <<>> ELSE <<c.note>>]
  BY DEF Amendment
<1>3. Entered(Amendment(c)) \subseteq {c.note}
  BY <1>2 DEF Entered
<1> QED BY <1>1, <1>2, <1>3 DEF Amendments

LEMMA CallKeeps == \A w \in Threads : \A c \in Calls[w] : MemInv /\ Call(w, c) => MemInv'
<1> SUFFICES ASSUME NEW w \in Threads, NEW c \in Calls[w], MemInv, Call(w, c) PROVE MemInv'
  OBVIOUS
<1> DEFINE i == c.incident
<1>1. i \in Incidents /\ facts[i] \in Nat /\ rows[i] \in Held
  BY CallsAssumption DEF Call, MemInv, Types, TypeOK, Held
<1>2. PICK t : t = [step |-> IF c.op = "learn" THEN "learn" ELSE "read", incident |-> i,
                    facts |-> facts[i], row |-> NoRow, seen |-> rows[i],
                    amendment |-> Amendment(c)]
  OBVIOUS
<1>3. t \in Writing
  BY <1>1, <1>2, AmendmentType DEF Writing, Held
<1>4. Move(w, t) /\ UNCHANGED <<facts, rows, provider, late, recommendations, history>>
  BY <1>2 DEF Call
<1>5. WritingInv(t)'
  <2>1. rows[i] # NoRow => Earlier(rows[i], rows[i])
    BY <1>1, EarlierReflexive DEF Held
  <2>2. t.incident = i /\ t.row = NoRow /\ t.seen = rows[i] /\ t.amendment = Amendment(c)
        /\ t.step = IF c.op = "learn" THEN "learn" ELSE "read"
    BY <1>2
  <2>3. Known(i, rows[i])' /\ Known(i, NoRow)'
    BY <1>4, <2>1 DEF Known, Earlier
  <2>4. t.step # "learn" => Entered(t.amendment) \cap Feedback = {}
    BY <2>2, AmendmentType
  <2>5. Known(i, t.row)' /\ Known(i, t.seen)'
    BY <1>4, <2>2, <2>3 DEF Known
  <2> QED BY <2>2, <2>4, <2>5 DEF WritingInv, Entered
<1>6. t \notin Posting /\ t \notin Settling /\ t \notin Reading /\ t \in Sessions
  BY <1>3 DEF Sessions, Writing, Posting, Settling, Reading
<1>7. TypeOK' /\ UNCHANGED <<saved, confirmed, overlapped>>
  BY <1>4 DEF MemInv, Types, TypeOK, history
<1> QED BY <1>3, <1>4, <1>5, <1>6, <1>7, SessionStep

LEMMA UpdateCallKeeps ==
    \A w \in Threads : \A c \in Calls[w] : \A v : MemInv /\ UpdateCall(w, c, v) => MemInv'
<1> SUFFICES ASSUME NEW w \in Threads, NEW c \in Calls[w], NEW v, MemInv, UpdateCall(w, c, v)
             PROVE  MemInv'
  OBVIOUS
<1> DEFINE i == c.incident
<1>1. i \in Incidents /\ rows[i] \in Row /\ facts[i] \in Nat
  BY CallsAssumption DEF UpdateCall, MemInv, Types, TypeOK, RowInv
<1>2. PICK t : t = [step |-> "read", incident |-> i, facts |-> facts[i], row |-> rows[i],
                    seen |-> rows[i], amendment |-> Amendment(c)]
  OBVIOUS
<1>3. t \in Writing
  BY <1>1, <1>2, AmendmentType DEF Writing, Held
<1>4. Move(w, t) /\ UNCHANGED <<facts, rows, provider, late, recommendations, history>>
  BY <1>2 DEF UpdateCall
<1>5. WritingInv(t)'
  <2>1. Earlier(rows[i], rows[i])
    BY <1>1, EarlierReflexive
  <2>2. t.incident = i /\ t.row = rows[i] /\ t.seen = rows[i] /\ t.amendment = Amendment(c)
    BY <1>2
  <2>3. Entered(t.amendment) \cap Feedback = {}
    BY <2>2, AmendmentType DEF UpdateCall
  <2>4. Known(i, t.row)' /\ Known(i, t.seen)'
    BY <1>4, <2>1, <2>2 DEF Known, Earlier
  <2> QED BY <2>1, <2>2, <2>3, <2>4 DEF WritingInv, Entered
<1>6. t \notin Posting /\ t \notin Settling /\ t \notin Reading /\ t \in Sessions
  BY <1>3 DEF Sessions, Writing, Posting, Settling, Reading
<1>7. TypeOK' /\ UNCHANGED <<saved, confirmed, overlapped>>
  BY <1>4 DEF MemInv, Types, TypeOK, history
<1> QED BY <1>3, <1>4, <1>5, <1>6, <1>7, SessionStep

\* What a handler that is about to save holds.
LEMMA WritingHeld ==
    ASSUME MemInv, NEW w \in Threads, session[w].step \in {"learn", "read", "save"}
    PROVE  session[w] \in Writing /\ WritingInv(session[w])
BY SessionType, KindOfStep DEF MemInv, WorkInv

LEMMA LearnReadKeeps == \A w \in Threads : MemInv /\ LearnRead(w) => MemInv'
<1> SUFFICES ASSUME NEW w \in Threads, MemInv, LearnRead(w) PROVE MemInv'
  OBVIOUS
<1> DEFINE s == session[w]
           i == s.incident
<1>1. s \in Writing /\ WritingInv(s)
  BY WritingHeld DEF LearnRead, At
<1>2. i \in Incidents /\ rows[i] \in Held
  BY <1>1 DEF Writing, MemInv, Types, TypeOK, Held
<1>3. PICK t : t = [s EXCEPT !.step = "read", !.row = rows[i],
                             !.amendment = IF Repeated(rows[i], @) THEN Unamended ELSE @]
  OBVIOUS
<1>4. Move(w, t) /\ UNCHANGED <<facts, rows, provider, late, recommendations, history>>
  BY <1>3 DEF LearnRead
<1>5. PICK am : am = s.amendment
  OBVIOUS
<1>6. /\ t.incident = i /\ t.row = rows[i] /\ t.seen = s.seen /\ t.step = "read"
      /\ t.amendment = IF Repeated(rows[i], am) THEN Unamended ELSE am
  BY <1>1, <1>3, <1>5 DEF Writing
<1>7. Unamended \in Amendments /\ Entered(Unamended) = {}
  BY DEF Unamended, Amendments, Entered
<1>8. t \in Writing
  BY <1>1, <1>2, <1>3, <1>7 DEF Writing
<1>9. WritingInv(t)'
  <2>1. PICK j \in Incidents : j = i
    BY <1>2
  <2>2. PICK r \in Held : r = rows[j]
    BY <1>2, <2>1
  <2>3. PICK e : e = s.seen
    OBVIOUS
  <2>4. facts' = facts /\ rows' = rows /\ overlapped' = overlapped
    BY <1>4 DEF history
  <2>5. r # NoRow => Earlier(r, r)
    BY EarlierReflexive DEF Held
  <2>6. Known(j, r)'
    BY <2>2, <2>4, <2>5 DEF Known
  <2>7. Watched(j) => Known(j, e)
    BY <1>1, <2>1, <2>3 DEF WritingInv
  <2>8. Watched(j)' => Known(j, e) /\ Known(j, e)'
    BY <2>4, <2>7 DEF Watched, Known
  <2>9. t.incident = j /\ t.row = r /\ t.seen = e
    BY <1>6, <2>1, <2>2, <2>3
  <2>10. Watched(j)' /\ e # NoRow => r # NoRow /\ Earlier(e, r)
    BY <2>2, <2>8 DEF Known
  <2>11. r # NoRow => Entered(r.experience) \cap Entered(t.amendment) = {}
    <3>1. CASE Repeated(r, am)
      <4>1. t.amendment = Unamended
        BY <1>6, <2>1, <2>2, <3>1
      <4> QED BY <1>7, <4>1
    <3>2. CASE ~Repeated(r, am)
      <4>1. t.amendment = am
        BY <1>6, <2>1, <2>2, <3>2
      <4> QED BY <4>1, <3>2 DEF Repeated
    <3> QED BY <3>1, <3>2
  <2> QED BY <2>6, <2>8, <2>9, <2>10, <2>11 DEF WritingInv, Entered
<1>10. t \notin Posting /\ t \notin Settling /\ t \notin Reading /\ t \in Sessions
  BY <1>8 DEF Sessions, Writing, Posting, Settling, Reading
<1>11. TypeOK' /\ UNCHANGED <<saved, confirmed, overlapped>>
  BY <1>4 DEF MemInv, Types, TypeOK, history
<1> QED BY <1>4, <1>8, <1>9, <1>10, <1>11, SessionStep

LEMMA ReadKeeps == \A w \in Threads : MemInv /\ Read(w) => MemInv'
<1> SUFFICES ASSUME NEW w \in Threads, MemInv, Read(w) PROVE MemInv'
  OBVIOUS
<1>1. PICK c : c = session[w]
  OBVIOUS
<1> DEFINE i == c.incident
<1>2. c \in Writing /\ WritingInv(c) /\ c.step = "read"
  BY <1>1, WritingHeld DEF Read, At
<1>3. PICK r : r = IF rows[i] = NoRow \/ c.row = NoRow THEN rows[i] ELSE c.row
  OBVIOUS
<1>4. i \in Incidents /\ rows[i] \in Held /\ r \in Held
  BY <1>2, <1>3 DEF Writing, MemInv, Types, TypeOK, Held
<1>5. PICK t : t = [c EXCEPT !.step = "save", !.row = r]
  OBVIOUS
<1>6. Move(w, t) /\ UNCHANGED <<facts, rows, provider, late, recommendations, history>>
  BY <1>1, <1>3, <1>5 DEF Read
<1>7. t \in Writing /\ t.incident = i /\ t.row = r /\ t.seen = c.seen /\ t.amendment = c.amendment
  BY <1>2, <1>4, <1>5 DEF Writing
<1>8. facts' = facts /\ rows' = rows /\ overlapped' = overlapped
  BY <1>6 DEF history
<1>9. WritingInv(t)'
  <2> SUFFICES ASSUME Watched(i)
               PROVE  /\ Known(i, r) /\ Known(i, c.seen)
                      /\ r # NoRow /\ c.seen # NoRow => Earlier(c.seen, r)
                      /\ c.seen # NoRow /\ Entered(c.amendment) \cap Feedback # {} =>
                           r # NoRow /\ Entered(r.experience) \cap Entered(c.amendment) = {}
    BY <1>7, <1>8 DEF WritingInv, Watched, Known, Earlier, Entered
  <2>1. /\ Known(i, c.row) /\ Known(i, c.seen)
        /\ c.row # NoRow /\ c.seen # NoRow => Earlier(c.seen, c.row)
        /\ c.seen # NoRow /\ Entered(c.amendment) \cap Feedback # {} =>
             c.row # NoRow /\ Entered(c.row.experience) \cap Entered(c.amendment) = {}
    BY <1>2 DEF WritingInv
  <2>2. rows[i] # NoRow => Earlier(rows[i], rows[i])
    BY <1>4, EarlierReflexive DEF Held
  <2>3. Known(i, r)
    BY <1>3, <2>1, <2>2 DEF Known
  <2>4. r # NoRow /\ c.seen # NoRow => Earlier(c.seen, r)
    BY <1>3, <2>1 DEF Known
  <2>5. c.seen # NoRow /\ c.row # NoRow => r = c.row
    BY <1>3, <2>1 DEF Known
  <2> QED BY <2>1, <2>3, <2>4, <2>5
<1>10. t \notin Posting /\ t \notin Settling /\ t \notin Reading /\ t \in Sessions
  BY <1>7 DEF Sessions, Writing, Posting, Settling, Reading
<1>11. TypeOK' /\ UNCHANGED <<saved, confirmed, overlapped>>
  BY <1>6 DEF MemInv, Types, TypeOK, history
<1> QED BY <1>6, <1>7, <1>9, <1>10, <1>11, SessionStep

-----------------------------------------------------------------------------
(* The two commits.                                                         *)

\* A commit of a session writes one row.
LEMMA RowStep ==
    ASSUME MemInv, NEW w \in Threads, NEW t \in Sessions, Move(w, t), TypeOK',
           NEW i \in Incidents, NEW v \in Row, rows' = [rows EXCEPT ![i] = v],
           saved' \in [Incidents -> [review : Reviews \cup {Plain}, notes : SUBSET Notes]],
           \A j \in Incidents \ {i} : saved'[j] = saved[j],
           UNCHANGED <<facts, recommendations, confirmed>>, overlapped \subseteq overlapped',
           RowInv(i)', i \notin overlapped' /\ rows[i] # NoRow => Earlier(rows[i], v),
           t \notin Writing, t \notin Reading, t \in Posting => PostingInv(t)',
           t \notin Settling
    PROVE  MemInv'
<1>1. session \in [Threads -> Sessions] /\ rows \in [Incidents -> Held]
  BY DEF MemInv, Types, TypeOK, Held
<1>2. session'[w] = t /\ \A u \in Threads \ {w} : session'[u] = session[u]
  BY <1>1 DEF Move
<1>3. Types'
  BY <1>1 DEF Move, MemInv, Types
<1>4. rows'[i] = v /\ \A j \in Incidents \ {i} : rows'[j] = rows[j]
  BY <1>1
<1>5. ASSUME NEW j \in Incidents PROVE RowInv(j)'
  <2>1. CASE j # i
    BY <1>4, <2>1 DEF MemInv, RowInv, Entered, Once
  <2> QED BY <2>1
<1>6. ASSUME NEW j \in Incidents
      PROVE  /\ Watched(j)' => Watched(j)
             /\ Watched(j)' /\ rows[j] # NoRow => rows'[j] # NoRow /\ Earlier(rows[j], rows'[j])
  <2>1. v # NoRow
    BY NothingAssumption
  <2>2. CASE j = i
    BY <1>4, <2>1, <2>2 DEF Watched
  <2>3. CASE j # i
    <3>1. rows[j] # NoRow => Earlier(rows[j], rows[j])
      BY <1>1, EarlierReflexive DEF Held
    <3> QED BY <1>4, <2>3, <3>1 DEF Watched
  <2> QED BY <2>2, <2>3
<1>7. ASSUME NEW u \in Threads PROVE WorkInv(u)'
  <2>1. CASE u = w
    BY <1>2, <2>1 DEF WorkInv
  <2>2. CASE u # w
    <3>1. Types /\ WorkInv(u) /\ session'[u] = session[u] /\ confirmed \subseteq confirmed'
      BY <1>2, <2>2 DEF MemInv
    <3> QED BY <1>3, <1>6, <3>1, WorkKept
  <2> QED BY <2>1, <2>2
<1>8. Provenance'
  BY DEF MemInv, Provenance, Sources
<1> QED BY <1>3, <1>5, <1>7, <1>8 DEF MemInv

\* What the merge keeps and what it adds.
LEMMA MergeKeeps ==
    ASSUME NEW row \in Held, NEW now \in Nat, NEW am \in Amendments,
           NEW x, x = Merged(row, now, am)
    PROVE  /\ x \in Experience
           /\ x.review = IF am.review # Plain THEN am.review
                         ELSE IF row = NoRow THEN Plain ELSE row.experience.review
           /\ row = NoRow => Entered(x) = Entered(am) /\ Once(x.notes)
           /\ row # NoRow => Entered(x) = Entered(row.experience) \cup Entered(am)
           /\ row # NoRow /\ Once(row.experience.notes)
                /\ (Entered(am) \cap Feedback # {} =>
                      Entered(row.experience) \cap Entered(am) = {})
                => Once(x.notes)
<1>0. PICK old : old = IF row = NoRow THEN <<>> ELSE row.experience.notes
  OBVIOUS
<1>1. old \in Seq(Notes) /\ (row # NoRow => row.experience \in Experience /\ row \in Row)
  BY <1>0 DEF Held, Row, Experience
<1>2. PICK n : n = am.notes
  OBVIOUS
<1>3. n \in Seq(Notes) /\ am.review \in Reviews \cup {Plain} /\ Len(n) \in {0, 1}
  <2>1. n \in {<<>>} \cup {<<m>> : m \in Notes} /\ am.review \in Reviews \cup {Plain}
    BY <1>2 DEF Amendments
  <2>2. CASE n = <<>>
    BY <2>1, <2>2
  <2>3. CASE n # <<>>
    <3>1. PICK m \in Notes : n = <<m>>
      BY <2>1, <2>3
    <3> QED BY <2>1, <3>1
  <2> QED BY <2>2, <2>3
<1>4. PICK y : y = old \o n
  OBVIOUS
<1>5. /\ x = [facts |-> now, notes |-> y,
              review |-> IF am.review # Plain THEN am.review
                         ELSE IF row = NoRow THEN Plain ELSE row.experience.review]
  BY <1>0, <1>2, <1>4 DEF Merged
<1>6. y \in Seq(Notes) /\ Len(y) = Len(old) + Len(n)
      /\ \A k \in 1..Len(y) : y[k] = IF k <= Len(old) THEN old[k] ELSE n[k - Len(old)]
  BY <1>1, <1>3, <1>4, ConcatProperties
<1>7. x \in Experience
  BY <1>1, <1>3, <1>5, <1>6 DEF Experience
<1>8. Len(n) \in {0, 1} /\ Len(old) \in Nat /\ DOMAIN n = 1..Len(n) /\ DOMAIN old = 1..Len(old)
      /\ DOMAIN y = 1..Len(y)
  BY <1>1, <1>3, <1>6
<1>9. {y[k] : k \in DOMAIN y} = {old[k] : k \in DOMAIN old} \cup {n[k] : k \in DOMAIN n}
  <2>1. ASSUME NEW k \in 1..Len(old) PROVE k \in 1..Len(y) /\ y[k] = old[k]
    BY <1>6, <1>8
  <2>2. ASSUME NEW k \in 1..Len(n) PROVE k + Len(old) \in 1..Len(y) /\ y[k + Len(old)] = n[k]
    <3>1. k + Len(old) \in 1..Len(y) /\ ~(k + Len(old) <= Len(old)) /\ k + Len(old) - Len(old) = k
      BY <1>6, <1>8
    <3> QED BY <1>6, <3>1
  <2>3. ASSUME NEW k \in 1..Len(y)
        PROVE  y[k] \in {old[l] : l \in DOMAIN old} \cup {n[l] : l \in DOMAIN n}
    <3>1. CASE k <= Len(old)
      BY <1>6, <1>8, <3>1
    <3>2. CASE k > Len(old)
      <4>1. k - Len(old) \in 1..Len(n) /\ y[k] = n[k - Len(old)]
        BY <1>6, <1>8, <3>2
      <4> QED BY <1>8, <4>1
    <3> QED BY <1>8, <3>1, <3>2
  <2> QED BY <1>8, <2>1, <2>2, <2>3
<1>10. Entered(x) = {old[k] : k \in DOMAIN old} \cup Entered(am)
  BY <1>2, <1>5, <1>9 DEF Entered
<1>11. row = NoRow => Entered(x) = Entered(am) /\ Once(x.notes)
  <2>1. row = NoRow => {old[k] : k \in DOMAIN old} = {} /\ Len(old) = 0
    BY <1>0
  <2>2. row = NoRow => Len(y) \in {0, 1}
    BY <1>3, <1>6, <2>1
  <2>3. row = NoRow => Once(y)
    BY <1>8, <2>2 DEF Once
  <2>4. x.notes = y
    BY <1>5
  <2>5. row = NoRow => Entered(x) = Entered(am)
    BY <1>10, <2>1
  <2> QED BY <2>3, <2>4, <2>5
<1>12. row # NoRow => Entered(x) = Entered(row.experience) \cup Entered(am)
  BY <1>0, <1>10 DEF Entered
<1>13. ASSUME row # NoRow, Once(row.experience.notes),
              Entered(am) \cap Feedback # {} => Entered(row.experience) \cap Entered(am) = {}
       PROVE  Once(y)
  <2> SUFFICES ASSUME NEW a \in 1..Len(y), NEW b \in 1..Len(y), a <= b, y[a] = y[b], y[a] \in Feedback
               PROVE  a = b
    BY <1>6, <1>8 DEF Once
  <2>1. CASE b <= Len(old)
    <3>1. y[a] = old[a] /\ y[b] = old[b] /\ a \in DOMAIN old /\ b \in DOMAIN old
      BY <1>6, <1>8, <2>1
    <3>2. Once(old)
      BY <1>0, <1>13
    <3> QED BY <3>1, <3>2 DEF Once
  <2>2. CASE a > Len(old)
    <3>1. Len(y) <= Len(old) + 1
      <4>1. Len(y) = Len(old) + Len(n)
        BY <1>6
      <4>2. Len(n) \in {0, 1} /\ Len(old) \in Nat
        BY <1>8
      <4>3. CASE Len(n) = 0
        BY <4>1, <4>2, <4>3
      <4>4. CASE Len(n) = 1
        BY <4>1, <4>2, <4>4
      <4> QED BY <4>2, <4>3, <4>4
    <3> QED BY <1>8, <2>2, <3>1
  <2>3. CASE a <= Len(old) /\ b > Len(old)
    <3>1. y[a] = old[a] /\ a \in DOMAIN old /\ b - Len(old) \in DOMAIN n /\ y[b] = n[b - Len(old)]
      BY <1>6, <1>8, <2>3
    <3>2. y[a] \in Entered(row.experience) /\ y[b] \in Entered(am)
      BY <1>0, <1>2, <1>13, <3>1 DEF Entered
    <3> QED BY <1>13, <3>2
  <2> QED BY <1>8, <2>1, <2>2, <2>3
<1> QED BY <1>5, <1>7, <1>11, <1>12, <1>13

LEMMA SaveKeeps == \A w \in Threads : MemInv /\ Save(w) => MemInv'
<1> SUFFICES ASSUME NEW w \in Threads, MemInv, Save(w) PROVE MemInv'
  OBVIOUS
<1>1. PICK c : c = session[w]
  OBVIOUS
<1>2. c \in Writing /\ WritingInv(c) /\ c.step = "save"
  BY <1>1, WritingHeld DEF Save, At
<1>3. PICK i \in Incidents : i = c.incident
  BY <1>2 DEF Writing
<1>4. PICK am \in Amendments : am = c.amendment
  BY <1>2 DEF Writing
<1>5. PICK row \in Held : row = c.row
  BY <1>2 DEF Writing
<1>6. PICK old \in Held : old = rows[i]
  BY DEF MemInv, Types, TypeOK, Held
<1>7. PICK x : x = Merged(row, c.facts, am)
  OBVIOUS
<1>8. PICK v : v = IF row = NoRow
                   THEN [version |-> 1, status |-> "PENDING", experience |-> x]
                   ELSE [version |-> row.version + 1,
                         status |-> Flush(row.status, "PENDING", old.status),
                         experience |-> Flush(row.experience, x, old.experience)]
  OBVIOUS
<1>9. c.facts \in Nat
  BY <1>2 DEF Writing
<1>10. x \in Experience
  BY <1>7, <1>9, MergeKeeps
<1>11. row = NoRow <=> old = NoRow
  BY <1>1, <1>3, <1>5, <1>6 DEF Save
<1>12. v \in Row /\ v # NoRow
  <2>1. v \in Row
    BY <1>8, <1>10, <1>11 DEF Row, Held, Flush
  <2> QED BY <2>1, NothingAssumption
<1>13. rows \in [Incidents -> Held]
  BY DEF MemInv, Types, TypeOK, Held
<1>14. rows' = [rows EXCEPT ![i] = v]
  BY <1>1, <1>3, <1>4, <1>5, <1>6, <1>7, <1>8, <1>13 DEF Save
<1>15. PICK t : t = [step |-> "post", incident |-> i, sent |-> x, seen |-> v]
  OBVIOUS
<1>16. Move(w, t)
  <2>1. rows'[i] = v
    BY <1>13, <1>14
  <2> QED BY <1>1, <1>3, <1>4, <1>5, <1>7, <1>15, <2>1 DEF Save
<1>17. UNCHANGED <<facts, provider, late, recommendations, confirmed>> /\ facts[i] # Nothing
  BY <1>1, <1>3 DEF Save
<1>18. overlapped \subseteq overlapped' /\ (i \notin overlapped' => c.seen = old /\ i \notin overlapped)
  BY <1>1, <1>3, <1>6 DEF Save, Overlap
<1>19. saved' = [saved EXCEPT ![i] = [review |-> IF am.review = Plain THEN @.review ELSE am.review,
                                      notes |-> @.notes \cup Entered(am)]]
  BY <1>1, <1>3, <1>4 DEF Save
<1>20. Entered(am) \subseteq Notes /\ am.review \in Reviews \cup {Plain}
  BY <1>4 DEF Amendments, Entered
<1>21. saved \in [Incidents -> [review : Reviews \cup {Plain}, notes : SUBSET Notes]]
  BY DEF MemInv, Types
<1>22. saved' \in [Incidents -> [review : Reviews \cup {Plain}, notes : SUBSET Notes]]
       /\ \A j \in Incidents \ {i} : saved'[j] = saved[j]
  BY <1>19, <1>20, <1>21
<1>23. TypeOK'
  BY <1>12, <1>13, <1>14, <1>17 DEF MemInv, Types, TypeOK, Held
\* Nobody has written the row since this handler saw it, so it has read what it saw.
<1>24. ASSUME i \notin overlapped'
       PROVE  /\ v.status = "PENDING" /\ v.experience = x
              /\ old # NoRow => Earlier(old, v) /\ row.experience = old.experience
              /\ Entered(am) \cap Feedback # {} /\ row # NoRow =>
                   Entered(row.experience) \cap Entered(am) = {}
  <2>1. Watched(i) /\ c.seen = old
    BY <1>17, <1>18, <1>24 DEF Watched
  <2>2. /\ row # NoRow => Earlier(row, old) /\ Earlier(old, row)
        /\ Entered(am) \cap Feedback # {} /\ row # NoRow =>
             Entered(row.experience) \cap Entered(am) = {}
    BY <1>2, <1>3, <1>4, <1>5, <1>6, <1>11, <2>1 DEF WritingInv, Known
  <2>3. row # NoRow => row \in Row /\ old \in Row
    BY <1>11 DEF Held
  <2>4. row # NoRow => row.version = old.version /\ row.experience = old.experience
                       /\ (row.status = "PENDING" <=> old.status = "PENDING")
    BY <2>2, <2>3 DEF Earlier, Row
  <2>5. v.status = "PENDING" /\ v.experience = x
    BY <1>8, <2>4 DEF Flush
  <2>6. row # NoRow => Earlier(old, v)
    <3>1. row # NoRow => v.version = old.version + 1
      BY <1>8, <2>4
    <3> QED BY <2>3, <3>1 DEF Earlier, Row
  <2> QED BY <1>11, <2>2, <2>4, <2>5, <2>6
<1>25. RowInv(i)'
  <2>1. facts'[i] # Nothing /\ rows'[i] = v
    BY <1>13, <1>14, <1>17
  <2>2. ASSUME i \notin overlapped'
        PROVE  /\ v.experience.review = saved'[i].review
               /\ saved'[i].notes = Entered(v.experience)
               /\ Once(v.experience.notes)
    <3>1. PICK a : a = saved[i]
      OBVIOUS
    <3>2. /\ saved'[i].review = IF am.review = Plain THEN a.review ELSE am.review
          /\ saved'[i].notes = a.notes \cup Entered(am)
      BY <1>19, <1>21, <3>1
    <3>3. i \notin overlapped /\ RowInv(i)
      BY <1>18, <2>2 DEF MemInv
    <3>4. /\ x.review = IF am.review # Plain THEN am.review
                        ELSE IF row = NoRow THEN Plain ELSE row.experience.review
          /\ row = NoRow => Entered(x) = Entered(am) /\ Once(x.notes)
          /\ row # NoRow => Entered(x) = Entered(row.experience) \cup Entered(am)
          /\ row # NoRow /\ Once(row.experience.notes)
               /\ (Entered(am) \cap Feedback # {} =>
                     Entered(row.experience) \cap Entered(am) = {})
               => Once(x.notes)
      BY <1>7, <1>9, MergeKeeps
    <3>5. CASE row = NoRow
      <4>1. a = [review |-> Plain, notes |-> {}]
        BY <1>6, <1>11, <3>1, <3>3, <3>5 DEF RowInv
      <4> QED BY <1>24, <2>2, <3>2, <3>4, <3>5, <4>1
    <3>6. CASE row # NoRow
      <4>1. row.experience = old.experience
        BY <1>11, <1>24, <2>2, <3>6
      <4>2. /\ old.experience.review = a.review
            /\ a.notes = Entered(old.experience)
            /\ Once(old.experience.notes)
        BY <1>6, <1>11, <3>1, <3>3, <3>6 DEF RowInv
      <4> QED BY <1>24, <2>2, <3>2, <3>4, <3>6, <4>1, <4>2
    <3> QED BY <3>5, <3>6
  <2>3. i \notin overlapped' => v.status # "RETAINED"
    BY <1>24
  <2> QED BY <1>12, <2>1, <2>2, <2>3 DEF RowInv, Entered, Once
<1>26. t \in Posting /\ t.incident = i /\ t.seen = v /\ t.sent = x
  BY <1>10, <1>12, <1>15 DEF Posting
<1>27. t \in Sessions /\ t \notin Writing /\ t \notin Settling /\ t \notin Reading
  BY <1>26 DEF Sessions, Posting, Writing, Settling, Reading
<1>28. PostingInv(t)'
  <2>1. rows'[i] = v /\ Earlier(v, v)
    BY <1>12, <1>13, <1>14, EarlierReflexive
  <2> QED BY <1>24, <1>26, <2>1 DEF PostingInv, Watched, Known, Earlier
<1>29. i \notin overlapped' /\ rows[i] # NoRow => Earlier(rows[i], v)
  BY <1>6, <1>24
<1> QED BY <1>12, <1>14, <1>16, <1>17, <1>18, <1>22, <1>23, <1>25, <1>27, <1>28, <1>29, RowStep

\* What a handler that has committed holds.
LEMMA PostingHeld ==
    ASSUME MemInv, NEW w \in Threads, session[w].step = "post"
    PROVE  session[w] \in Posting /\ PostingInv(session[w])
BY SessionType, KindOfStep DEF MemInv, WorkInv

LEMMA SettleKeeps == \A w \in Threads : MemInv /\ Settle(w) => MemInv'
<1> SUFFICES ASSUME NEW w \in Threads, MemInv, Settle(w) PROVE MemInv'
  OBVIOUS
<1>1. PICK c : c = session[w]
  OBVIOUS
<1>2. c \in Settling /\ SettlingInv(c)
  BY <1>1, SessionType, KindOfStep DEF Settle, At, MemInv, WorkInv
<1>3. PICK i \in Incidents : i = c.incident
  BY <1>2 DEF Settling
<1>4. rows \in [Incidents -> Held] /\ rows[i] # NoRow
  BY <1>1, <1>3 DEF Settle, MemInv, Types, TypeOK, Held
<1>5. PICK old \in Row : old = rows[i]
  BY <1>4 DEF Held
<1>6. PICK v : v = [old EXCEPT !.status = Outcome(c.reply)]
  OBVIOUS
<1>7. /\ v \in Row /\ v.version = old.version /\ v.experience = old.experience
      /\ v.status \in {"RETAINED", "UNAVAILABLE"} /\ (v.status = "RETAINED" => c.reply = "success")
  BY <1>6 DEF Row, Outcome
<1>8. rows' = [rows EXCEPT ![i] = v]
  BY <1>1, <1>3, <1>4, <1>5, <1>6 DEF Settle
<1>9. Move(w, Idle) /\ UNCHANGED <<facts, provider, late, recommendations, confirmed, saved>>
  BY DEF Settle
<1>10. overlapped \subseteq overlapped' /\ (i \notin overlapped' => c.seen = old /\ i \notin overlapped)
  BY <1>1, <1>3, <1>5 DEF Settle, Overlap
<1>11. RowInv(i)'
  <2>1. RowInv(i) /\ rows'[i] = v /\ facts'[i] # Nothing
    BY <1>4, <1>8, <1>9 DEF MemInv, RowInv
  <2>2. ASSUME i \notin overlapped', v.status = "RETAINED"
        PROVE  <<i, v.experience>> \in confirmed'
    <3>1. Watched(i)
      BY <1>9, <1>10, <2>1, <2>2 DEF Watched
    <3> QED BY <1>2, <1>3, <1>7, <1>9, <1>10, <2>2, <3>1 DEF SettlingInv
  <2>3. v # NoRow
    BY <1>7, NothingAssumption
  <2> QED BY <1>4, <1>5, <1>7, <1>9, <1>10, <2>1, <2>2, <2>3 DEF RowInv, Entered, Once
<1>12. Earlier(old, v)
  BY <1>7 DEF Earlier, Row
<1>13. Idle \in Sessions /\ Idle \notin Writing /\ Idle \notin Posting /\ Idle \notin Settling
       /\ Idle \notin Reading
  BY DEF Idle, Sessions, Writing, Posting, Settling, Reading
<1>14. saved' \in [Incidents -> [review : Reviews \cup {Plain}, notes : SUBSET Notes]]
  BY <1>9 DEF MemInv, Types
<1>15. TypeOK'
  BY <1>4, <1>7, <1>8, <1>9 DEF MemInv, Types, TypeOK, Held
<1> QED BY <1>5, <1>7, <1>8, <1>9, <1>10, <1>11, <1>12, <1>13, <1>14, <1>15, RowStep

-----------------------------------------------------------------------------
(* The post.                                                                *)

LEMMA AcknowledgeKeeps == \A w \in Threads : MemInv /\ Acknowledge(w) => MemInv'
<1> SUFFICES ASSUME NEW w \in Threads, MemInv, Acknowledge(w) PROVE MemInv'
  OBVIOUS
<1>1. PICK c : c = session[w]
  OBVIOUS
<1>2. c \in Posting /\ PostingInv(c)
  BY <1>1, PostingHeld DEF Acknowledge, At
<1>3. PICK t : t = Replied(c, "success")
  OBVIOUS
<1>4. t \in Settling /\ t.incident = c.incident /\ t.seen = c.seen
  BY <1>2, <1>3 DEF Replied, Posting, Settling
<1>5. /\ Move(w, t) /\ UNCHANGED <<facts, rows, late, recommendations, saved, overlapped>>
      /\ provider' = [provider EXCEPT ![c.incident] = c.sent]
      /\ confirmed' = confirmed \cup {<<c.incident, c.sent>>}
  BY <1>1, <1>3 DEF Acknowledge
<1>6. SettlingInv(t)'
  BY <1>2, <1>4, <1>5 DEF SettlingInv, PostingInv, Watched, Known, Earlier
<1>7. t \notin Writing /\ t \notin Posting /\ t \notin Reading /\ t \in Sessions
  BY <1>4 DEF Sessions, Writing, Posting, Settling, Reading
<1>8. TypeOK'
  BY <1>2, <1>5 DEF Posting, MemInv, Types, TypeOK
<1> QED BY <1>5, <1>6, <1>7, <1>8, SessionStep

\* A post that is not acknowledged.
LEMMA UnconfirmedKeeps ==
    ASSUME NEW w \in Threads, MemInv, session[w].step = "post",
           NEW reply \in {"none", "async"}, Move(w, Replied(session[w], reply)),
           UNCHANGED <<facts, rows, recommendations, saved, overlapped, confirmed>>, TypeOK'
    PROVE  MemInv'
<1>1. PICK c : c = session[w]
  OBVIOUS
<1>2. c \in Posting /\ PostingInv(c)
  BY <1>1, PostingHeld
<1>3. PICK t : t = Replied(c, reply)
  OBVIOUS
<1>4. t \in Settling /\ t.incident = c.incident /\ t.seen = c.seen /\ t.reply # "success"
  BY <1>2, <1>3 DEF Replied, Posting, Settling
<1>5. SettlingInv(t)'
  BY <1>2, <1>4 DEF SettlingInv, PostingInv, Watched, Known, Earlier
<1>6. t \notin Writing /\ t \notin Posting /\ t \notin Reading /\ t \in Sessions
  BY <1>4 DEF Sessions, Writing, Posting, Settling, Reading
<1>7. Move(w, t)
  BY <1>1, <1>3
<1> QED BY <1>5, <1>6, <1>7, SessionStep

LEMMA RefuseKeeps == \A w \in Threads : MemInv /\ Refuse(w) => MemInv'
<1> SUFFICES ASSUME NEW w \in Threads, MemInv, Refuse(w) PROVE MemInv'
  OBVIOUS
<1>1. PICK reply \in {"none", "async"} : Move(w, Replied(session[w], reply))
  BY DEF Refuse
<1>2. /\ session[w].step = "post" /\ TypeOK'
      /\ UNCHANGED <<facts, rows, recommendations, saved, overlapped, confirmed>>
  BY DEF Refuse, At, history, MemInv, Types, TypeOK
<1> QED BY <1>1, <1>2, UnconfirmedKeeps

LEMMA TimeOutKeeps == \A w \in Threads : MemInv /\ TimeOut(w) => MemInv'
<1> SUFFICES ASSUME NEW w \in Threads, MemInv, TimeOut(w) PROVE MemInv'
  OBVIOUS
<1>1. PICK c : c = session[w]
  OBVIOUS
<1>2. c \in Posting /\ c.step = "post"
  BY <1>1, PostingHeld DEF TimeOut, At
<1>3. /\ late' = late \cup {<<c.incident, c.sent>>}
      /\ UNCHANGED <<facts, rows, provider, recommendations, saved, overlapped, confirmed>>
      /\ Move(w, Replied(session[w], "none"))
  BY <1>1 DEF TimeOut, history
<1>4. TypeOK'
  BY <1>2, <1>3 DEF Posting, MemInv, Types, TypeOK
<1> QED BY <1>1, <1>2, <1>3, <1>4, UnconfirmedKeeps

LEMMA ArriveKeeps == \A p \in late : MemInv /\ Arrive(p) => MemInv'
<1> SUFFICES ASSUME NEW p \in late, MemInv, Arrive(p) PROVE MemInv'
  OBVIOUS
<1>1. /\ late' = late \ {p} /\ provider' = [provider EXCEPT ![p[1]] = p[2]]
      /\ UNCHANGED <<facts, rows, recommendations, session, saved, overlapped, confirmed>>
  BY DEF Arrive, history
<1>2. p[1] \in Incidents /\ p[2] \in Experience
  BY DEF MemInv, Types, TypeOK
<1>3. Types'
  BY <1>1, <1>2 DEF MemInv, Types, TypeOK
<1> QED BY <1>1, <1>3, Quiet

-----------------------------------------------------------------------------
(* Recalls and recommendations.                                             *)

\* What a handler that reads the memory holds.
LEMMA ReadingHeld ==
    ASSUME MemInv, NEW w \in Threads, session[w].step \in {"recall", "draft"}
    PROVE  session[w] \in Reading /\ ReadingInv(session[w])
BY SessionType, KindOfStep DEF MemInv, WorkInv

\* A reader's step that changes only its own session.
LEMMA ReadingStep ==
    ASSUME MemInv, NEW w \in Threads, NEW t \in Reading, Move(w, t), ReadingInv(t),
           UNCHANGED <<facts, rows, provider, late, recommendations, history>>
    PROVE  MemInv'
<1>1. t \in Sessions /\ t \notin Writing /\ t \notin Posting /\ t \notin Settling
  BY DEF Sessions, Writing, Posting, Settling, Reading
<1>2. TypeOK' /\ UNCHANGED <<saved, confirmed, overlapped>>
  BY DEF MemInv, Types, TypeOK, history
<1>3. ReadingInv(t)'
  BY <1>2 DEF ReadingInv
<1> QED BY <1>1, <1>2, <1>3, SessionStep

LEMMA AskKeeps == \A w \in Threads : \A c \in Calls[w] : MemInv /\ Ask(w, c) => MemInv'
<1> SUFFICES ASSUME NEW w \in Threads, NEW c \in Calls[w], MemInv, Ask(w, c) PROVE MemInv'
  OBVIOUS
<1>1. PICK t : t = [step |-> IF c.op = "bypass" THEN "draft" ELSE "recall", op |-> c.op,
                    incident |-> c.incident, memory |-> "bypassed", matches |-> {}]
  OBVIOUS
<1>2. t \in Reading /\ ReadingInv(t)
  BY <1>1, CallsAssumption DEF Ask, Reading, ReadingInv
<1>3. Move(w, t) /\ UNCHANGED <<facts, rows, provider, late, recommendations, history>>
  BY <1>1 DEF Ask
<1> QED BY <1>2, <1>3, ReadingStep

LEMMA RecallKeeps == \A w \in Threads : MemInv /\ Recall(w) => MemInv'
<1> SUFFICES ASSUME NEW w \in Threads, MemInv, Recall(w) PROVE MemInv'
  OBVIOUS
<1>1. PICK c : c = session[w]
  OBVIOUS
<1>2. c \in Reading /\ ReadingInv(c)
  BY <1>1, ReadingHeld DEF Recall, At
<1>3. PICK documents \in SUBSET {j \in Incidents : provider[j] # Nothing} :
        \E shown \in SUBSET Recallable(c.incident, documents) :
            Move(w, [c EXCEPT !.step = "draft", !.memory = "available",
                              !.matches = {History(j) : j \in shown}])
  BY <1>1 DEF Recall
<1> PICK shown \in SUBSET Recallable(c.incident, documents) :
        Move(w, [c EXCEPT !.step = "draft", !.memory = "available",
                          !.matches = {History(j) : j \in shown}])
  BY <1>3
<1>4. PICK found : found = {History(j) : j \in shown}
  OBVIOUS
<1>5. PICK t : t = [c EXCEPT !.step = "draft", !.memory = "available", !.matches = found]
  OBVIOUS
<1>6. ASSUME NEW m \in found
      PROVE  /\ m \in Incidents \X Experience
             /\ m[1] # c.incident /\ (m \in confirmed \/ m[1] \in overlapped)
  <2>1. PICK j \in shown : m = <<j, rows[j].experience>>
    BY <1>4 DEF History
  <2>2. /\ j \in Incidents /\ j # c.incident
        /\ rows[j] # NoRow /\ rows[j].status = "RETAINED"
    BY DEF Recallable
  <2>3. RowInv(j) /\ rows[j] \in Row
    BY <2>2 DEF MemInv, Types, TypeOK
  <2>4. rows[j].experience \in Experience
    BY <2>3 DEF Row
  <2> QED BY <2>1, <2>2, <2>3, <2>4 DEF RowInv
<1>7. /\ t \in Reading /\ t.memory = "available" /\ t.matches = found
      /\ t.incident = c.incident /\ t.step = "draft"
  BY <1>2, <1>5, <1>6 DEF Reading
<1>8. ReadingInv(t)
  BY <1>6, <1>7 DEF ReadingInv
<1>9. Move(w, t) /\ UNCHANGED <<facts, rows, provider, late, recommendations, history>>
  BY <1>3, <1>4, <1>5 DEF Recall
<1> QED BY <1>7, <1>8, <1>9, ReadingStep

LEMMA RecallUnavailableKeeps == \A w \in Threads : MemInv /\ RecallUnavailable(w) => MemInv'
<1> SUFFICES ASSUME NEW w \in Threads, MemInv, RecallUnavailable(w) PROVE MemInv'
  OBVIOUS
<1>1. PICK c : c = session[w]
  OBVIOUS
<1>2. c \in Reading /\ ReadingInv(c) /\ c.step = "recall"
  BY <1>1, ReadingHeld DEF RecallUnavailable, At
<1>3. PICK t : t = [c EXCEPT !.step = "draft", !.memory = "unavailable"]
  OBVIOUS
<1>4. Move(w, t) /\ UNCHANGED <<facts, rows, provider, late, recommendations, history>>
  BY <1>1, <1>3 DEF RecallUnavailable
<1> QED BY <1>2, <1>3, <1>4, ReadingStep DEF Reading, ReadingInv

\* A handler ends without a commit.
LEMMA EndKeeps ==
    ASSUME NEW w \in Threads, MemInv, Move(w, Idle),
           UNCHANGED <<facts, rows, provider, late, recommendations, confirmed, saved, overlapped>>
    PROVE  MemInv'
<1>1. Idle \in Sessions /\ Idle \notin Writing /\ Idle \notin Posting /\ Idle \notin Settling
      /\ Idle \notin Reading
  BY DEF Idle, Sessions, Writing, Posting, Settling, Reading
<1>2. TypeOK'
  BY DEF MemInv, Types, TypeOK
<1> QED BY <1>1, <1>2, SessionStep

LEMMA AnswerKeeps == \A w \in Threads : MemInv /\ Answer(w) => MemInv'
BY EndKeeps DEF Answer, history

LEMMA AbortKeeps == \A w \in Threads : MemInv /\ Abort(w) => MemInv'
BY EndKeeps DEF Abort

LEMMA RecommendKeeps ==
    \A w \in Threads : \A d \in Drafts : MemInv /\ Recommend(w, d) => MemInv'
<1> SUFFICES ASSUME NEW w \in Threads, NEW d \in Drafts, MemInv, Recommend(w, d) PROVE MemInv'
  OBVIOUS
<1>1. PICK c : c = session[w]
  OBVIOUS
<1>2. c \in Reading /\ ReadingInv(c)
  BY <1>1, ReadingHeld DEF Recommend, At
<1>3. PICK r : r = [incident |-> c.incident, memory |-> c.memory,
                    cited |-> d.cited, mentioned |-> d.mentioned,
                    evidence |-> {m \in c.matches : m[1] \in d.cited}]
  OBVIOUS
<1>4. /\ recommendations' = recommendations \cup {r} /\ Move(w, Idle)
      /\ UNCHANGED <<facts, rows, provider, late, saved, confirmed, overlapped>>
  BY <1>1, <1>3 DEF Recommend, history
<1>5. d.mentioned \cup d.cited \subseteq Sources(c.matches)
  BY <1>1 DEF Recommend, Accepted
<1>6. /\ r.incident \in Incidents /\ r.cited \cup r.mentioned \subseteq Incidents
      /\ r.mentioned # {} => r.memory = "available"
      /\ r.incident \notin r.mentioned
      /\ r.cited = Sources(r.evidence)
      /\ \A m \in r.evidence : m \in confirmed \/ m[1] \in overlapped
  <2>1. d.cited \subseteq Incidents /\ d.mentioned \subseteq Incidents
    BY DEF Drafts
  <2>2. c.incident \in Incidents
    BY <1>2 DEF Reading
  <2>3. d.mentioned # {} => c.memory = "available"
    BY <1>2, <1>5 DEF ReadingInv, Sources
  <2>4. c.incident \notin d.mentioned
    BY <1>2, <1>5 DEF ReadingInv, Sources
  <2>5. d.cited = Sources({m \in c.matches : m[1] \in d.cited})
    BY <1>5 DEF Sources
  <2>6. \A m \in {n \in c.matches : n[1] \in d.cited} : m \in confirmed \/ m[1] \in overlapped
    BY <1>2 DEF ReadingInv
  <2> QED BY <1>3, <2>1, <2>2, <2>3, <2>4, <2>5, <2>6
<1>7. Provenance'
  BY <1>4, <1>6 DEF MemInv, Provenance, Sources
<1>8. session \in [Threads -> Sessions] /\ Idle \in Sessions
  BY DEF MemInv, Types, Sessions
<1>9. Types'
  BY <1>4, <1>6, <1>8 DEF Move, MemInv, Types, TypeOK
<1>10. \A i \in Incidents : RowInv(i)'
  BY <1>4 DEF MemInv, RowInv, Entered, Once
<1>11. ASSUME NEW u \in Threads PROVE WorkInv(u)'
  <2>1. CASE u = w
    <3>1. session'[u] = Idle
      BY <1>4, <1>8, <2>1 DEF Move
    <3> QED BY <3>1 DEF WorkInv, Idle, Writing, Posting, Settling, Reading
  <2>2. CASE u # w
    <3>1. Types /\ WorkInv(u) /\ session'[u] = session[u]
      BY <1>4, <1>8, <2>2 DEF Move, MemInv
    <3>2. ASSUME NEW i \in Incidents
          PROVE  /\ Watched(i)' => Watched(i)
                 /\ rows[i] # NoRow => rows'[i] # NoRow /\ Earlier(rows[i], rows'[i])
      <4>1. rows[i] # NoRow => rows[i] \in Row
        BY <3>1 DEF Types, TypeOK
      <4> QED BY <1>4, <4>1, EarlierReflexive DEF Watched
    <3>3. confirmed \subseteq confirmed' /\ overlapped \subseteq overlapped'
      BY <1>4
    <3> QED BY <1>9, <3>1, <3>2, <3>3, WorkKept
  <2> QED BY <2>1, <2>2
<1> QED BY <1>7, <1>9, <1>10, <1>11 DEF MemInv

-----------------------------------------------------------------------------
(* Around the handlers, and the theorems.                                   *)

\* The incident changes, or everything is deleted: the sessions stay as they are.
LEMMA ProgressKeeps == \A i \in Incidents : MemInv /\ Progress(i) => MemInv'
<1> SUFFICES ASSUME NEW i \in Incidents, MemInv, Progress(i) PROVE MemInv'
  OBVIOUS
<1>1. /\ UNCHANGED <<rows, provider, late, recommendations, session, saved, confirmed, overlapped>>
      /\ facts' = [facts EXCEPT ![i] = @ + 1] /\ facts[i] # Nothing
  BY DEF Progress, history
<1>2. facts \in [Incidents -> Nat \cup {Nothing}]
  BY DEF MemInv, Types, TypeOK
<1>3. facts' \in [Incidents -> Nat \cup {Nothing}]
      /\ \A j \in Incidents : facts'[j] = Nothing <=> facts[j] = Nothing
  BY <1>1, <1>2, NothingAssumption
<1>4. Types'
  BY <1>1, <1>3 DEF MemInv, Types, TypeOK
<1>5. \A j \in Incidents : RowInv(j)'
  BY <1>1, <1>3 DEF MemInv, RowInv, Entered, Once
<1>6. ASSUME NEW j \in Incidents
      PROVE  /\ Watched(j)' => Watched(j)
             /\ rows[j] # NoRow => rows'[j] # NoRow /\ Earlier(rows[j], rows'[j])
  <2>1. rows[j] # NoRow => rows[j] \in Row
    BY DEF MemInv, Types, TypeOK
  <2> QED BY <1>1, <1>3, <2>1, EarlierReflexive DEF Watched
<1>7. ASSUME NEW w \in Threads PROVE WorkInv(w)'
  <2>1. Types /\ WorkInv(w) /\ session'[w] = session[w]
        /\ confirmed \subseteq confirmed' /\ overlapped \subseteq overlapped'
    BY <1>1 DEF MemInv
  <2> QED BY <1>4, <1>6, <2>1, WorkKept
<1>8. Provenance'
  BY <1>1 DEF MemInv, Provenance, Sources
<1> QED BY <1>4, <1>5, <1>7, <1>8 DEF MemInv

LEMMA ResetKeeps == MemInv /\ Reset => MemInv'
<1> SUFFICES ASSUME MemInv, Reset PROVE MemInv'
  OBVIOUS
<1>1. /\ facts' = [i \in Incidents |-> Nothing] /\ rows' = [i \in Incidents |-> NoRow]
      /\ recommendations' = {}
      /\ saved' = [i \in Incidents |-> [review |-> Plain, notes |-> {}]]
      /\ UNCHANGED <<provider, late, session, confirmed, overlapped>>
  BY DEF Reset
<1>2. Types'
  BY <1>1 DEF MemInv, Types, TypeOK
<1>3. \A i \in Incidents : RowInv(i)' /\ ~Watched(i)'
  BY <1>1 DEF RowInv, Watched
<1>4. ASSUME NEW w \in Threads PROVE WorkInv(w)'
  <2>1. Types /\ WorkInv(w) /\ session'[w] = session[w]
        /\ confirmed \subseteq confirmed' /\ overlapped \subseteq overlapped'
    BY <1>1 DEF MemInv
  <2> QED BY <1>2, <1>3, <2>1, WorkKept
<1>5. Provenance'
  BY <1>1 DEF Provenance
<1> QED BY <1>2, <1>3, <1>4, <1>5 DEF MemInv

LEMMA MemInit == Init => MemInv
<1> SUFFICES ASSUME Init PROVE MemInv
  OBVIOUS
<1>1. Types
  BY DEF Init, Types, TypeOK, Sessions
<1>2. \A i \in Incidents : RowInv(i)
  BY NothingAssumption DEF Init, RowInv
<1>3. \A w \in Threads : WorkInv(w)
  BY DEF Init, WorkInv, Idle, Writing, Posting, Settling, Reading
<1>4. Provenance
  BY DEF Init, Provenance
<1> QED BY <1>1, <1>2, <1>3, <1>4 DEF MemInv

LEMMA MemNext == MemInv /\ [Next]_vars => MemInv'
<1> SUFFICES ASSUME MemInv, [Next]_vars PROVE MemInv'
  OBVIOUS
<1>1. CASE UNCHANGED vars
  <2>1. UNCHANGED <<facts, rows, saved, recommendations, session, confirmed, overlapped>>
    BY <1>1 DEF vars
  <2>2. Types'
    BY <1>1 DEF vars, MemInv, Types, TypeOK
  <2> QED BY <2>1, <2>2, Quiet
<1>2. ASSUME NEW w \in Threads, Proceed(w) PROVE MemInv'
  BY <1>2, LearnReadKeeps, ReadKeeps, SaveKeeps, AcknowledgeKeeps, RefuseKeeps, TimeOutKeeps,
     SettleKeeps, RecallKeeps, RecallUnavailableKeeps, AnswerKeeps DEF Proceed
<1>3. ASSUME NEW w \in Threads, NEW c \in Calls[w], Call(w, c) \/ Ask(w, c) PROVE MemInv'
  BY <1>3, CallKeeps, AskKeeps
<1>4. ASSUME NEW w \in Threads, NEW c \in Calls[w], NEW v, UpdateCall(w, c, v) PROVE MemInv'
  BY <1>4, UpdateCallKeeps
<1>5. ASSUME NEW w \in Threads, NEW d \in Drafts, Recommend(w, d) PROVE MemInv'
  BY <1>5, RecommendKeeps
<1>6. ASSUME NEW w \in Threads, Abort(w) PROVE MemInv'
  BY <1>6, AbortKeeps
<1>7. ASSUME NEW p \in late, Arrive(p) PROVE MemInv'
  BY <1>7, ArriveKeeps
<1>8. ASSUME NEW i \in Incidents, Progress(i) PROVE MemInv'
  BY <1>8, ProgressKeeps
<1> QED BY <1>1, <1>2, <1>3, <1>4, <1>5, <1>6, <1>7, <1>8, ResetKeeps DEF Next

LEMMA MemInvariant == Spec => []MemInv
BY MemInit, MemNext, PTL DEF Spec

\* Every variable stays in its type (hindsight.py, models.py).
THEOREM MemoryTypes == Spec => []TypeOK
<1>1. MemInv => TypeOK
  BY DEF MemInv, Types
<1> QED BY <1>1, MemInvariant, PTL

\* No retain, hook, learn, update or failed post loses what analysts wrote or enters a
\* decision twice, as long as no handler saves over a row it has not seen
\* (hindsight.py:129-144,205-208).
THEOREM MemoryNotesKept == Spec => []NotesKept
<1>1. MemInv => NotesKept
  BY DEF MemInv, RowInv, NotesKept
<1> QED BY <1>1, MemInvariant, PTL

\* What a recall shows was acknowledged by the provider as it is shown (hindsight.py:193-199).
THEOREM MemoryShown == Spec => []ShownWasConfirmed
<1>1. MemInv => ShownWasConfirmed
  BY ReadingHeld DEF ShownWasConfirmed, At, ReadingInv
<1> QED BY <1>1, MemInvariant, PTL

\* A stored recommendation only speaks of history that was recalled for it (agent.py:103-136).
THEOREM MemoryProvenance == Spec => []Provenance
<1>1. MemInv => Provenance
  BY DEF MemInv
<1> QED BY <1>1, MemInvariant, PTL
=============================================================================
