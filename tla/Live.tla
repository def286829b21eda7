-------------------------------- MODULE Live --------------------------------
(***************************************************************************)
(* The live monitor: handlers that store a record and then publish it      *)
(* (api/web_security.py), the broker that fans notifications out to one    *)
(* bounded queue per connection (services/realtime.py), the stream that    *)
(* drains a queue, the connection, and the page that shows what it gets    *)
(* (frontend/src/LiveSecurity.jsx), one of its two lists.                  *)
(*                                                                         *)
(* Everything in the process runs on one event loop: an action reaches     *)
(* from one await to the next.  A record is stored in versions, as an      *)
(* aggregated attack is, and its deletion is the last one; a notification  *)
(* carries the version its handler has committed.  One that has no row (a  *)
(* replay step, a response) counts as one of a record too.  A message      *)
(* stands in queues and history as its number in log, the sequence of all  *)
(* messages.                                                               *)
(***************************************************************************)
EXTENDS Naturals, Sequences, FiniteSets

CONSTANTS
    Clients, Records,
    Handlers,     \* requests in progress
    Loads,        \* loads that a page may be waiting for
    HISTORY_SIZE, QUEUE_SIZE,
    LOADED, KEPT, \* rows that a load asks for, and that the page keeps
    TRANSIT,      \* messages that fit into a connection
    MaxVersion,   \* bound: versions of a record
    MaxPublished, \* bound: notifications between two starts of the process
    Idle, Nothing

ASSUME SizesAssumption ==
    /\ HISTORY_SIZE \in Nat \ {0} /\ QUEUE_SIZE \in Nat \ {0}
    /\ LOADED \in Nat /\ KEPT \in Nat /\ TRANSIT \in Nat
    /\ MaxVersion \in Nat /\ MaxPublished \in Nat

ASSUME NothingAssumption ==
    /\ Nothing \notin Seq(Nat) /\ Nothing \notin Nat
    /\ Nothing \notin [Records -> 0..MaxVersion]
    /\ Idle \notin [record : Records, version : 1..MaxVersion]

VARIABLES
    stored,  \* the database: the version of every record, 0 for none
    handler, \* what a handler has committed and not yet published
    history, \* EventBroker.history
    queue,   \* per client: its queue among EventBroker.subscribers, or Nothing
    stream,  \* per client: where its stream is
    hand,    \* per client: the message its stream has taken from the queue
    wire,    \* per client: the messages that were sent to it and have not arrived
    page,    \* per client: the answers to its page's loads, on their way
    shown,   \* per client: the version of every record that its page shows, 0 for no row
    \* history variables:
    log,     \* all messages since the process started
    seen,    \* per client: the last message sent to it, or the last one before it came
    missed   \* per client: records of which it may have missed the last news

broker == <<history, queue, stream, hand, wire, log, seen>>
browser == <<page, shown>>
vars == <<stored, handler, broker, browser, missed>>

Message == [record : Records, version : 1..MaxVersion]
Numbers == 1..Len(log)
Versions == [Records -> 0..MaxVersion]

Init ==
    /\ stored = [r \in Records |-> 0]
    /\ handler = [h \in Handlers |-> Idle]
    /\ history = <<>>
    /\ queue = [c \in Clients |-> Nothing]
    /\ stream = [c \in Clients |-> "closed"]
    /\ hand = [c \in Clients |-> Nothing]
    /\ wire = [c \in Clients |-> <<>>]
    /\ page = [c \in Clients |-> [l \in Loads |-> Nothing]]
    /\ shown = [c \in Clients |-> stored]
    /\ log = <<>>
    /\ seen = [c \in Clients |-> 0]
    /\ missed = [c \in Clients |-> {}]

\* The last n elements of a sequence, all of them when there are fewer.
Newest(s, n) == IF Len(s) <= n THEN s ELSE SubSeq(s, Len(s) - n + 1, Len(s))

\* The records that rows has nothing of, or an older version than other.
Behind(rows, other) == {r \in Records : rows[r] < other[r]}

\* What a list limited to n rows may show of these.  Which go is left open: the page cuts
\* requests in the order of their arrival, attacks by severity, a load cuts both by time.
Limited(rows, n) ==
    LET present == {r \in Records : rows[r] > 0}
        kept == {S \in SUBSET present :
                    IF Cardinality(present) <= n THEN S = present ELSE Cardinality(S) = n}
    IN  {[r \in Records |-> IF r \in S THEN rows[r] ELSE 0] : S \in kept}

-----------------------------------------------------------------------------
(* The handlers.                                                            *)

\* A request is stored, and its handler awaits the search index.
Store(h, r) ==
    /\ handler[h] = Idle
    /\ stored[r] < MaxVersion
    /\ stored' = [stored EXCEPT ![r] = @ + 1]
    /\ handler' = [handler EXCEPT ![h] = [record |-> r, version |-> stored[r] + 1]]
    /\ UNCHANGED <<broker, browser, missed>>

\* A record is stored or deleted, and no client of this process gets word of it: the load
\* of the NovaBank scenario, the demo reset, the web reset (it tells pages to load again,
\* not which rows are gone), and whatever another process does.
StoreSilently(r) ==
    /\ stored[r] < MaxVersion
    /\ stored' = [stored EXCEPT ![r] = @ + 1]
    /\ missed' = [c \in Clients |-> missed[c] \cup {r}]
    /\ UNCHANGED <<handler, broker, browser>>

\* Mutant: a full queue takes no more.
PushIfRoom(q, m) == IF Len(q) = QUEUE_SIZE THEN q ELSE Append(q, m)

\* Mutant: the oldest message is left in a full queue.
PushOverLimit(q, m) == Append(q, m)

\* Mutant: a full queue loses its newest message.
PushOverNewest(q, m) == Append(IF Len(q) = QUEUE_SIZE THEN SubSeq(q, 1, QUEUE_SIZE - 1) ELSE q, m)

\* A full queue loses its oldest message.
Push(q, m) == Append(IF Len(q) = QUEUE_SIZE THEN Tail(q) ELSE q, m)

\* The records whose messages are in a queue, or on their way to a client.
Waiting(q) == {log[q[i]].record : i \in 1..Len(q)}
Pending(c) == (IF queue[c] = Nothing THEN {} ELSE Waiting(queue[c]))
                \cup (IF hand[c] = Nothing THEN {} ELSE {log[hand[c]].record})
                \cup Waiting(wire[c])

\* The news of h is the last of its record, and an older one than the database has.
LateNews(h) ==
    /\ handler[h].version < stored[handler[h].record]
    /\ \A k \in Handlers : handler[k] # Idle /\ handler[k].record = handler[h].record
                              => handler[k].version <= handler[h].version

\* The page of c shows this version of the record, or has it in an answer on its way.
Knows(c, m) == \/ shown[c][m.record] >= m.version
               \/ \E l \in Loads : page[c][l] # Nothing /\ page[c][l][m.record] >= m.version

\* What c misses when h publishes: the news, if it is late or c has no stream; the oldest
\* news in its queue, if that is full.
Missing(c, h) ==
    (IF LateNews(h) \/ (queue[c] = Nothing /\ ~Knows(c, handler[h]))
     THEN {handler[h].record} ELSE {})
    \cup (IF queue[c] # Nothing /\ Len(queue[c]) = QUEUE_SIZE
          THEN {log[Head(queue[c])].record} ELSE {})

\* It publishes what it has committed, to all connections in one go.
Publish(h) ==
    LET n == Len(log) + 1
    IN  /\ handler[h] # Idle
        /\ n <= MaxPublished
        /\ log' = Append(log, handler[h])
        /\ history' = Newest(Append(history, n), HISTORY_SIZE)
        /\ queue' = [c \in Clients |-> IF queue[c] = Nothing THEN Nothing ELSE Push(queue[c], n)]
        /\ handler' = [handler EXCEPT ![h] = Idle]
        /\ missed' = [c \in Clients |-> missed[c] \cup Missing(c, h)]
        /\ UNCHANGED <<stored, stream, hand, wire, browser, seen>>

\* The search index is configured wrongly or its name does not resolve: the error is not
\* caught (the connector is built before the try), and nobody is notified.
IndexFails(h) ==
    /\ handler[h] # Idle
    /\ missed' = [c \in Clients |-> missed[c] \cup {handler[h].record}]
    /\ handler' = [handler EXCEPT ![h] = Idle]
    /\ UNCHANGED <<stored, broker, browser>>

-----------------------------------------------------------------------------
(* The streams.                                                             *)

\* A connection is accepted and greeted: the page says LIVE.
Connect(c) ==
    /\ stream[c] \in {"closed", "away"}
    /\ stream' = [stream EXCEPT ![c] = "greeted"]
    /\ UNCHANGED <<stored, handler, history, queue, hand, wire, browser, log, seen, missed>>

\* Only when the greeting is out is the queue registered.
Subscribe(c) ==
    /\ stream[c] = "greeted"
    /\ stream' = [stream EXCEPT ![c] = "waiting"]
    /\ queue' = [queue EXCEPT ![c] = <<>>]
    /\ seen' = [seen EXCEPT ![c] = Len(log)]
    /\ UNCHANGED <<stored, handler, history, hand, wire, browser, log, missed>>

\* Mutant: the newest message is taken first.
TakeNewest(c) ==
    /\ stream[c] = "waiting"
    /\ queue[c] # <<>>
    /\ hand' = [hand EXCEPT ![c] = queue[c][Len(queue[c])]]
    /\ queue' = [queue EXCEPT ![c] = SubSeq(@, 1, Len(@) - 1)]
    /\ stream' = [stream EXCEPT ![c] = "sending"]
    /\ UNCHANGED <<stored, handler, history, wire, browser, log, seen, missed>>

\* A message is taken; the stream awaits to know whether the client is still there.
Take(c) ==
    /\ stream[c] = "waiting"
    /\ queue[c] # <<>>
    /\ hand' = [hand EXCEPT ![c] = Head(queue[c])]
    /\ queue' = [queue EXCEPT ![c] = Tail(@)]
    /\ stream' = [stream EXCEPT ![c] = "sending"]
    /\ UNCHANGED <<stored, handler, history, wire, browser, log, seen, missed>>

\* The message is sent, as soon as the connection takes it.
Send(c) ==
    /\ stream[c] = "sending"
    /\ Len(wire[c]) < TRANSIT
    /\ seen' = [seen EXCEPT ![c] = hand[c]]
    /\ wire' = [wire EXCEPT ![c] = Append(@, hand[c])]
    /\ hand' = [hand EXCEPT ![c] = Nothing]
    /\ stream' = [stream EXCEPT ![c] = "waiting"]
    /\ UNCHANGED <<stored, handler, history, queue, browser, log, missed>>

\* The connection breaks, and what is in it is lost; the generator ends and its queue is
\* discarded.  The browser will connect again.
Disconnect(c) ==
    /\ stream[c] \notin {"closed", "away"}
    /\ stream' = [stream EXCEPT ![c] = "away"]
    /\ queue' = [queue EXCEPT ![c] = Nothing]
    /\ hand' = [hand EXCEPT ![c] = Nothing]
    /\ wire' = [wire EXCEPT ![c] = <<>>]
    /\ missed' = [missed EXCEPT ![c] = @ \cup Pending(c)]
    /\ UNCHANGED <<stored, handler, history, browser, log, seen>>

-----------------------------------------------------------------------------
(* The page.                                                                *)

\* The page is opened anew: it starts to load, and the server reads the database.
Open(c, l) ==
    /\ \E rows \in Limited(stored, LOADED) :
        /\ page' = [page EXCEPT ![c] = [k \in Loads |-> IF k = l THEN rows ELSE Nothing]]
        /\ missed' = [missed EXCEPT ![c] = Behind(rows, stored)]
    /\ shown' = [shown EXCEPT ![c] = [r \in Records |-> 0]]
    /\ stream' = [stream EXCEPT ![c] = "closed"]
    /\ queue' = [queue EXCEPT ![c] = Nothing]
    /\ hand' = [hand EXCEPT ![c] = Nothing]
    /\ wire' = [wire EXCEPT ![c] = <<>>]
    /\ UNCHANGED <<stored, handler, history, log, seen>>

\* It loads again, after a replay, a reset or a change of an attack.
Reload(c, l) ==
    /\ page[c][l] = Nothing
    /\ \E rows \in Limited(stored, LOADED) :
        /\ page' = [page EXCEPT ![c][l] = rows]
        /\ missed' = [missed EXCEPT ![c] = @ \cup Behind(rows, stored)]
    /\ UNCHANGED <<stored, handler, broker, shown>>

\* The answer replaces whatever the page shows by then.
Loaded(c, l) ==
    /\ page[c][l] # Nothing
    /\ shown' = [shown EXCEPT ![c] = page[c][l]]
    /\ page' = [page EXCEPT ![c][l] = Nothing]
    /\ missed' = [missed EXCEPT ![c] = @ \cup Behind(page[c][l], shown[c])]
    /\ UNCHANGED <<stored, handler, broker>>

\* The load fails, and the page keeps what it shows.
LoadFails(c, l) ==
    /\ page[c][l] # Nothing
    /\ page' = [page EXCEPT ![c][l] = Nothing]
    /\ missed' = [missed EXCEPT ![c] = @ \cup Behind(shown[c], page[c][l])]
    /\ UNCHANGED <<stored, handler, broker, shown>>

\* A message arrives: its record takes the place of the one shown, and the list is cut.
Receive(c) ==
    /\ wire[c] # <<>>
    /\ LET m == log[Head(wire[c])]
           all == [shown[c] EXCEPT ![m.record] = m.version]
       IN  \E rows \in Limited(all, KEPT) :
            /\ shown' = [shown EXCEPT ![c] = rows]
            /\ missed' = [missed EXCEPT ![c] = @ \cup Behind(rows, all)]
    /\ wire' = [wire EXCEPT ![c] = Tail(@)]
    /\ UNCHANGED <<stored, handler, history, queue, stream, hand, page, log, seen>>

\* The process restarts: what only it knew is gone.
Restart ==
    /\ handler' = [h \in Handlers |-> Idle]
    /\ history' = <<>>
    /\ queue' = [c \in Clients |-> Nothing]
    /\ hand' = [c \in Clients |-> Nothing]
    /\ wire' = [c \in Clients |-> <<>>]
    /\ stream' = [c \in Clients |-> IF stream[c] = "closed" THEN "closed" ELSE "away"]
    /\ log' = <<>>
    /\ seen' = [c \in Clients |-> 0]
    /\ missed' = [c \in Clients |-> missed[c] \cup Pending(c)
            \cup {handler[h].record : h \in {k \in Handlers : handler[k] # Idle}}]
    /\ UNCHANGED <<stored, browser>>

Serve(c) == Subscribe(c) \/ Take(c) \/ Send(c)

Next ==
    \/ \E h \in Handlers : Publish(h) \/ IndexFails(h) \/ \E r \in Records : Store(h, r)
    \/ \E r \in Records : StoreSilently(r)
    \/ \E c \in Clients : Serve(c) \/ Connect(c) \/ Disconnect(c) \/ Receive(c)
    \/ \E c \in Clients, l \in Loads :
            Open(c, l) \/ Reload(c, l) \/ Loaded(c, l) \/ LoadFails(c, l)
    \/ Restart

\* The event loop runs every stream that has something to do; browsers read what arrives.
Spec == Init /\ [][Next]_vars /\ \A c \in Clients : WF_vars(Serve(c)) /\ WF_vars(Receive(c))

-----------------------------------------------------------------------------
(* Properties.                                                              *)

TypeOK ==
    /\ stored \in Versions
    /\ handler \in [Handlers -> Message \cup {Idle}]
    /\ log \in Seq(Message)
    /\ history \in Seq(Numbers) /\ Len(history) <= HISTORY_SIZE
    /\ queue \in [Clients -> Seq(Numbers) \cup {Nothing}]
    /\ \A c \in Clients :
        /\ queue[c] # Nothing => Len(queue[c]) <= QUEUE_SIZE
        /\ queue[c] # Nothing <=> stream[c] \in {"waiting", "sending"}
        /\ hand[c] # Nothing <=> stream[c] = "sending"
    /\ stream \in [Clients -> {"closed", "greeted", "waiting", "sending", "away"}]
    /\ hand \in [Clients -> Numbers \cup {Nothing}]
    /\ wire \in [Clients -> Seq(Numbers)]
    /\ \A c \in Clients : Len(wire[c]) <= TRANSIT
    /\ page \in [Clients -> [Loads -> Versions \cup {Nothing}]]
    /\ shown \in [Clients -> Versions]
    /\ seen \in [Clients -> 0..Len(log)]
    /\ missed \in [Clients -> SUBSET Records]

\* The q in a queue or the history are the newest messages, without a hole.
AreNewest(q) == \A i \in 1..Len(q) : q[i] = Len(log) - Len(q) + i

\* What waits for a client is the newest run of what was published and it has not seen, and
\* what its stream has in hand comes in between:
\* a slow client loses old notifications, never new ones (realtime.py:28-35).  What a
\* newcomer can ask for, the history, ends at the same message.
QueueIsNewest ==
    /\ AreNewest(history)
    /\ \A c \in Clients : queue[c] # Nothing =>
        /\ AreNewest(queue[c])
        /\ seen[c] + Len(queue[c]) <= Len(log)
        /\ hand[c] # Nothing => seen[c] < hand[c] /\ hand[c] + Len(queue[c]) <= Len(log)

\* The queues and streams implement the feed: in order, at most once.
F == INSTANCE Feed WITH published <- Len(log)
ImplementsFeed == F!Spec

\* A page that nothing is on its way to shows of a record what is stored, unless it missed
\* the news in one of these ways: the record was stored or deleted without a notification
\* (novabank.py:52, routes.py:1152-1195); the index failed the handler, or the process
\* stopped, before it was published; an older version was published later; the page had no
\* stream when it was (web_security.py:83-90,493-511); its full queue lost the message
\* (realtime.py:30-35); the connection broke under it; a load left it out or failed, or
\* replaced a newer message; the page cut its row (LiveSecurity.jsx:138-163).
FreshUnlessMissed ==
    \A c \in Clients : \A r \in Records :
        (/\ stream[c] = "waiting" /\ queue[c] = <<>> /\ wire[c] = <<>>
         /\ \A l \in Loads : page[c][l] = Nothing
         /\ r \notin missed[c]
         /\ \A h \in Handlers : handler[h] # Idle => handler[h].record # r)
            => shown[c][r] = stored[r]

\* A client that stays connected gets the newest notification, or a newer one, however
\* slow it is (realtime.py:30-35,44).
NewestArrives ==
    \A c \in Clients : \A n \in 1..MaxPublished :
        (stream[c] = "waiting" /\ queue[c] # <<>> /\ Len(log) = n)
            ~> (seen[c] >= n \/ stream[c] \in {"closed", "away"})
=============================================================================
