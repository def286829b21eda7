------------------------------ MODULE Live_proofs ------------------------------
(***************************************************************************)
(* Proofs about Live: for every number of clients, handlers and records,   *)
(* every size of queues and history, the broker implements Feed, and a page *)
(* shows what is stored unless it missed the news in a way that is named.  *)
(***************************************************************************)
EXTENDS Live, SequenceTheorems, TLAPS

LiveInv == TypeOK /\ QueueIsNewest

\* q is the newest part of k messages.
Run(q, k) == q \in Seq(1..k) /\ \A i \in 1..Len(q) : q[i] = k - Len(q) + i

-----------------------------------------------------------------------------
(* Lemmas about the queues. *)

\* A run is no longer than what it is the newest part of.
LEMMA RunLength ==
    ASSUME NEW k \in Nat, NEW q, Run(q, k)
    PROVE  Len(q) \in Nat /\ Len(q) <= k
<1>1. Len(q) \in Nat
  BY DEF Run
<1>2. CASE Len(q) = 0
  BY <1>1, <1>2
<1>3. CASE Len(q) > 0
  <2>1. q[1] \in 1..k /\ q[1] = k - Len(q) + 1
    BY <1>1, <1>3 DEF Run
  <2> QED BY <1>1, <2>1
<1> QED BY <1>1, <1>2, <1>3

\* The next message extends a run.
LEMMA AppendRun ==
    ASSUME NEW k \in Nat, NEW q, Run(q, k)
    PROVE  Run(Append(q, k + 1), k + 1) /\ Len(Append(q, k + 1)) = Len(q) + 1
<1>1. q \in Seq(1..(k + 1)) /\ k + 1 \in 1..(k + 1) /\ Len(q) \in Nat
  <2>1. 1..k \subseteq 1..(k + 1)
    OBVIOUS
  <2>2. \A i \in 1..Len(q) : q[i] \in 1..(k + 1)
    BY <2>1 DEF Run
  <2> QED BY <2>2 DEF Run
<1>2. /\ Append(q, k + 1) \in Seq(1..(k + 1))
      /\ Len(Append(q, k + 1)) = Len(q) + 1
      /\ \A i \in 1..Len(q) : Append(q, k + 1)[i] = q[i]
      /\ Append(q, k + 1)[Len(q) + 1] = k + 1
  BY <1>1, AppendProperties
<1>3. \A i \in 1..(Len(q) + 1) : Append(q, k + 1)[i] = (k + 1) - (Len(q) + 1) + i
  BY <1>1, <1>2 DEF Run
<1> QED BY <1>2, <1>3 DEF Run

\* What remains of a run without its first message is a run.
LEMMA TailRun ==
    ASSUME NEW k \in Nat, NEW q, Run(q, k), q # <<>>
    PROVE  /\ Run(Tail(q), k) /\ Len(Tail(q)) = Len(q) - 1 /\ Len(q) > 0
           /\ Head(q) \in 1..k /\ Head(q) = k - Len(q) + 1
<1>1. /\ Tail(q) \in Seq(1..k) /\ Len(Tail(q)) = Len(q) - 1
      /\ \A i \in 1..Len(Tail(q)) : Tail(q)[i] = q[i + 1]
  BY HeadTailProperties DEF Run
<1>2. Len(q) \in Nat /\ Len(q) > 0
  BY DEF Run
<1>3. Head(q) = q[1] /\ 1 \in 1..Len(q)
  BY <1>2
<1>4. Head(q) \in 1..k /\ Head(q) = k - Len(q) + 1
  BY <1>2, <1>3 DEF Run
<1> QED BY <1>1, <1>2, <1>4 DEF Run

\* A queue that takes the next message stays the newest run and within its size.
LEMMA PushRun ==
    ASSUME NEW k \in Nat, NEW q, Run(q, k), Len(q) <= QUEUE_SIZE
    PROVE  /\ Run(Push(q, k + 1), k + 1)
           /\ Len(Push(q, k + 1)) <= QUEUE_SIZE
           /\ Len(Push(q, k + 1)) <= Len(q) + 1
<1>1. Len(q) \in Nat /\ QUEUE_SIZE \in Nat \ {0}
  BY RunLength, SizesAssumption
<1>2. CASE Len(q) = QUEUE_SIZE
  <2>1. q # <<>>
    BY <1>1, <1>2
  <2>2. Run(Tail(q), k) /\ Len(Tail(q)) = Len(q) - 1
    BY <2>1, TailRun
  <2>3. Run(Append(Tail(q), k + 1), k + 1) /\ Len(Append(Tail(q), k + 1)) = Len(q)
    BY <1>1, <2>2, AppendRun
  <2> QED BY <1>1, <1>2, <2>3 DEF Push
<1>3. CASE Len(q) # QUEUE_SIZE
  BY <1>1, <1>3, AppendRun DEF Push
<1> QED BY <1>2, <1>3

\* The newest part of a run is a run.
LEMMA NewestRun ==
    ASSUME NEW k \in Nat, NEW q, Run(q, k), NEW n \in Nat
    PROVE  Run(Newest(q, n), k) /\ Len(Newest(q, n)) <= n
<1>1. Len(q) \in Nat /\ Len(q) <= k
  BY RunLength
<1>2. CASE Len(q) <= n
  BY <1>2 DEF Newest
<1>3. CASE Len(q) > n
  <2> DEFINE a == Len(q) - n + 1
             s == SubSeq(q, a, Len(q))
  <2>1. a \in 1..(Len(q) + 1) /\ Newest(q, n) = s
    BY <1>1, <1>3 DEF Newest
  <2>2. \A i \in a..Len(q) : q[i] \in 1..k
    BY <1>1, <2>1 DEF Run
  <2>3. /\ s \in Seq(1..k)
        /\ Len(s) = IF a <= Len(q) THEN Len(q) - a + 1 ELSE 0
        /\ \A i \in 1..(Len(q) - a + 1) : s[i] = q[a + i - 1]
    BY <1>1, <2>1, <2>2, SubSeqProperties
  <2>4. Len(s) = n
    BY <1>1, <1>3, <2>3
  <2>5. \A i \in 1..Len(s) : s[i] = k - Len(s) + i
    <3> SUFFICES ASSUME NEW i \in 1..Len(s) PROVE s[i] = k - Len(s) + i
      OBVIOUS
    <3>1. s[i] = q[a + i - 1] /\ a + i - 1 \in 1..Len(q)
      BY <1>1, <1>3, <2>3, <2>4
    <3>2. q[a + i - 1] = k - Len(q) + (a + i - 1)
      BY <3>1 DEF Run
    <3>3. i \in 1..n
      BY <2>4
    <3> QED BY <1>1, <2>4, <3>1, <3>2, <3>3
  <2> HIDE DEF s, a
  <2>6. s \in Seq(1..k)
    BY <2>3
  <2>7. Run(s, k) /\ Len(s) <= n
    BY <2>4, <2>5, <2>6 DEF Run
  <2> QED BY <2>1, <2>7
<1> QED BY <1>1, <1>2, <1>3

\* A sequence of numbers is not Nothing.
LEMMA NotNothing ==
    ASSUME NEW k \in Nat, NEW q \in Seq(1..k)
    PROVE  q # Nothing
<1>1. 1..k \subseteq Nat
  OBVIOUS
<1>2. q \in Seq(Nat)
  BY <1>1, SeqMonotonic
<1> QED BY <1>2, NothingAssumption

\* The invariant, in terms of runs.
LEMMA Runs ==
    ASSUME LiveInv
    PROVE  /\ Len(log) \in Nat
           /\ Run(history, Len(log))
           /\ \A c \in Clients : queue[c] # Nothing => Run(queue[c], Len(log))
           /\ \A c \in Clients : hand[c] # Nothing => hand[c] \in 1..Len(log)
           /\ \A c \in Clients : wire[c] \in Seq(1..Len(log))
  BY DEF LiveInv, TypeOK, QueueIsNewest, AreNewest, Run, Numbers

\* And back.
LEMMA FromRuns ==
    ASSUME log \in Seq(Message), Run(history, Len(log)),
           queue \in [Clients -> Seq(Numbers) \cup {Nothing}],
           \A c \in Clients : queue[c] # Nothing => Run(queue[c], Len(log))
    PROVE  /\ history \in Seq(Numbers) /\ AreNewest(history)
           /\ \A c \in Clients : queue[c] # Nothing => AreNewest(queue[c])
  BY DEF Run, AreNewest, Numbers

\* Nothing is under way in an empty connection.
LEMMA EmptyWire == Len(<<>>) <= TRANSIT /\ \A S : <<>> \in Seq(S)
BY EmptySeq, SizesAssumption

-----------------------------------------------------------------------------
(* The invariant. *)

THEOREM LiveInit == Init => LiveInv
<1> SUFFICES ASSUME Init PROVE LiveInv
  OBVIOUS
<1> USE DEF Init
<1>1. MaxVersion \in Nat /\ HISTORY_SIZE \in Nat /\ QUEUE_SIZE \in Nat
  BY SizesAssumption
<1>2. stored \in Versions
  BY <1>1 DEF Versions
<1>3. TypeOK
  <2>1. wire \in [Clients -> Seq(Numbers)] /\ \A c \in Clients : Len(wire[c]) <= TRANSIT
    BY EmptyWire
  <2>2. history \in Seq(Numbers) /\ Len(history) <= HISTORY_SIZE /\ log \in Seq(Message)
    BY <1>1, EmptySeq
  <2>3. page \in [Clients -> [Loads -> Versions \cup {Nothing}]]
    OBVIOUS
  <2>4. /\ handler \in [Handlers -> Message \cup {Idle}] /\ shown \in [Clients -> Versions]
        /\ hand \in [Clients -> Numbers \cup {Nothing}] /\ missed \in [Clients -> SUBSET Records]
        /\ queue \in [Clients -> Seq(Numbers) \cup {Nothing}]
        /\ seen \in [Clients -> 0..Len(log)]
    BY <1>2
  <2> QED BY <1>2, <2>1, <2>2, <2>3, <2>4 DEF TypeOK
<1>4. QueueIsNewest
  BY DEF QueueIsNewest, AreNewest
<1> QED BY <1>3, <1>4 DEF LiveInv

\* What a page, the database and the handlers do leaves the queues alone.
LEMMA StoreKeeps == \A h \in Handlers : \A r \in Records : LiveInv /\ Store(h, r) => LiveInv'
<1> SUFFICES ASSUME LiveInv, NEW h \in Handlers, NEW r \in Records, Store(h, r) PROVE LiveInv'
  OBVIOUS
<1> USE DEF Store, broker, browser
<1>1. stored[r] + 1 \in 1..MaxVersion /\ stored[r] + 1 \in 0..MaxVersion
  BY SizesAssumption DEF LiveInv, TypeOK, Versions
<1>2. stored' \in Versions
  BY <1>1 DEF LiveInv, TypeOK, Versions
<1>3. handler' \in [Handlers -> Message \cup {Idle}]
  BY <1>1 DEF LiveInv, TypeOK, Message
<1>4. TypeOK'
  BY <1>2, <1>3 DEF LiveInv, TypeOK, Numbers
<1>5. QueueIsNewest'
  BY DEF LiveInv, QueueIsNewest, AreNewest
<1> QED BY <1>4, <1>5 DEF LiveInv

LEMMA StoreSilentlyKeeps == \A r \in Records : LiveInv /\ StoreSilently(r) => LiveInv'
<1> SUFFICES ASSUME LiveInv, NEW r \in Records, StoreSilently(r) PROVE LiveInv'
  OBVIOUS
<1> USE DEF StoreSilently, broker, browser
<1>1. stored' \in Versions
  BY SizesAssumption DEF LiveInv, TypeOK, Versions
<1>2. missed' \in [Clients -> SUBSET Records]
  BY DEF LiveInv, TypeOK
<1>3. TypeOK'
  BY <1>1, <1>2 DEF LiveInv, TypeOK, Numbers
<1>4. QueueIsNewest'
  BY DEF LiveInv, QueueIsNewest, AreNewest
<1> QED BY <1>3, <1>4 DEF LiveInv

LEMMA IndexFailsKeeps == \A h \in Handlers : LiveInv /\ IndexFails(h) => LiveInv'
<1> SUFFICES ASSUME LiveInv, NEW h \in Handlers, IndexFails(h) PROVE LiveInv'
  OBVIOUS
<1> USE DEF IndexFails, broker, browser
<1>1. handler[h] \in Message
  BY DEF LiveInv, TypeOK
<1>2. handler[h].record \in Records
  BY <1>1 DEF Message
<1>3. missed' \in [Clients -> SUBSET Records]
  BY <1>2 DEF LiveInv, TypeOK
<1>4. TypeOK'
  BY <1>3 DEF LiveInv, TypeOK, Numbers
<1>5. QueueIsNewest'
  BY DEF LiveInv, QueueIsNewest, AreNewest
<1> QED BY <1>4, <1>5 DEF LiveInv

\* What a client may miss are records.
LEMMA MissedAreRecords ==
    ASSUME LiveInv, NEW c \in Clients
    PROVE  /\ Pending(c) \subseteq Records
           /\ \A h \in Handlers : handler[h] # Idle => Missing(c, h) \subseteq Records
<1>1. \A n \in 1..Len(log) : log[n].record \in Records
  <2>1. \A n \in 1..Len(log) : log[n] \in Message
    BY ElementOfSeq DEF LiveInv, TypeOK
  <2> QED BY <2>1 DEF Message
<1>2. ASSUME queue[c] # Nothing PROVE \A i \in 1..Len(queue[c]) : queue[c][i] \in 1..Len(log)
  <2>1. queue[c] \in Seq(1..Len(log))
    BY <1>2, Runs DEF Run
  <2> QED BY <2>1, ElementOfSeq
<1>3. hand[c] # Nothing => hand[c] \in 1..Len(log)
  BY Runs
<1>6. \A i \in 1..Len(wire[c]) : wire[c][i] \in 1..Len(log)
  BY Runs, ElementOfSeq
<1>4. Pending(c) \subseteq Records
  BY <1>1, <1>2, <1>3, <1>6 DEF Pending, Waiting
<1>5. ASSUME NEW h \in Handlers, handler[h] # Idle PROVE Missing(c, h) \subseteq Records
  <2>1. handler[h].record \in Records
    BY <1>5 DEF LiveInv, TypeOK, Message
  <2>2. ASSUME queue[c] # Nothing, Len(queue[c]) = QUEUE_SIZE
        PROVE  log[Head(queue[c])].record \in Records
    <3>1. queue[c] # <<>> /\ queue[c] \in Seq(1..Len(log))
      BY <2>2, Runs, SizesAssumption DEF Run
    <3>2. Head(queue[c]) \in 1..Len(log)
      BY <3>1, HeadTailProperties
    <3> QED BY <1>1, <3>2
  <2> QED BY <2>1, <2>2 DEF Missing
<1> QED BY <1>4, <1>5

LEMMA PublishKeeps == \A h \in Handlers : LiveInv /\ Publish(h) => LiveInv'
<1> SUFFICES ASSUME LiveInv, NEW h \in Handlers, Publish(h) PROVE LiveInv'
  OBVIOUS
<1> DEFINE k == Len(log)
<1>1. /\ k \in Nat /\ Run(history, k)
      /\ \A c \in Clients : queue[c] # Nothing => Run(queue[c], k) /\ Len(queue[c]) <= QUEUE_SIZE
  BY Runs DEF LiveInv, TypeOK
<1>2. handler[h] \in Message
  BY DEF LiveInv, TypeOK, Publish, browser
<1>3. log' \in Seq(Message) /\ Len(log') = k + 1
  BY <1>2, AppendProperties DEF LiveInv, TypeOK, Publish, browser
<1>4. Run(history', k + 1) /\ Len(history') <= HISTORY_SIZE
  <2>1. Run(Append(history, k + 1), k + 1)
    BY <1>1, AppendRun
  <2>2. history' = Newest(Append(history, k + 1), HISTORY_SIZE)
    BY DEF Publish
  <2> QED BY <1>1, <2>1, <2>2, NewestRun, SizesAssumption
<1>5. ASSUME NEW c \in Clients, queue[c] # Nothing
      PROVE  /\ queue'[c] # Nothing /\ Run(queue'[c], k + 1)
             /\ Len(queue'[c]) <= QUEUE_SIZE /\ Len(queue'[c]) <= Len(queue[c]) + 1
  <2>1. queue'[c] = Push(queue[c], k + 1)
    BY <1>5 DEF Publish
  <2>2. Run(queue'[c], k + 1) /\ Len(queue'[c]) <= QUEUE_SIZE /\ Len(queue'[c]) <= Len(queue[c]) + 1
    BY <1>1, <1>5, <2>1, PushRun
  <2>3. queue'[c] # Nothing
    BY <1>1, <2>2, NotNothing DEF Run
  <2> QED BY <2>2, <2>3
<1>6. \A c \in Clients : queue[c] = Nothing => queue'[c] = Nothing
  BY DEF Publish
<1>7. queue' \in [Clients -> Seq(1..(k + 1)) \cup {Nothing}]
  BY <1>5, <1>6 DEF Publish, Run
<1>8. missed' \in [Clients -> SUBSET Records]
  BY MissedAreRecords DEF Publish, LiveInv, TypeOK
<1>9. TypeOK'
  <2>1. /\ stored' \in Versions
        /\ handler' \in [Handlers -> Message \cup {Idle}]
        /\ stream' \in [Clients -> {"closed", "greeted", "waiting", "sending", "away"}]
        /\ page' \in [Clients -> [Loads -> Versions \cup {Nothing}]]
        /\ shown' \in [Clients -> Versions]
    BY DEF LiveInv, TypeOK, Publish, browser
  <2>2. history' \in Seq(1..(k + 1)) /\ Len(history') <= HISTORY_SIZE
    BY <1>4 DEF Run
  <2>3. hand' \in [Clients -> 1..(k + 1) \cup {Nothing}] /\ seen' \in [Clients -> 0..(k + 1)]
    BY <1>1 DEF LiveInv, TypeOK, Publish, Numbers
  <2>5. wire' \in [Clients -> Seq(1..(k + 1))] /\ \A c \in Clients : Len(wire'[c]) <= TRANSIT
    <3>1. 1..k \subseteq 1..(k + 1)
      BY <1>1
    <3>2. \A c \in Clients : wire[c] \in Seq(1..(k + 1))
      BY <3>1, SeqMonotonic DEF LiveInv, TypeOK, Numbers
    <3> QED BY <3>2 DEF LiveInv, TypeOK, Publish
  <2>4. \A c \in Clients :
          /\ queue'[c] # Nothing => Len(queue'[c]) <= QUEUE_SIZE
          /\ queue'[c] # Nothing <=> stream'[c] \in {"waiting", "sending"}
          /\ hand'[c] # Nothing <=> stream'[c] = "sending"
    BY <1>5, <1>6 DEF LiveInv, TypeOK, Publish, browser
  <2> QED BY <1>3, <1>7, <1>8, <2>1, <2>2, <2>3, <2>4, <2>5 DEF TypeOK, Numbers
<1>10. QueueIsNewest'
  <2>1. ASSUME NEW c \in Clients, queue'[c] # Nothing
        PROVE  /\ seen'[c] + Len(queue'[c]) <= k + 1
               /\ hand'[c] # Nothing => seen'[c] < hand'[c] /\ hand'[c] + Len(queue'[c]) <= k + 1
    <3>1. /\ queue[c] # Nothing /\ Len(queue'[c]) <= Len(queue[c]) + 1
          /\ Len(queue[c]) \in Nat /\ Len(queue'[c]) \in Nat
      BY <1>1, <1>5, <1>6, <2>1, RunLength
    <3>2. /\ seen'[c] = seen[c] /\ hand'[c] = hand[c] /\ seen[c] \in Nat
          /\ hand[c] # Nothing => hand[c] \in Nat
          /\ seen[c] + Len(queue[c]) <= k
          /\ hand[c] # Nothing => seen[c] < hand[c] /\ hand[c] + Len(queue[c]) <= k
      BY <3>1, Runs DEF Publish, LiveInv, TypeOK, QueueIsNewest
    <3> QED BY <1>1, <3>1, <3>2
  <2>2. AreNewest(history)' /\ \A c \in Clients : queue'[c] # Nothing => AreNewest(queue[c])'
    BY <1>3, <1>4, <1>5, <1>6 DEF Run, AreNewest
  <2> QED BY <1>3, <2>1, <2>2 DEF QueueIsNewest
<1> QED BY <1>9, <1>10 DEF LiveInv

\* Steps that only move a stream, or forget one.
LEMMA StreamKeeps ==
    \A c \in Clients : LiveInv /\ (Connect(c) \/ Subscribe(c) \/ Disconnect(c)) => LiveInv'
<1> SUFFICES ASSUME LiveInv, NEW c \in Clients PROVE
        Connect(c) \/ Subscribe(c) \/ Disconnect(c) => LiveInv'
  OBVIOUS
<1>1. CASE Connect(c)
  <2>1. TypeOK'
    BY <1>1 DEF LiveInv, TypeOK, Numbers, Connect, browser
  <2>2. QueueIsNewest'
    BY <1>1 DEF LiveInv, QueueIsNewest, AreNewest, Connect
  <2> QED BY <2>1, <2>2 DEF LiveInv
<1>2. CASE Subscribe(c)
  <2>1. <<>> \in Seq(1..Len(log)) /\ Len(<<>>) = 0 /\ <<>> # Nothing /\ Len(log) \in Nat
    <3>1. Len(log) \in Nat
      BY Runs
    <3>2. <<>> \in Seq(1..Len(log)) /\ Len(<<>>) = 0
      BY EmptySeq
    <3> QED BY <3>1, <3>2, NotNothing
  <2>2. TypeOK'
    <3>1. UNCHANGED <<stored, handler, history, hand, wire, page, shown, log, missed>>
      BY <1>2 DEF Subscribe, browser
    <3>2. queue' \in [Clients -> Seq(Numbers) \cup {Nothing}] /\ seen' \in [Clients -> 0..Len(log)]
      BY <1>2, <2>1 DEF Subscribe, LiveInv, TypeOK, Numbers
    <3>3. \A d \in Clients :
            /\ queue'[d] # Nothing => Len(queue'[d]) <= QUEUE_SIZE
            /\ queue'[d] # Nothing <=> stream'[d] \in {"waiting", "sending"}
            /\ hand'[d] # Nothing <=> stream'[d] = "sending"
      BY <1>2, <2>1, SizesAssumption DEF Subscribe, LiveInv, TypeOK
    <3>4. stream' \in [Clients -> {"closed", "greeted", "waiting", "sending", "away"}]
      BY <1>2 DEF Subscribe, LiveInv, TypeOK
    <3> QED BY <3>1, <3>2, <3>3, <3>4 DEF LiveInv, TypeOK, Numbers
  <2>3. hand[c] = Nothing
    BY <1>2 DEF LiveInv, TypeOK, Subscribe
  <2>4. AreNewest(history)' /\ hand' = hand /\ log' = log
    BY <1>2 DEF LiveInv, QueueIsNewest, AreNewest, Subscribe
  <2>5. queue'[c] = <<>> /\ seen'[c] = Len(log)
    BY <1>2 DEF LiveInv, TypeOK, Subscribe
  <2>6. \A d \in Clients \ {c} : queue'[d] = queue[d] /\ seen'[d] = seen[d]
    BY <1>2 DEF LiveInv, TypeOK, Subscribe
  <2>7. QueueIsNewest'
    <3>1. ASSUME NEW d \in Clients \ {c}, queue'[d] # Nothing
          PROVE  /\ AreNewest(queue[d])' /\ seen'[d] + Len(queue'[d]) <= Len(log')
                 /\ hand'[d] # Nothing => seen'[d] < hand'[d] /\ hand'[d] + Len(queue'[d]) <= Len(log')
      BY <2>4, <2>6, <3>1 DEF LiveInv, QueueIsNewest, AreNewest
    <3>2. AreNewest(queue[c])' /\ seen'[c] + Len(queue'[c]) <= Len(log') /\ hand'[c] = Nothing
      BY <2>1, <2>3, <2>4, <2>5 DEF AreNewest
    <3> QED BY <2>4, <3>1, <3>2 DEF QueueIsNewest
  <2> QED BY <2>2, <2>7 DEF LiveInv
<1>3. CASE Disconnect(c)
  <2>1. missed' \in [Clients -> SUBSET Records]
    BY <1>3, MissedAreRecords DEF LiveInv, TypeOK, Disconnect
  <2>2. TypeOK'
    <3>1. wire' \in [Clients -> Seq(Numbers)] /\ \A d \in Clients : Len(wire'[d]) <= TRANSIT
      BY <1>3, EmptyWire DEF LiveInv, TypeOK, Disconnect
    <3> QED BY <1>3, <2>1, <3>1 DEF LiveInv, TypeOK, Numbers, Disconnect, browser
  <2>3. QueueIsNewest'
    BY <1>3 DEF LiveInv, TypeOK, QueueIsNewest, AreNewest, Disconnect
  <2> QED BY <2>2, <2>3 DEF LiveInv
<1> QED BY <1>1, <1>2, <1>3

\* The message a stream takes lies between what was sent and what still waits.
LEMMA TakeKeeps == \A c \in Clients : LiveInv /\ Take(c) => LiveInv'
<1> SUFFICES ASSUME LiveInv, NEW c \in Clients, Take(c) PROVE LiveInv'
  OBVIOUS
<1> DEFINE k == Len(log)
<1>1. k \in Nat /\ queue[c] # Nothing /\ Run(queue[c], k) /\ queue[c] # <<>>
  BY Runs DEF LiveInv, TypeOK, Take
<1>2. /\ Run(Tail(queue[c]), k) /\ Len(Tail(queue[c])) = Len(queue[c]) - 1
      /\ Len(queue[c]) > 0 /\ Len(queue[c]) \in Nat /\ Tail(queue[c]) # Nothing
  BY <1>1, TailRun, RunLength, NotNothing DEF Run
<1>3. Head(queue[c]) \in 1..k /\ Head(queue[c]) = k - Len(queue[c]) + 1
  BY <1>1, TailRun
<1>4. Head(queue[c]) # Nothing
  BY <1>1, <1>3, NothingAssumption
<1>5. TypeOK'
  <2>1. queue' \in [Clients -> Seq(Numbers) \cup {Nothing}]
    BY <1>2 DEF LiveInv, TypeOK, Take, Run, Numbers
  <2>2. \A d \in Clients :
          /\ queue'[d] # Nothing => Len(queue'[d]) <= QUEUE_SIZE
          /\ queue'[d] # Nothing <=> stream'[d] \in {"waiting", "sending"}
          /\ hand'[d] # Nothing <=> stream'[d] = "sending"
    BY <1>1, <1>2, <1>4, SizesAssumption DEF LiveInv, TypeOK, Take
  <2>3. hand' \in [Clients -> Numbers \cup {Nothing}]
    BY <1>3 DEF LiveInv, TypeOK, Take, Numbers
  <2>4. stream' \in [Clients -> {"closed", "greeted", "waiting", "sending", "away"}]
    BY DEF LiveInv, TypeOK, Take
  <2>5. UNCHANGED <<stored, handler, history, wire, page, shown, log, seen, missed>>
    BY DEF Take, browser
  <2> QED BY <2>1, <2>2, <2>3, <2>4, <2>5 DEF LiveInv, TypeOK, Numbers
<1>6. QueueIsNewest'
  <2>1. AreNewest(Tail(queue[c]))
    BY <1>2 DEF Run, AreNewest
  <2>2. seen[c] + Len(queue[c]) <= k /\ seen[c] \in Nat
    BY <1>1 DEF LiveInv, TypeOK, QueueIsNewest
  <2>3. /\ seen[c] + Len(Tail(queue[c])) <= k
        /\ seen[c] < Head(queue[c]) /\ Head(queue[c]) + Len(Tail(queue[c])) <= k
    <3>1. \A s, n, l \in Nat : \A m, f \in Int :
            s + n <= l /\ m = n - 1 /\ f = l - n + 1 => s + m <= l /\ s < f /\ f + m <= l
      OBVIOUS
    <3>2. Len(Tail(queue[c])) \in Int /\ Head(queue[c]) \in Int
      BY <1>2, <1>3
    <3> HIDE DEF k
    <3> QED BY <1>1, <1>2, <1>3, <2>2, <3>1, <3>2
  <2>4. log' = log /\ history' = history /\ seen' = seen
    BY DEF Take
  <2>5. queue'[c] = Tail(queue[c]) /\ hand'[c] = Head(queue[c])
    BY DEF Take, LiveInv, TypeOK
  <2>6. \A d \in Clients \ {c} : queue'[d] = queue[d] /\ hand'[d] = hand[d]
    BY DEF Take, LiveInv, TypeOK
  <2> QED BY <2>1, <2>3, <2>4, <2>5, <2>6 DEF LiveInv, QueueIsNewest, AreNewest
<1> QED BY <1>5, <1>6 DEF LiveInv

LEMMA SendKeeps == \A c \in Clients : LiveInv /\ Send(c) => LiveInv'
<1> SUFFICES ASSUME LiveInv, NEW c \in Clients, Send(c) PROVE LiveInv'
  OBVIOUS
<1> DEFINE sent == Append(wire[c], hand[c])
<1>1. hand[c] # Nothing /\ hand[c] \in 1..Len(log) /\ Len(log) \in Nat
  BY Runs DEF LiveInv, TypeOK, Send
<1>2. sent \in Seq(1..Len(log)) /\ Len(sent) <= TRANSIT
  BY <1>1, Runs, AppendProperties, SizesAssumption DEF Send
<1>3. wire' = [wire EXCEPT ![c] = sent]
  BY DEF Send
<1> HIDE DEF sent
<1>4. wire' \in [Clients -> Seq(Numbers)] /\ \A d \in Clients : Len(wire'[d]) <= TRANSIT
  BY <1>2, <1>3 DEF LiveInv, TypeOK, Numbers
<1>5. TypeOK'
  BY <1>1, <1>4 DEF LiveInv, TypeOK, Numbers, Send, browser
<1>6. QueueIsNewest'
  BY <1>1 DEF LiveInv, TypeOK, QueueIsNewest, AreNewest, Send
<1> QED BY <1>5, <1>6 DEF LiveInv

\* A list that is cut is one of rows.
LEMMA LimitedRows ==
    ASSUME NEW all \in Versions, NEW n, NEW rows \in Limited(all, n)
    PROVE  rows \in Versions /\ \A r \in Records : rows[r] \in {0, all[r]}
<1>1. PICK S : rows = [r \in Records |-> IF r \in S THEN all[r] ELSE 0]
  BY DEF Limited
<1> QED BY <1>1, SizesAssumption DEF Versions

LEMMA BehindRecords == \A v, w : Behind(v, w) \subseteq Records
BY DEF Behind

\* What the page itself does leaves the broker alone.
LEMMA PageKeeps ==
    ASSUME LiveInv, NEW c \in Clients, NEW l \in Loads,
           Open(c, l) \/ Reload(c, l) \/ Loaded(c, l) \/ LoadFails(c, l)
    PROVE  LiveInv'
<1>1. ASSUME NEW rows \in Limited(stored, LOADED) PROVE rows \in Versions
  BY LimitedRows DEF LiveInv, TypeOK
<1>2. CASE Open(c, l)
  <2>1. PICK rows \in Versions :
            /\ page' = [page EXCEPT ![c] = [k \in Loads |-> IF k = l THEN rows ELSE Nothing]]
            /\ missed' = [missed EXCEPT ![c] = Behind(rows, stored)]
    BY <1>1, <1>2 DEF Open
  <2>2. /\ page' \in [Clients -> [Loads -> Versions \cup {Nothing}]]
        /\ missed' \in [Clients -> SUBSET Records]
    BY <2>1, BehindRecords DEF LiveInv, TypeOK
  <2>3. [r \in Records |-> 0] \in Versions /\ <<>> \in Seq(Numbers) /\ Len(<<>>) <= TRANSIT
    BY SizesAssumption, EmptySeq DEF Versions
  <2>4. TypeOK'
    BY <1>2, <2>2, <2>3 DEF LiveInv, TypeOK, Numbers, Open
  <2>5. QueueIsNewest'
    BY <1>2 DEF LiveInv, TypeOK, QueueIsNewest, AreNewest, Open
  <2> QED BY <2>4, <2>5 DEF LiveInv
<1>3. CASE Reload(c, l)
  <2>1. PICK rows \in Versions :
            /\ page' = [page EXCEPT ![c][l] = rows]
            /\ missed' = [missed EXCEPT ![c] = @ \cup Behind(rows, stored)]
    BY <1>1, <1>3 DEF Reload
  <2>2. /\ page' \in [Clients -> [Loads -> Versions \cup {Nothing}]]
        /\ missed' \in [Clients -> SUBSET Records]
    BY <2>1, BehindRecords DEF LiveInv, TypeOK
  <2>3. TypeOK'
    BY <1>3, <2>2 DEF LiveInv, TypeOK, Numbers, Reload, broker
  <2>4. QueueIsNewest'
    BY <1>3 DEF LiveInv, QueueIsNewest, AreNewest, Reload, broker
  <2> QED BY <2>3, <2>4 DEF LiveInv
<1>4. CASE Loaded(c, l) \/ LoadFails(c, l)
  <2>1. page[c][l] \in Versions /\ page' = [page EXCEPT ![c][l] = Nothing]
    BY <1>4 DEF LiveInv, TypeOK, Loaded, LoadFails
  <2>2. page' \in [Clients -> [Loads -> Versions \cup {Nothing}]] /\ shown' \in [Clients -> Versions]
    BY <1>4, <2>1 DEF LiveInv, TypeOK, Loaded, LoadFails
  <2>3. missed' \in [Clients -> SUBSET Records]
    <3>1. \E v, w : missed' = [missed EXCEPT ![c] = @ \cup Behind(v, w)]
      BY <1>4 DEF Loaded, LoadFails
    <3> QED BY <3>1, BehindRecords DEF LiveInv, TypeOK
  <2>4. UNCHANGED <<stored, handler, broker>>
    BY <1>4 DEF Loaded, LoadFails
  <2>5. TypeOK'
    BY <2>2, <2>3, <2>4 DEF LiveInv, TypeOK, Numbers, broker
  <2>6. QueueIsNewest'
    BY <2>4 DEF LiveInv, QueueIsNewest, AreNewest, broker
  <2> QED BY <2>5, <2>6 DEF LiveInv
<1> QED BY <1>2, <1>3, <1>4

\* A message that arrives, and the rows it leaves.
LEMMA Arrival ==
    ASSUME LiveInv, NEW c \in Clients, Receive(c)
    PROVE  \E n \in Numbers : \E rows \in Versions :
              /\ n = Head(wire[c]) /\ n \in 1..Len(log)
              /\ shown' = [shown EXCEPT ![c] = rows]
              /\ missed' = [missed EXCEPT ![c] = @ \cup
                    Behind(rows, [shown[c] EXCEPT ![log[n].record] = log[n].version])]
              /\ \A r \in Records : rows[r] \in {0, IF r = log[n].record THEN log[n].version
                                                     ELSE shown[c][r]}
<1>1. PICK n \in 1..Len(log) : n = Head(wire[c])
  BY Runs, HeadTailProperties DEF Receive
<1>2. log[n] \in Message
  BY <1>1, ElementOfSeq DEF LiveInv, TypeOK
<1>3. log[n].record \in Records /\ log[n].version \in 0..MaxVersion
  BY <1>2, SizesAssumption DEF Message
<1>4. PICK all : all = [shown[c] EXCEPT ![log[n].record] = log[n].version]
  OBVIOUS
<1>5. all \in Versions /\ \A r \in Records : all[r] = IF r = log[n].record THEN log[n].version
                                                      ELSE shown[c][r]
  BY <1>3, <1>4 DEF LiveInv, TypeOK, Versions
<1>6. PICK rows \in Limited(all, KEPT) :
        /\ shown' = [shown EXCEPT ![c] = rows]
        /\ missed' = [missed EXCEPT ![c] = @ \cup Behind(rows, all)]
  BY <1>1, <1>4 DEF Receive
<1>7. rows \in Versions /\ \A r \in Records : rows[r] \in {0, all[r]}
  BY <1>5, <1>6, LimitedRows
<1>8. \A r \in Records : rows[r] \in {0, IF r = log[n].record THEN log[n].version ELSE shown[c][r]}
  BY <1>5, <1>7
<1>9. missed' = [missed EXCEPT ![c] = @ \cup
                  Behind(rows, [shown[c] EXCEPT ![log[n].record] = log[n].version])]
  BY <1>4, <1>6
<1> QED BY <1>1, <1>6, <1>7, <1>8, <1>9 DEF Numbers

LEMMA ReceiveKeeps == ASSUME LiveInv, NEW c \in Clients, Receive(c) PROVE LiveInv'
<1>1. /\ \E rows \in Versions : shown' = [shown EXCEPT ![c] = rows]
      /\ \E v, w : missed' = [missed EXCEPT ![c] = @ \cup Behind(v, w)]
  <2>1. PICK n \in Numbers : \E rows \in Versions :
            /\ shown' = [shown EXCEPT ![c] = rows]
            /\ missed' = [missed EXCEPT ![c] = @ \cup
                  Behind(rows, [shown[c] EXCEPT ![log[n].record] = log[n].version])]
    BY Arrival
  <2>2. PICK all : all = [shown[c] EXCEPT ![log[n].record] = log[n].version]
    OBVIOUS
  <2> QED BY <2>1, <2>2
<1>2. shown' \in [Clients -> Versions] /\ missed' \in [Clients -> SUBSET Records]
  BY <1>1, BehindRecords DEF LiveInv, TypeOK
<1>3. PICK w \in Seq(Numbers) : w = Tail(wire[c]) /\ Len(w) <= TRANSIT
  <2>1. wire[c] \in Seq(Numbers) /\ wire[c] # <<>> /\ Len(wire[c]) <= TRANSIT
    BY DEF LiveInv, TypeOK, Receive
  <2>2. Tail(wire[c]) \in Seq(Numbers) /\ Len(Tail(wire[c])) = Len(wire[c]) - 1 /\ Len(wire[c]) \in Nat
    BY <2>1, HeadTailProperties
  <2>3. Len(Tail(wire[c])) <= TRANSIT
    BY <2>1, <2>2, SizesAssumption
  <2> QED BY <2>2, <2>3
<1>4. wire' \in [Clients -> Seq(Numbers)] /\ \A d \in Clients : Len(wire'[d]) <= TRANSIT
  BY <1>3 DEF LiveInv, TypeOK, Receive
<1>5. UNCHANGED <<stored, handler, history, queue, stream, hand, page, log, seen>>
  BY DEF Receive
<1>6. TypeOK'
  BY <1>2, <1>4, <1>5 DEF LiveInv, TypeOK, Numbers
<1>7. QueueIsNewest'
  BY <1>5 DEF LiveInv, QueueIsNewest, AreNewest
<1> QED BY <1>6, <1>7 DEF LiveInv

LEMMA RestartKeeps == LiveInv /\ Restart => LiveInv'
<1> SUFFICES ASSUME LiveInv, Restart PROVE LiveInv'
  OBVIOUS
<1>1. \A h \in Handlers : handler[h] # Idle => handler[h].record \in Records
  BY DEF LiveInv, TypeOK, Message
<1>2. missed' \in [Clients -> SUBSET Records]
  BY <1>1, MissedAreRecords DEF LiveInv, TypeOK, Restart
<1>3. TypeOK'
  <2>1. wire' \in [Clients -> Seq(Numbers')] /\ \A c \in Clients : Len(wire'[c]) <= TRANSIT
    BY EmptyWire DEF Restart
  <2>2. UNCHANGED <<stored, page, shown>>
    BY DEF Restart, browser
  <2>3. /\ history' = <<>> /\ log' = <<>>
        /\ handler' \in [Handlers -> Message \cup {Idle}]
        /\ queue' \in [Clients -> Seq(Numbers') \cup {Nothing}]
        /\ hand' \in [Clients -> Numbers' \cup {Nothing}]
        /\ stream' \in [Clients -> {"closed", "greeted", "waiting", "sending", "away"}]
        /\ seen' \in [Clients -> 0..Len(log')]
        /\ \A c \in Clients : /\ queue'[c] = Nothing /\ hand'[c] = Nothing
                               /\ stream'[c] \in {"closed", "away"}
    BY DEF Restart
  <2>4. history' \in Seq(Numbers') /\ Len(history') <= HISTORY_SIZE /\ log' \in Seq(Message)
    BY <2>3, EmptySeq, SizesAssumption
  <2> QED BY <1>2, <2>1, <2>2, <2>3, <2>4 DEF LiveInv, TypeOK
<1>4. QueueIsNewest'
  BY DEF LiveInv, QueueIsNewest, AreNewest, Restart
<1> QED BY <1>3, <1>4 DEF LiveInv

LEMMA LiveStep == LiveInv /\ [Next]_vars => LiveInv'
<1> SUFFICES ASSUME LiveInv, [Next]_vars PROVE LiveInv'
  OBVIOUS
<1>1. CASE UNCHANGED vars
  <2>1. TypeOK' /\ QueueIsNewest'
    BY <1>1 DEF LiveInv, TypeOK, QueueIsNewest, AreNewest, Numbers, vars, broker, browser
  <2> QED BY <2>1 DEF LiveInv
<1>2. CASE Next
  BY <1>2, StoreKeeps, StoreSilentlyKeeps, IndexFailsKeeps, PublishKeeps, StreamKeeps, TakeKeeps,
     SendKeeps, PageKeeps, ReceiveKeeps, RestartKeeps DEF Next, Serve
<1> QED BY <1>1, <1>2

\* The types of the live monitor, with the place of every stream.
THEOREM LiveTypes == Spec => []TypeOK
<1>1. LiveInv => TypeOK
  BY DEF LiveInv
<1> QED BY <1>1, LiveInit, LiveStep, PTL DEF Spec

\* What waits in a queue is always the newest run of the notifications, without a hole, and
\* behind what its client has got: for every size of the queue.
THEOREM LiveNewest == Spec => []QueueIsNewest
<1>1. LiveInv => QueueIsNewest
  BY DEF LiveInv
<1> QED BY <1>1, LiveInit, LiveStep, PTL DEF Spec

-----------------------------------------------------------------------------
(* The refinement. *)

\* A step of the live monitor is a step of the feed, or none.
LEMMA FeedStep ==
    ASSUME LiveInv, [Next]_vars
    PROVE  [F!Next]_<<Len(log), seen>>
<1>1. Len(log) \in Nat
  BY Runs
<1>2. ASSUME NEW h \in Handlers, Publish(h) PROVE F!Publish
  <2>1. Len(log') = Len(log) + 1
    BY <1>2, AppendProperties DEF Publish, LiveInv, TypeOK
  <2> QED BY <1>2, <2>1 DEF Publish, F!Publish
<1>3. ASSUME NEW c \in Clients, Subscribe(c) PROVE F!Advance(c) \/ UNCHANGED <<Len(log), seen>>
  <2>1. log' = log /\ seen' = [seen EXCEPT ![c] = Len(log)] /\ seen \in [Clients -> 0..Len(log)]
    BY <1>3 DEF Subscribe, LiveInv, TypeOK
  <2>2. CASE seen[c] = Len(log)
    BY <2>1, <2>2
  <2>3. CASE seen[c] # Len(log)
    <3>1. Len(log) \in (seen[c] + 1)..Len(log)
      BY <1>1, <2>1, <2>3
    <3> QED BY <2>1, <3>1 DEF F!Advance
  <2> QED BY <2>2, <2>3
<1>4. ASSUME NEW c \in Clients, Send(c) PROVE F!Advance(c)
  <2>1. queue[c] # Nothing /\ hand[c] # Nothing
    BY <1>4 DEF Send, LiveInv, TypeOK
  <2>2. seen[c] < hand[c] /\ hand[c] \in 1..Len(log) /\ seen[c] \in 0..Len(log)
    BY <2>1, Runs DEF LiveInv, TypeOK, QueueIsNewest
  <2>3. hand[c] \in (seen[c] + 1)..Len(log)
    BY <1>1, <2>2
  <2> QED BY <1>4, <2>3 DEF Send, F!Advance
<1>5. ASSUME Restart PROVE F!Restart
  BY <1>5 DEF Restart, F!Restart
<1>6. ASSUME NEW h \in Handlers, NEW r \in Records, Store(h, r)
      PROVE UNCHANGED <<Len(log), seen>>
  BY <1>6 DEF Store, broker
<1>7. ASSUME NEW c \in Clients, Take(c) \/ Connect(c) \/ Disconnect(c) \/ Receive(c)
      PROVE UNCHANGED <<Len(log), seen>>
  BY <1>7 DEF Take, Connect, Disconnect, Receive
<1>8. ASSUME NEW h \in Handlers, IndexFails(h) PROVE UNCHANGED <<Len(log), seen>>
  BY <1>8 DEF IndexFails, broker
<1>11. ASSUME NEW r \in Records, StoreSilently(r) PROVE UNCHANGED <<Len(log), seen>>
  BY <1>11 DEF StoreSilently, broker
<1>12. ASSUME NEW c \in Clients, NEW l \in Loads,
              Open(c, l) \/ Reload(c, l) \/ Loaded(c, l) \/ LoadFails(c, l)
       PROVE  UNCHANGED <<Len(log), seen>>
  BY <1>12 DEF Open, Reload, Loaded, LoadFails, broker
<1>9. CASE UNCHANGED vars
  BY <1>9 DEF vars, broker
<1>10. CASE Next
  BY <1>2, <1>3, <1>4, <1>5, <1>6, <1>7, <1>8, <1>10, <1>11, <1>12 DEF Next, Serve, F!Next
<1> QED BY <1>9, <1>10

\* The queues and streams implement the feed: every client gets what is published in order
\* and at most once, whatever overflows, breaks or restarts.
THEOREM LiveImplementsFeed == Spec => ImplementsFeed
<1>1. Init => F!Init
  BY DEF Init, F!Init
<1>2. LiveInv /\ [Next]_vars => [F!Next]_<<Len(log), seen>>
  BY FeedStep
<1> QED BY <1>1, <1>2, LiveInit, LiveStep, PTL DEF Spec, ImplementsFeed, F!Spec

-----------------------------------------------------------------------------
(* Freshness.  What a page shows, or will when its answer is in, is right    *)
(* once no news is on its way; otherwise the last news on its way is.  That  *)
(* holds of every record whose handlers have all published.                  *)

Underway(c) == {wire[c][i] : i \in 1..Len(wire[c])}
Coming(c) == {n \in Numbers : \/ n \in Underway(c) \/ n = hand[c]
                              \/ queue[c] # Nothing /\ n > Len(log) - Len(queue[c])}
News(c, r) == {n \in Coming(c) : log[n].record = r}
Right(c, r) == \/ shown[c][r] = stored[r]
               \/ \E l \in Loads : page[c][l] # Nothing /\ page[c][l][r] = stored[r]

Current(c, r) ==
    /\ News(c, r) = {} => Right(c, r)
    /\ \A n \in News(c, r) : (\A m \in News(c, r) : m <= n) => log[n].version = stored[r]

Told(r) == \A h \in Handlers : handler[h] # Idle => handler[h].record # r

\* Nobody knows of a version that is not yet stored.
Old(v) == \A r \in Records : v[r] <= stored[r]
NothingNewer ==
    /\ \A h \in Handlers : handler[h] # Idle => handler[h].version <= stored[handler[h].record]
    /\ \A n \in Numbers : log[n].version <= stored[log[n].record]
    /\ \A c \in Clients : /\ Old(shown[c])
                          /\ \A l \in Loads : page[c][l] # Nothing => Old(page[c][l])

AllCurrent == \A c \in Clients : \A r \in Records : r \notin missed[c] /\ Told(r) => Current(c, r)

\* What is under way to a client is in order, and before what waits for it.
InOrder(c) ==
    /\ queue[c] = Nothing => wire[c] = <<>>
    /\ \A i \in 1..Len(wire[c]) : wire[c][i] <= seen[c]
    /\ \A i, j \in 1..Len(wire[c]) : i < j => wire[c][i] < wire[c][j]
AllInOrder == \A c \in Clients : InOrder(c)
FreshInv == NothingNewer /\ AllCurrent

-----------------------------------------------------------------------------
(* What is under way. *)

LEMMA OrderStarts == Init => AllInOrder
<1> SUFFICES ASSUME Init, NEW c \in Clients PROVE InOrder(c)
  BY DEF AllInOrder
<1>1. wire[c] = <<>> /\ Len(wire[c]) = 0
  BY DEF Init
<1> QED BY <1>1 DEF InOrder

\* A step that leaves the connections alone, and closes no queue.
LEMMA SameOrder ==
    ASSUME AllInOrder, UNCHANGED <<wire, seen>>,
           \A c \in Clients : queue'[c] = Nothing => queue[c] = Nothing
    PROVE  AllInOrder'
BY DEF AllInOrder, InOrder

LEMMA SendInOrder == ASSUME LiveInv, AllInOrder, NEW c \in Clients, Send(c) PROVE AllInOrder'
<1>1. PICK w \in Seq(Numbers), m \in Numbers :
            w = wire[c] /\ m = hand[c] /\ queue[c] # Nothing /\ seen[c] < m
  <2>1. queue[c] # Nothing /\ hand[c] # Nothing
    BY DEF Send, LiveInv, TypeOK
  <2> QED BY <2>1 DEF LiveInv, TypeOK, QueueIsNewest
<1>2. /\ wire'[c] = Append(w, m) /\ seen'[c] = m /\ queue' = queue
      /\ \A d \in Clients \ {c} : wire'[d] = wire[d] /\ seen'[d] = seen[d]
  BY <1>1 DEF Send, LiveInv, TypeOK
<1>3. PICK s \in Nat : s = seen[c]
  BY Runs DEF LiveInv, TypeOK
<1>4. /\ Len(w) \in Nat /\ Len(Append(w, m)) = Len(w) + 1 /\ Append(w, m)[Len(w) + 1] = m
      /\ \A i \in 1..Len(w) : Append(w, m)[i] = w[i] /\ w[i] \in Nat
  <2>1. \A i \in 1..Len(w) : w[i] \in Numbers
    BY ElementOfSeq
  <2>2. Numbers \subseteq Nat
    BY Runs DEF Numbers
  <2>3. /\ Len(w) \in Nat /\ Len(Append(w, m)) = Len(w) + 1 /\ Append(w, m)[Len(w) + 1] = m
        /\ \A i \in 1..Len(w) : Append(w, m)[i] = w[i]
    BY AppendProperties
  <2> QED BY <2>1, <2>2, <2>3
<1>5. \A i \in 1..Len(w) : w[i] <= s
  BY <1>1, <1>3 DEF AllInOrder, InOrder
<1>6. \A i, j \in 1..Len(w) : i < j => w[i] < w[j]
  BY <1>1 DEF AllInOrder, InOrder
<1>7. m \in Nat /\ s < m
  BY <1>1, <1>3, Runs DEF Numbers
<1>8. \A i \in 1..Len(wire'[c]) : wire'[c][i] <= seen'[c]
  BY <1>2, <1>3, <1>4, <1>5, <1>7
<1>9. ASSUME NEW i \in 1..Len(wire'[c]), NEW j \in 1..Len(wire'[c]), i < j
      PROVE  wire'[c][i] < wire'[c][j]
  <2>1. i \in 1..Len(w) /\ wire'[c][i] = w[i]
    BY <1>2, <1>4, <1>9
  <2>2. CASE j = Len(w) + 1
    BY <1>2, <1>3, <1>4, <1>5, <1>7, <2>1, <2>2
  <2>3. CASE j # Len(w) + 1
    <3>1. j \in 1..Len(w) /\ wire'[c][j] = w[j]
      BY <1>2, <1>4, <2>3
    <3> QED BY <1>6, <1>9, <2>1, <3>1
  <2> QED BY <2>2, <2>3
<1>10. InOrder(c)'
  BY <1>1, <1>2, <1>8, <1>9 DEF InOrder
<1>11. \A d \in Clients \ {c} : InOrder(d)'
  BY <1>2 DEF AllInOrder, InOrder
<1> QED BY <1>10, <1>11 DEF AllInOrder

LEMMA ReceiveInOrder == ASSUME LiveInv, AllInOrder, NEW c \in Clients, Receive(c) PROVE AllInOrder'
<1>1. /\ wire'[c] = Tail(wire[c]) /\ wire[c] # <<>> /\ wire[c] \in Seq(Numbers) /\ UNCHANGED <<queue, seen>>
      /\ \A d \in Clients \ {c} : wire'[d] = wire[d]
  BY DEF Receive, LiveInv, TypeOK
<1>2. /\ Len(wire[c]) \in Nat /\ Len(wire'[c]) = Len(wire[c]) - 1
      /\ \A i \in 1..Len(wire'[c]) : wire'[c][i] = wire[c][i + 1]
  BY <1>1, HeadTailProperties
<1>3. \A i \in 1..Len(wire'[c]) : wire'[c][i] <= seen'[c]
  BY <1>1, <1>2 DEF AllInOrder, InOrder
<1>4. \A i, j \in 1..Len(wire'[c]) : i < j => wire'[c][i] < wire'[c][j]
  BY <1>1, <1>2 DEF AllInOrder, InOrder
<1>5. InOrder(c)'
  BY <1>1, <1>3, <1>4 DEF AllInOrder, InOrder
<1>6. \A d \in Clients \ {c} : InOrder(d)'
  BY <1>1 DEF AllInOrder, InOrder
<1> QED BY <1>5, <1>6 DEF AllInOrder

LEMMA OrderStep == LiveInv /\ LiveInv' /\ AllInOrder /\ [Next]_vars => AllInOrder'
<1> SUFFICES ASSUME LiveInv, LiveInv', AllInOrder, [Next]_vars PROVE AllInOrder'
  OBVIOUS
<1>1. CASE UNCHANGED vars
  BY <1>1, SameOrder DEF vars, broker
<1>2. ASSUME NEW h \in Handlers, NEW r \in Records, Store(h, r) PROVE AllInOrder'
  BY <1>2, SameOrder DEF Store, broker
<1>10. ASSUME NEW h \in Handlers, IndexFails(h) PROVE AllInOrder'
  BY <1>10, SameOrder DEF IndexFails, broker
<1>11. ASSUME NEW r \in Records, StoreSilently(r) PROVE AllInOrder'
  BY <1>11, SameOrder DEF StoreSilently, broker
<1>3. ASSUME NEW h \in Handlers, Publish(h) PROVE AllInOrder'
  <2>1. UNCHANGED <<wire, seen, stream>>
    BY <1>3 DEF Publish
  <2> QED BY <2>1, SameOrder DEF LiveInv, TypeOK
<1>4. ASSUME NEW c \in Clients, Connect(c) \/ Take(c) PROVE AllInOrder'
  <2>1. UNCHANGED <<wire, seen>>
    BY <1>4 DEF Connect, Take
  <2>2. \A d \in Clients : queue'[d] = Nothing => queue[d] = Nothing
    <3>1. CASE Connect(c)
      BY <3>1 DEF Connect
    <3>2. CASE Take(c)
      <4>1. \A d \in Clients \ {c} : queue'[d] = queue[d]
        BY <3>2 DEF Take, LiveInv, TypeOK
      <4>2. stream'[c] = "sending"
        BY <3>2 DEF Take, LiveInv, TypeOK
      <4> QED BY <4>1, <4>2 DEF LiveInv, TypeOK
    <3> QED BY <1>4, <3>1, <3>2
  <2> QED BY <2>1, <2>2, SameOrder
<1>5. ASSUME NEW c \in Clients, Subscribe(c) PROVE AllInOrder'
  <2>1. queue[c] = Nothing /\ wire' = wire
    BY <1>5 DEF Subscribe, LiveInv, TypeOK
  <2>2. wire'[c] = <<>> /\ Len(wire'[c]) = 0
    BY <2>1 DEF AllInOrder, InOrder
  <2>3. \A d \in Clients \ {c} : queue'[d] = queue[d] /\ seen'[d] = seen[d]
    BY <1>5 DEF Subscribe, LiveInv, TypeOK
  <2>4. \A d \in Clients \ {c} : InOrder(d)'
    BY <2>1, <2>3 DEF AllInOrder, InOrder
  <2>5. InOrder(c)'
    BY <2>2 DEF InOrder
  <2> QED BY <2>4, <2>5 DEF AllInOrder
<1>6. ASSUME NEW c \in Clients, Disconnect(c) \/ \E l \in Loads : Open(c, l) PROVE AllInOrder'
  <2>1. /\ wire'[c] = <<>> /\ seen' = seen
        /\ \A d \in Clients \ {c} : wire'[d] = wire[d] /\ queue'[d] = queue[d]
    BY <1>6 DEF Disconnect, Open, LiveInv, TypeOK
  <2>2. Len(wire'[c]) = 0
    BY <2>1
  <2>3. \A d \in Clients \ {c} : InOrder(d)'
    BY <2>1 DEF AllInOrder, InOrder
  <2>4. InOrder(c)'
    BY <2>1, <2>2 DEF InOrder
  <2> QED BY <2>3, <2>4 DEF AllInOrder
<1>7. ASSUME NEW c \in Clients, NEW l \in Loads, Reload(c, l) \/ Loaded(c, l) \/ LoadFails(c, l)
      PROVE  AllInOrder'
  BY <1>7, SameOrder DEF Reload, Loaded, LoadFails, broker
<1>8. ASSUME Restart PROVE AllInOrder'
  <2>1. \A c \in Clients : wire'[c] = <<>> /\ Len(wire'[c]) = 0
    BY <1>8 DEF Restart
  <2> QED BY <2>1 DEF AllInOrder, InOrder
<1>9. CASE Next
  BY <1>2, <1>3, <1>4, <1>5, <1>6, <1>7, <1>8, <1>9, <1>10, <1>11,
     SendInOrder, ReceiveInOrder DEF Next, Serve
<1> QED BY <1>1, <1>9

-----------------------------------------------------------------------------
(* What comes. *)

\* The types that the proofs below need of the single values.
LEMMA Values ==
    ASSUME TypeOK
    PROVE  /\ \A r \in Records : stored[r] \in Nat
           /\ \A h \in Handlers : handler[h] # Idle => handler[h].record \in Records /\ handler[h].version \in Nat
           /\ \A n \in Numbers : log[n].record \in Records /\ log[n].version \in Nat
           /\ \A c \in Clients : \A r \in Records :
                 /\ shown[c][r] \in Nat
                 /\ \A l \in Loads : page[c][l] # Nothing => page[c][l][r] \in Nat
           /\ Len(log) \in Nat
<1>1. \A n \in Numbers : log[n] \in Message
  BY ElementOfSeq DEF TypeOK, Numbers
<1>2. \A c \in Clients : \A r \in Records : shown[c][r] \in Nat
  BY SizesAssumption DEF TypeOK, Versions
<1>3. \A c \in Clients : \A l \in Loads : page[c][l] # Nothing => \A r \in Records : page[c][l][r] \in Nat
  BY SizesAssumption DEF TypeOK, Versions
<1>4. Len(log) \in Nat
  BY DEF TypeOK
<1>5. \A r \in Records : stored[r] \in Nat
  BY SizesAssumption DEF TypeOK, Versions
<1> QED BY <1>1, <1>2, <1>3, <1>4, <1>5, SizesAssumption DEF TypeOK, Message

\* A client without a queue waits for nothing.
LEMMA NoneComing ==
    ASSUME TypeOK, AllInOrder, NEW c \in Clients, queue[c] = Nothing
    PROVE  Coming(c) = {} /\ hand[c] = Nothing
<1>1. hand[c] = Nothing
  BY DEF TypeOK
<1>3. Underway(c) = {}
  <2>1. wire[c] = <<>> /\ Len(wire[c]) = 0
    BY DEF AllInOrder, InOrder
  <2> QED BY <2>1 DEF Underway
<1>2. Nothing \notin Numbers
  BY Values, NothingAssumption DEF Numbers
<1> QED BY <1>1, <1>2, <1>3 DEF Coming

LEMMA Place ==
    ASSUME NEW k \in Nat, NEW l \in Nat, l <= k, NEW n \in 1..k, n > k - l
    PROVE  \E i \in 1..l : n = k - l + i
<1>1. n - (k - l) \in 1..l
  OBVIOUS
<1>2. n = k - l + (n - (k - l))
  OBVIOUS
<1> QED BY <1>1, <1>2

\* What waits in a queue is what comes.
LEMMA ComingIsPending ==
    ASSUME LiveInv, NEW c \in Clients, NEW r, News(c, r) # {} PROVE r \in Pending(c)
<1>1. PICK n \in Numbers : n \in Coming(c) /\ log[n].record = r
  BY DEF News, Coming
<1>2. CASE n = hand[c]
  <2>1. hand[c] # Nothing
    BY <1>2, Values, NothingAssumption DEF Numbers, LiveInv
  <2> QED BY <1>1, <1>2, <2>1 DEF Pending
<1>3. CASE queue[c] # Nothing /\ n > Len(log) - Len(queue[c])
  <2>1. PICK k \in Nat : k = Len(log) /\ Run(queue[c], k)
    BY <1>3, Runs
  <2>2. PICK l \in Nat : l = Len(queue[c]) /\ l <= k
    BY <2>1, RunLength
  <2>3. n \in 1..k /\ n > k - l
    BY <1>3, <2>1, <2>2 DEF Numbers
  <2>4. PICK i \in 1..l : n = k - l + i
    BY <2>2, <2>3, Place
  <2>5. queue[c][i] = n
    BY <2>1, <2>2, <2>4 DEF Run
  <2> QED BY <1>1, <1>3, <2>2, <2>5 DEF Pending, Waiting
<1>4. CASE n \in Underway(c)
  BY <1>1, <1>4 DEF Underway, Pending, Waiting
<1> QED BY <1>1, <1>2, <1>3, <1>4 DEF Coming

LEMMA FreshStarts == Init => FreshInv
<1> SUFFICES ASSUME Init PROVE FreshInv
  OBVIOUS
<1>1. NothingNewer
  <2>1. Numbers = {}
    BY DEF Init, Numbers
  <2> QED BY <2>1 DEF Init, NothingNewer, Old
<1>2. ASSUME NEW c \in Clients, NEW r \in Records PROVE Current(c, r)
  <2>1. News(c, r) = {} /\ Right(c, r)
    BY DEF Init, News, Coming, Numbers, Right
  <2> QED BY <2>1 DEF Current
<1> QED BY <1>1, <1>2 DEF FreshInv, AllCurrent

\* A step after which the same comes to all clients, and pages and database are the same.
LEMMA SameNews ==
    ASSUME FreshInv, UNCHANGED <<stored, page, shown, log>>,
           \A c \in Clients : Coming(c)' = Coming(c) /\ missed[c] \subseteq missed'[c],
           \A h \in Handlers : handler'[h] # Idle => handler'[h] = handler[h],
           \A c \in Clients : \A r \in Records : r \notin missed'[c] /\ Told(r)' => Told(r)
    PROVE  FreshInv'
<1>1. NothingNewer'
  BY DEF FreshInv, NothingNewer, Old, Numbers
<1>2. ASSUME NEW c \in Clients, NEW r \in Records, r \notin missed'[c], Told(r)' PROVE Current(c, r)'
  <2>1. r \notin missed[c] /\ Told(r)
    BY <1>2
  <2>2. Current(c, r)
    BY <2>1 DEF FreshInv, AllCurrent
  <2>3. News(c, r)' = News(c, r) /\ log' = log /\ (Right(c, r)' <=> Right(c, r))
    BY DEF News, Right
  <2> QED BY <2>2, <2>3 DEF Current
<1> QED BY <1>1, <1>2 DEF FreshInv, AllCurrent

LEMMA StoreFresh ==
    ASSUME LiveInv, FreshInv, NEW h \in Handlers, NEW q \in Records, Store(h, q) PROVE FreshInv'
<1>1. /\ handler[h] = Idle /\ stored' = [stored EXCEPT ![q] = @ + 1]
      /\ handler' = [handler EXCEPT ![h] = [record |-> q, version |-> stored[q] + 1]]
      /\ UNCHANGED <<history, queue, stream, hand, wire, page, shown, log, seen, missed>>
  BY DEF Store, broker, browser
<1>2. [record |-> q, version |-> stored[q] + 1] # Idle
  <2>1. stored[q] + 1 \in 1..MaxVersion
    BY SizesAssumption DEF Store, LiveInv, TypeOK, Versions
  <2> QED BY <2>1, NothingAssumption
<1>3. \A r \in Records : stored[r] \in Nat /\ stored'[r] = IF r = q THEN stored[r] + 1 ELSE stored[r]
  BY <1>1, Values DEF LiveInv, TypeOK, Versions
<1>4. NothingNewer'
  <2>1. \A k \in Handlers : handler'[k] = IF k = h THEN [record |-> q, version |-> stored[q] + 1] ELSE handler[k]
    BY <1>1 DEF LiveInv, TypeOK
  <2>2. ASSUME NEW k \in Handlers, handler'[k] # Idle
        PROVE  handler'[k].version <= stored'[handler'[k].record]
    <3>1. CASE k = h
      BY <1>3, <2>1, <3>1
    <3>2. CASE k # h
      <4>1. handler'[k] = handler[k] /\ handler[k].record \in Records /\ handler[k].version \in Nat
        BY <2>1, <2>2, <3>2, Values DEF LiveInv
      <4>2. handler[k].version <= stored[handler[k].record]
        BY <2>2, <4>1 DEF FreshInv, NothingNewer
      <4> QED BY <1>3, <4>1, <4>2
    <3> QED BY <3>1, <3>2
  <2>3. ASSUME NEW n \in Numbers PROVE log[n].version <= stored'[log[n].record]
    BY <1>3, Values DEF FreshInv, NothingNewer, LiveInv
  <2>4. ASSUME NEW c \in Clients
        PROVE  Old(shown[c])' /\ \A l \in Loads : page'[c][l] # Nothing => Old(page[c][l])'
    <3>1. Old(shown[c])'
      BY <1>1, <1>3, Values DEF FreshInv, NothingNewer, LiveInv, Old
    <3>2. ASSUME NEW l \in Loads, page[c][l] # Nothing PROVE Old(page[c][l])'
      BY <1>1, <1>3, <3>2, Values DEF FreshInv, NothingNewer, LiveInv, Old
    <3> QED BY <1>1, <3>1, <3>2
  <2> QED BY <1>1, <2>2, <2>3, <2>4 DEF NothingNewer, Numbers
<1>5. ASSUME NEW c \in Clients, NEW r \in Records, r \notin missed'[c], Told(r)' PROVE Current(c, r)'
  <2>1. r # q
    BY <1>1, <1>2, <1>5 DEF Told, LiveInv, TypeOK
  <2>2. Told(r)
    BY <1>1, <1>5 DEF Told, LiveInv, TypeOK
  <2>3. Current(c, r)
    BY <1>1, <1>5, <2>2 DEF FreshInv, AllCurrent
  <2>4. News(c, r)' = News(c, r) /\ stored'[r] = stored[r] /\ log' = log
    BY <1>1, <1>3, <2>1 DEF News, Coming, Underway, Numbers
  <2>5. Right(c, r)' <=> Right(c, r)
    BY <1>1, <2>4 DEF Right
  <2> QED BY <2>3, <2>4, <2>5 DEF Current
<1> QED BY <1>4, <1>5 DEF FreshInv, AllCurrent

\* What nobody is told of, everybody misses.
LEMMA StoreSilentlyFresh ==
    ASSUME LiveInv, FreshInv, NEW q \in Records, StoreSilently(q) PROVE FreshInv'
<1>1. /\ stored' = [stored EXCEPT ![q] = @ + 1]
      /\ \A c \in Clients : missed'[c] = missed[c] \cup {q}
      /\ UNCHANGED <<handler, queue, hand, wire, page, shown, log>>
  BY DEF StoreSilently, broker, browser
<1>2. \A r \in Records : stored[r] \in Nat /\ stored'[r] = IF r = q THEN stored[r] + 1 ELSE stored[r]
  BY <1>1, Values DEF LiveInv, TypeOK, Versions
<1>3. \A r \in Records : \A v \in Nat : v <= stored[r] => v <= stored'[r]
  BY <1>2
<1>4. NothingNewer'
  <2>1. \A h \in Handlers : handler[h] # Idle => handler[h].version <= stored'[handler[h].record]
    BY <1>3, Values DEF FreshInv, NothingNewer, LiveInv
  <2>2. \A n \in Numbers : log[n].version <= stored'[log[n].record]
    BY <1>3, Values DEF FreshInv, NothingNewer, LiveInv
  <2>3. ASSUME NEW c \in Clients
        PROVE  Old(shown[c])' /\ \A l \in Loads : page'[c][l] # Nothing => Old(page[c][l])'
    <3>1. Old(shown[c])'
      BY <1>1, <1>3, Values DEF FreshInv, NothingNewer, LiveInv, Old
    <3>2. ASSUME NEW l \in Loads, page[c][l] # Nothing PROVE Old(page[c][l])'
      BY <1>1, <1>3, <3>2, Values DEF FreshInv, NothingNewer, LiveInv, Old
    <3> QED BY <1>1, <3>1, <3>2
  <2> QED BY <1>1, <2>1, <2>2, <2>3 DEF NothingNewer, Numbers
<1>5. ASSUME NEW c \in Clients, NEW r \in Records, r \notin missed'[c], Told(r)' PROVE Current(c, r)'
  <2>1. r # q /\ r \notin missed[c] /\ Told(r)
    BY <1>1, <1>5 DEF Told
  <2>2. Current(c, r)
    BY <2>1 DEF FreshInv, AllCurrent
  <2>3. News(c, r)' = News(c, r) /\ stored'[r] = stored[r] /\ log' = log
    BY <1>1, <1>2, <2>1 DEF News, Coming, Underway, Numbers
  <2>4. Right(c, r)' <=> Right(c, r)
    BY <1>1, <2>3 DEF Right
  <2> QED BY <2>2, <2>3, <2>4 DEF Current
<1> QED BY <1>4, <1>5 DEF FreshInv, AllCurrent

LEMMA IndexFailsFresh ==
    ASSUME LiveInv, FreshInv, NEW h \in Handlers, IndexFails(h) PROVE FreshInv'
<1>1. /\ handler[h] # Idle /\ handler' = [handler EXCEPT ![h] = Idle]
      /\ \A c \in Clients : missed'[c] = missed[c] \cup {handler[h].record}
      /\ UNCHANGED <<stored, history, queue, stream, hand, wire, page, shown, log, seen>>
  BY DEF IndexFails, broker, browser
<1>2. \A c \in Clients : Coming(c)' = Coming(c)
  BY <1>1 DEF Coming, Underway, Numbers
<1>3. \A k \in Handlers : handler'[k] = IF k = h THEN Idle ELSE handler[k]
  BY <1>1 DEF LiveInv, TypeOK
<1>4. \A c \in Clients : \A r \in Records : r \notin missed'[c] /\ Told(r)' => Told(r)
  BY <1>1, <1>3 DEF Told
<1> QED BY <1>1, <1>2, <1>3, <1>4, SameNews

\* A message that is pushed comes after all others; the oldest may be lost.
LEMMA PushComes ==
    ASSUME LiveInv, NEW h \in Handlers, Publish(h), NEW c \in Clients, queue[c] # Nothing
    PROVE  /\ Len(log) + 1 \in Coming(c)'
           /\ \A n \in Coming(c) : n \in Coming(c)' \/ (Len(queue[c]) = QUEUE_SIZE /\ n = Head(queue[c]))
           /\ \A n \in Coming(c)' : n = Len(log) + 1 \/ n \in Coming(c)
<1>1. PICK k \in Nat : k = Len(log)
  BY Values DEF LiveInv
<1>2. PICK q : q = queue[c] /\ Run(q, k) /\ Len(q) \in Nat /\ Len(q) <= k /\ Len(q) <= QUEUE_SIZE
  BY <1>1, Runs, RunLength DEF LiveInv, TypeOK
<1>3. Len(log') = k + 1
  <2>1. handler[h] \in Message
    BY DEF Publish, LiveInv, TypeOK
  <2> QED BY <1>1, <2>1, AppendProperties DEF Publish, LiveInv, TypeOK
<1>4. queue'[c] = Push(q, k + 1) /\ hand' = hand
  BY <1>1, <1>2 DEF Publish
<1>8. Underway(c)' = Underway(c) /\ k + 1 \notin Underway(c)
  <2>1. \A i \in 1..Len(wire[c]) : wire[c][i] \in 1..k
    BY <1>1, Runs, ElementOfSeq
  <2> QED BY <2>1 DEF Publish, Underway
<1>5. queue'[c] # Nothing
  <2>1. Run(queue'[c], k + 1) /\ k + 1 \in Nat
    BY <1>2, <1>4, PushRun
  <2> QED BY <2>1, NotNothing DEF Run
<1>6. CASE Len(q) = QUEUE_SIZE
  <2>1. q # <<>>
    BY <1>2, <1>6, SizesAssumption
  <2>2. Run(Tail(q), k) /\ Len(Tail(q)) = Len(q) - 1 /\ Len(q) > 0 /\ Head(q) = k - Len(q) + 1
    BY <1>2, <2>1, TailRun
  <2>3. Len(queue'[c]) = Len(q)
    <3>1. Len(Append(Tail(q), k + 1)) = Len(Tail(q)) + 1
      BY <2>2, AppendRun
    <3> QED BY <1>2, <1>4, <1>6, <2>2, <3>1 DEF Push
  <2>4. \A n : n \in Coming(c)' <=> n \in 1..(k + 1) /\ (n \in Underway(c) \/ n = hand[c] \/ n > k + 1 - Len(q))
    BY <1>3, <1>4, <1>5, <1>8, <2>3 DEF Coming, Numbers
  <2>5. \A n : n \in Coming(c) <=> n \in 1..k /\ (n \in Underway(c) \/ n = hand[c] \/ n > k - Len(q))
    BY <1>1, <1>2 DEF Coming, Numbers
  <2>6. hand[c] # k + 1
    <3>1. hand[c] # Nothing => hand[c] \in 1..k
      BY <1>1, Runs
    <3> QED BY <1>1, <3>1, NothingAssumption
  <2>7. k + 1 \in Coming(c)'
    <3>1. \A i \in Nat : i > 0 => k + 1 \in 1..(k + 1) /\ k + 1 > k + 1 - i
      OBVIOUS
    <3>2. k + 1 \in 1..(k + 1) /\ k + 1 > k + 1 - Len(q)
      BY <1>2, <2>2, <3>1
    <3> QED BY <2>4, <3>2
  <2>8. ASSUME NEW n \in Coming(c) PROVE n \in Coming(c)' \/ n = Head(q)
    <3>1. n \in 1..k /\ (n \in Underway(c) \/ n = hand[c] \/ n > k - Len(q))
      BY <2>5
    <3>2. n \in 1..(k + 1) /\ (n > k - Len(q) => n = Head(q) \/ n > k + 1 - Len(q))
      <4>1. \A m \in 1..k : \A i \in Nat :
                m \in 1..(k + 1) /\ (m > k - i => m = k - i + 1 \/ m > k + 1 - i)
        OBVIOUS
      <4> QED BY <1>2, <2>2, <3>1, <4>1
    <3> QED BY <2>4, <3>1, <3>2
  <2>9. ASSUME NEW n \in Coming(c)' PROVE n = k + 1 \/ n \in Coming(c)
    <3>1. n \in 1..(k + 1) /\ (n \in Underway(c) \/ n = hand[c] \/ n > k + 1 - Len(q))
      BY <2>4
    <3>2. n = k + 1 \/ (n \in 1..k /\ (n > k + 1 - Len(q) => n > k - Len(q)))
      <4>1. \A m \in 1..(k + 1) : \A i \in Nat :
                m = k + 1 \/ (m \in 1..k /\ (m > k + 1 - i => m > k - i))
        OBVIOUS
      <4> QED BY <1>2, <3>1, <4>1
    <3> QED BY <2>5, <3>1, <3>2
  <2> QED BY <1>1, <1>2, <1>6, <2>7, <2>8, <2>9
<1>7. CASE Len(q) # QUEUE_SIZE
  <2>1. Len(queue'[c]) = Len(q) + 1
    BY <1>2, <1>4, <1>7, AppendRun DEF Push
  <2>2. \A n : n \in Coming(c)' <=> n \in 1..(k + 1) /\ (n \in Underway(c) \/ n = hand[c] \/ n > k + 1 - (Len(q) + 1))
    BY <1>3, <1>4, <1>5, <1>8, <2>1 DEF Coming, Numbers
  <2>3. \A n : n \in Coming(c) <=> n \in 1..k /\ (n \in Underway(c) \/ n = hand[c] \/ n > k - Len(q))
    BY <1>1, <1>2 DEF Coming, Numbers
  <2> QED BY <1>1, <1>2, <1>8, <2>2, <2>3
<1> QED BY <1>6, <1>7

LEMMA PublishFresh ==
    ASSUME LiveInv, AllInOrder, FreshInv, NEW h \in Handlers, Publish(h) PROVE FreshInv'
<1>1. PICK k \in Nat : k = Len(log)
  BY Values DEF LiveInv
<1>2. PICK note \in Message : note = handler[h]
  BY DEF Publish, LiveInv, TypeOK
<1>3. /\ log' = Append(log, note) /\ Len(log') = k + 1 /\ log'[k + 1] = note
      /\ \A n \in 1..k : log'[n] = log[n]
  BY <1>1, <1>2, AppendProperties DEF Publish, LiveInv, TypeOK
<1>4. /\ handler[h] # Idle /\ UNCHANGED <<stored, stream, hand, wire, page, shown, seen>>
      /\ \A c \in Clients : missed'[c] = missed[c] \cup Missing(c, h)
      /\ \A i \in Handlers : handler'[i] = IF i = h THEN Idle ELSE handler[i]
      /\ \A c \in Clients : queue[c] = Nothing => queue'[c] = Nothing
  BY DEF Publish, browser, LiveInv, TypeOK
<1>5. note.record \in Records /\ note.version \in Nat /\ note.version <= stored[note.record]
  BY <1>2, <1>4, Values DEF FreshInv, NothingNewer, LiveInv
<1>6. NothingNewer'
  <2>1. ASSUME NEW n \in 1..(k + 1) PROVE log'[n].version <= stored'[log'[n].record]
    <3>1. CASE n = k + 1
      BY <1>3, <1>4, <1>5, <3>1
    <3>2. CASE n \in 1..k
      BY <1>1, <1>3, <1>4, <3>2 DEF FreshInv, NothingNewer, Numbers
    <3> QED BY <3>1, <3>2
  <2> QED BY <1>3, <1>4, <2>1 DEF FreshInv, NothingNewer, Old, Numbers
<1>7. ASSUME NEW c \in Clients, NEW r \in Records, r \notin missed'[c], Told(r)' PROVE Current(c, r)'
  <2>1. r \notin missed[c] /\ r \notin Missing(c, h)
    BY <1>4, <1>7
  <2>2. \A i \in Handlers \ {h} : handler[i] # Idle => handler[i].record # r
    BY <1>4, <1>7 DEF Told
  <2>3. Right(c, r)' <=> Right(c, r)
    BY <1>4 DEF Right
  <2>4. CASE queue[c] = Nothing
    <3>1. News(c, r) = {} /\ News(c, r)' = {}
      <4>1. queue'[c] = Nothing /\ hand'[c] = Nothing /\ \A n \in 1..(k + 1) : n # Nothing
        BY <1>4, <2>4, NoneComing, NothingAssumption DEF LiveInv
      <4>2. Coming(c)' = {}
        <5>1. Len(wire'[c]) = 0
          BY <1>4, <2>4 DEF AllInOrder, InOrder
        <5> QED BY <1>3, <4>1, <5>1 DEF Coming, Underway, Numbers
      <4> QED BY <2>4, <4>2, NoneComing DEF News, LiveInv
    <3>2. CASE r = note.record
      <4>1. ~LateNews(h) /\ Knows(c, note)
        BY <1>2, <2>1, <2>4, <3>2 DEF Missing
      <4>2. \A i \in Handlers : handler[i] # Idle /\ handler[i].record = r => i = h
        BY <2>2
      <4>3. note.version = stored[r]
        <5>1. ~(note.version < stored[r])
          BY <1>2, <1>5, <3>2, <4>1, <4>2 DEF LateNews
        <5> QED BY <1>5, <3>2, <5>1, Values DEF LiveInv
      <4>4. Right(c, r)
        BY <1>5, <3>2, <4>1, <4>3, Values DEF Knows, Right, FreshInv, NothingNewer, Old, LiveInv
      <4> QED BY <2>3, <3>1, <4>4 DEF Current
    <3>3. CASE r # note.record
      <4>1. Told(r)
        BY <1>2, <2>2, <3>3 DEF Told
      <4>2. Right(c, r)
        BY <2>1, <3>1, <4>1 DEF FreshInv, AllCurrent, Current
      <4> QED BY <2>3, <3>1, <4>2 DEF Current
    <3> QED BY <3>2, <3>3
  <2>5. CASE queue[c] # Nothing
    <3>1. /\ k + 1 \in Coming(c)' /\ \A n \in Coming(c)' : n \in 1..(k + 1)
          /\ \A n \in Coming(c) : n \in Coming(c)' \/ (Len(queue[c]) = QUEUE_SIZE /\ n = Head(queue[c]))
          /\ \A n \in Coming(c)' : n = k + 1 \/ n \in Coming(c)
          /\ \A n \in Coming(c) : n \in 1..k
      BY <1>1, <1>3, <2>5, PushComes DEF Coming, Numbers
    <3>2. CASE r = note.record
      <4>1. k + 1 \in News(c, r)'
        BY <1>3, <3>1, <3>2 DEF News
      <4>2. ~LateNews(h)
        BY <1>2, <2>1, <3>2 DEF Missing
      <4>3. note.version = stored[r]
        <5>1. ~(note.version < stored[r])
          BY <1>2, <1>5, <2>2, <3>2, <4>2 DEF LateNews
        <5> QED BY <1>5, <3>2, <5>1, Values DEF LiveInv
      <4>4. ASSUME NEW n \in News(c, r)', \A m \in News(c, r)' : m <= n PROVE log'[n].version = stored'[r]
        <5>1. n \in 1..(k + 1) /\ k + 1 <= n
          BY <3>1, <4>1, <4>4 DEF News
        <5>2. n = k + 1
          BY <5>1
        <5> QED BY <1>3, <1>4, <4>3, <5>2
      <4> QED BY <4>1, <4>4 DEF Current
    <3>3. CASE r # note.record
      <4>1. Told(r)
        BY <1>2, <2>2, <3>3 DEF Told
      <4>2. Current(c, r)
        BY <2>1, <4>1 DEF FreshInv, AllCurrent
      <4>3. News(c, r)' = News(c, r)
        <5>1. ASSUME NEW n \in News(c, r) PROVE n \in News(c, r)'
          <6>1. n \in Coming(c) /\ n \in 1..k /\ log[n].record = r
            BY <3>1 DEF News
          <6>2. ~(Len(queue[c]) = QUEUE_SIZE /\ n = Head(queue[c]))
            BY <2>1, <2>5, <6>1 DEF Missing
          <6>3. n \in Coming(c)' /\ log'[n].record = r
            BY <1>3, <3>1, <6>1, <6>2
          <6> QED BY <6>3 DEF News
        <5>2. ASSUME NEW n \in News(c, r)' PROVE n \in News(c, r)
          <6>1. n \in Coming(c)' /\ log'[n].record = r
            BY DEF News
          <6>2. n \in Coming(c) /\ n \in 1..k
            BY <1>3, <3>1, <3>3, <6>1
          <6> QED BY <1>3, <6>1, <6>2 DEF News
        <5> QED BY <5>1, <5>2
      <4>4. \A n \in News(c, r) : log'[n] = log[n]
        BY <1>3, <3>1 DEF News
      <4> QED BY <1>4, <2>3, <4>2, <4>3, <4>4 DEF Current
    <3> QED BY <3>2, <3>3
  <2> QED BY <2>4, <2>5
<1> QED BY <1>6, <1>7 DEF FreshInv, AllCurrent

\* Steps of a stream that bring nothing to its page.
LEMMA StreamFresh ==
    ASSUME LiveInv, LiveInv', AllInOrder, FreshInv, NEW c \in Clients, Connect(c) \/ Subscribe(c) PROVE FreshInv'
<1>1. UNCHANGED <<stored, handler, hand, wire, page, shown, log, missed>>
  BY DEF Connect, Subscribe, browser
<1>2. ASSUME NEW d \in Clients PROVE Coming(d)' = Coming(d)
  <2>1. CASE queue'[d] = queue[d]
    BY <1>1, <2>1 DEF Coming, Underway, Numbers
  <2>2. CASE queue'[d] # queue[d]
    <3>1. d = c /\ Subscribe(c) /\ queue'[c] = <<>>
      BY <2>2 DEF Connect, Subscribe, LiveInv, TypeOK
    <3>2. queue[c] = Nothing
      BY <3>1 DEF Subscribe, LiveInv, TypeOK
    <3>3. Coming(c) = {} /\ hand[c] = Nothing
      BY <3>2, NoneComing DEF LiveInv
    <3>6. Underway(c)' = {}
      <4>1. Len(wire'[c]) = 0
        BY <1>1, <3>2 DEF AllInOrder, InOrder
      <4> QED BY <4>1 DEF Underway
    <3>4. \A n \in Numbers : n \in Nat /\ n <= Len(log) /\ n # Nothing
      BY Values, NothingAssumption DEF Numbers, LiveInv
    <3>5. Coming(c)' = {}
      BY <1>1, <3>1, <3>3, <3>4, <3>6, Values DEF Coming, Numbers, LiveInv
    <3> QED BY <3>1, <3>3, <3>5
  <2> QED BY <2>1, <2>2
<1>3. \A r \in Records : Told(r)' => Told(r)
  BY <1>1 DEF Told
<1> QED BY <1>1, <1>2, <1>3, SameNews

LEMMA TakeFresh ==
    ASSUME LiveInv, FreshInv, NEW c \in Clients, Take(c) PROVE FreshInv'
<1>1. UNCHANGED <<stored, handler, wire, page, shown, log, missed>>
  BY DEF Take, browser
<1>2. ASSUME NEW d \in Clients PROVE Coming(d)' = Coming(d)
  <2>1. CASE d # c
    BY <1>1, <2>1 DEF Coming, Underway, Numbers, Take, LiveInv, TypeOK
  <2>2. CASE d = c
    <3>1. PICK k \in Nat : k = Len(log)
      BY Values DEF LiveInv
    <3>2. PICK q : q = queue[c] /\ q # Nothing /\ q # <<>> /\ Run(q, k)
      BY <3>1, Runs DEF Take, LiveInv, TypeOK
    <3>3. hand[c] = Nothing /\ hand'[c] = Head(q) /\ queue'[c] = Tail(q)
      BY <3>2 DEF Take, LiveInv, TypeOK
    <3>4. /\ Run(Tail(q), k) /\ Len(Tail(q)) = Len(q) - 1 /\ Len(q) \in Nat /\ Len(q) <= k
          /\ Head(q) \in 1..k /\ Head(q) = k - Len(q) + 1
      BY <3>2, TailRun, RunLength
    <3>5. Tail(q) # Nothing
      BY <3>4, NotNothing DEF Run
    <3>6. \A n : n \in Coming(c) <=> n \in 1..k /\ (n \in Underway(c) \/ n > k - Len(q))
      BY <3>1, <3>2, <3>3, NothingAssumption DEF Coming, Numbers
    <3>7. \A n : n \in Coming(c)' <=> n \in 1..k /\ (n \in Underway(c) \/ n = Head(q) \/ n > k - Len(Tail(q)))
      <4>1. Underway(c)' = Underway(c)
        BY <1>1 DEF Underway
      <4> QED BY <1>1, <3>1, <3>3, <3>5, <4>1 DEF Coming, Numbers
    <3>8. \A n : n \in Coming(c)' <=> n \in Coming(c)
      BY <3>4, <3>6, <3>7
    <3> QED BY <2>2, <3>8
  <2> QED BY <2>1, <2>2
<1>3. \A r \in Records : Told(r)' => Told(r)
  BY <1>1 DEF Told
<1> QED BY <1>1, <1>2, <1>3, SameNews

\* What is sent goes on coming.
LEMMA SendFresh ==
    ASSUME LiveInv, FreshInv, NEW c \in Clients, Send(c) PROVE FreshInv'
<1>1. UNCHANGED <<stored, handler, queue, page, shown, log, missed>>
  BY DEF Send, browser
<1>2. PICK m \in Numbers : m = hand[c] /\ m # Nothing
  BY Runs DEF Send, LiveInv, TypeOK, Numbers
<1>3. PICK w \in Seq(Numbers) : w = wire[c]
  BY DEF LiveInv, TypeOK
<1>4. /\ wire'[c] = Append(w, m) /\ hand'[c] = Nothing /\ Nothing \notin Numbers
      /\ \A d \in Clients \ {c} : wire'[d] = wire[d] /\ hand'[d] = hand[d]
  <2>1. Nothing \notin Numbers
    BY Values, NothingAssumption DEF Numbers, LiveInv
  <2> QED BY <1>2, <1>3, <2>1 DEF Send, LiveInv, TypeOK
<1>5. Underway(c)' = Underway(c) \cup {m}
  <2>1. /\ Len(w) \in Nat /\ Len(Append(w, m)) = Len(w) + 1 /\ Append(w, m)[Len(w) + 1] = m
        /\ \A i \in 1..Len(w) : Append(w, m)[i] = w[i]
    BY AppendProperties
  <2>2. ASSUME NEW n \in Underway(c)' PROVE n \in Underway(c) \cup {m}
    <3>1. PICK i \in 1..(Len(w) + 1) : n = Append(w, m)[i]
      BY <1>4, <2>1, <2>2 DEF Underway
    <3>2. CASE i = Len(w) + 1
      BY <2>1, <3>1, <3>2
    <3>3. CASE i # Len(w) + 1
      <4>1. i \in 1..Len(w) /\ n = w[i]
        BY <2>1, <3>1, <3>3
      <4> QED BY <1>3, <4>1 DEF Underway
    <3> QED BY <3>2, <3>3
  <2>3. ASSUME NEW i \in 1..Len(w) PROVE w[i] \in Underway(c)'
    <3>1. i \in 1..(Len(w) + 1) /\ w[i] = Append(w, m)[i]
      BY <2>1
    <3> QED BY <1>4, <2>1, <3>1 DEF Underway
  <2>4. m \in Underway(c)'
    <3>1. Len(w) + 1 \in 1..(Len(w) + 1)
      BY <2>1
    <3> QED BY <1>4, <2>1, <3>1 DEF Underway
  <2>5. \A n \in Underway(c) : n \in Underway(c)'
    BY <1>3, <2>3 DEF Underway
  <2> QED BY <2>2, <2>4, <2>5
<1>6. ASSUME NEW d \in Clients PROVE Coming(d)' = Coming(d)
  <2>1. CASE d # c
    BY <1>1, <1>4, <2>1 DEF Coming, Underway, Numbers
  <2>2. CASE d = c
    <3>1. Numbers' = Numbers /\ queue'[c] = queue[c] /\ log' = log
      BY <1>1 DEF Numbers
    <3>2. Coming(c)' = {n \in Numbers : \/ n \in Underway(c)'
                                        \/ n = hand'[c]
                                        \/ queue[c] # Nothing /\ n > Len(log) - Len(queue[c])}
      BY <3>1 DEF Coming
    <3> QED BY <1>2, <1>4, <1>5, <2>2, <3>2 DEF Coming
  <2> QED BY <2>1, <2>2
<1>7. \A r \in Records : Told(r)' => Told(r)
  BY <1>1 DEF Told
<1> QED BY <1>1, <1>6, <1>7, SameNews

\* The message that arrives is the oldest of those that come, and no longer one of them.
LEMMA ReceiveComes ==
    ASSUME LiveInv, AllInOrder, NEW c \in Clients, Receive(c)
    PROVE  /\ Head(wire[c]) \in Coming(c) /\ Coming(c)' = Coming(c) \ {Head(wire[c])}
           /\ \A n \in Coming(c) : n \in Nat /\ Head(wire[c]) <= n
<1>1. PICK k \in Nat : k = Len(log)
  BY Values DEF LiveInv
<1>2. PICK w \in Seq(1..k) : w = wire[c] /\ w # <<>>
  BY <1>1, Runs DEF Receive
<1>3. PICK q : q = queue[c] /\ q # Nothing /\ Run(q, k) /\ Len(q) \in Nat
  <2>1. queue[c] # Nothing
    BY <1>2 DEF AllInOrder, InOrder
  <2> QED BY <1>1, <2>1, Runs, RunLength
<1>4. /\ Len(w) \in Nat /\ Len(w) > 0 /\ Head(w) = w[1] /\ Len(Tail(w)) = Len(w) - 1
      /\ \A i \in 1..Len(Tail(w)) : Tail(w)[i] = w[i + 1]
      /\ \A i \in 1..Len(w) : w[i] \in 1..k
  <2>1. \A i \in 1..Len(w) : w[i] \in 1..k
    BY ElementOfSeq
  <2> QED BY <1>2, <2>1, HeadTailProperties
<1>5. PICK m \in 1..k : m = Head(w) /\ m = w[1]
  BY <1>4
<1>6. UNCHANGED <<queue, hand, log>> /\ wire'[c] = Tail(w)
  BY <1>2 DEF Receive, LiveInv, TypeOK
<1>7. PICK s \in Nat : s = seen[c]
  BY <1>1 DEF LiveInv, TypeOK
<1>8. m <= s /\ \A i \in 1..Len(w) : i # 1 => m < w[i]
  <2>1. 1 \in 1..Len(w)
    BY <1>4
  <2>2. w[1] <= s
    BY <1>2, <1>7, <2>1 DEF AllInOrder, InOrder
  <2>3. \A i \in 1..Len(w) : 1 < i => w[1] < w[i]
    BY <1>2, <2>1 DEF AllInOrder, InOrder
  <2>4. \A i \in 1..Len(w) : i # 1 => 1 < i
    OBVIOUS
  <2> QED BY <1>5, <2>2, <2>3, <2>4
<1>9. /\ s + Len(q) <= k /\ (hand[c] # Nothing => hand[c] \in 1..k /\ s < hand[c])
  BY <1>1, <1>3, <1>7, Runs DEF LiveInv, QueueIsNewest
<1>10. \A n \in 1..k : n > k - Len(q) => m < n
  BY <1>3, <1>8, <1>9
<1>11. \A n \in 1..k : n = hand[c] => m < n
  <2>1. Nothing \notin 1..k
    BY NothingAssumption
  <2> QED BY <1>8, <1>9, <2>1
<1>12. Underway(c)' = Underway(c) \ {m} /\ m \in Underway(c) /\ \A n \in Underway(c) : n \in 1..k /\ m <= n
  <2>1. ASSUME NEW n \in Underway(c) PROVE n \in 1..k /\ m <= n /\ (n # m => n \in Underway(c)')
    <3>1. PICK i \in 1..Len(w) : n = w[i]
      BY <1>2 DEF Underway
    <3>2. n \in 1..k
      BY <1>4, <3>1
    <3>3. CASE i = 1
      BY <1>5, <3>1, <3>2, <3>3
    <3>4. CASE i # 1
      <4>1. m < n
        BY <1>8, <3>1, <3>4
      <4>2. i - 1 \in 1..Len(Tail(w)) /\ (i - 1) + 1 = i
        BY <1>4, <3>4
      <4>3. Tail(w)[i - 1] = n
        BY <1>4, <3>1, <4>2
      <4>4. n \in Underway(c)'
        BY <1>6, <4>2, <4>3 DEF Underway
      <4> QED BY <1>2, <3>2, <4>1, <4>4
    <3> QED BY <3>3, <3>4
  <2>2. ASSUME NEW n \in Underway(c)' PROVE n \in Underway(c) /\ n # m
    <3>1. PICK i \in 1..Len(Tail(w)) : n = Tail(w)[i]
      BY <1>6 DEF Underway
    <3>2. i + 1 \in 1..Len(w) /\ i + 1 # 1 /\ n = w[i + 1]
      BY <1>4, <3>1
    <3>3. m < n /\ n \in 1..k
      BY <1>4, <1>8, <3>2
    <3> QED BY <1>2, <3>2, <3>3 DEF Underway
  <2>3. m \in Underway(c)
    BY <1>2, <1>4, <1>5 DEF Underway
  <2> QED BY <2>1, <2>2, <2>3
<1>13. \A n : n \in Coming(c) <=> n \in 1..k /\ (n \in Underway(c) \/ n = hand[c] \/ n > k - Len(q))
  BY <1>1, <1>3 DEF Coming, Numbers
<1>14. \A n : n \in Coming(c)' <=> n \in 1..k /\ (n \in Underway(c)' \/ n = hand[c] \/ n > k - Len(q))
  BY <1>1, <1>3, <1>6 DEF Coming, Numbers
<1>15. m \in Coming(c) /\ \A n \in Coming(c) : n \in Nat /\ m <= n
  BY <1>10, <1>11, <1>12, <1>13
<1>16. \A n : n \in Coming(c)' <=> n \in Coming(c) /\ n # m
  BY <1>10, <1>11, <1>12, <1>13, <1>14
<1> QED BY <1>2, <1>5, <1>15, <1>16

LEMMA ReceiveFresh ==
    ASSUME LiveInv, AllInOrder, FreshInv, NEW c \in Clients, Receive(c) PROVE FreshInv'
<1>1. UNCHANGED <<stored, handler, queue, hand, page, log>>
  BY DEF Receive
<1>2. PICK m \in Numbers : \E rows \in Versions :
        /\ m = Head(wire[c])
        /\ shown' = [shown EXCEPT ![c] = rows]
        /\ missed' = [missed EXCEPT ![c] = @ \cup
              Behind(rows, [shown[c] EXCEPT ![log[m].record] = log[m].version])]
        /\ \A r \in Records : rows[r] \in {0, IF r = log[m].record THEN log[m].version
                                               ELSE shown[c][r]}
  BY Arrival
<1>3. /\ \A r \in Records : /\ shown'[c][r] \in {0, IF r = log[m].record THEN log[m].version ELSE shown[c][r]}
                            /\ r \notin missed'[c] => /\ r \notin missed[c]
                                                      /\ shown'[c][r] = IF r = log[m].record
                                                            THEN log[m].version ELSE shown[c][r]
      /\ \A d \in Clients \ {c} : shown'[d] = shown[d] /\ missed'[d] = missed[d] /\ wire'[d] = wire[d]
  <2>1. PICK rows \in Versions :
        /\ shown' = [shown EXCEPT ![c] = rows]
        /\ missed' = [missed EXCEPT ![c] = @ \cup
              Behind(rows, [shown[c] EXCEPT ![log[m].record] = log[m].version])]
        /\ \A r \in Records : rows[r] \in {0, IF r = log[m].record THEN log[m].version
                                               ELSE shown[c][r]}
    BY <1>2
  <2>2. PICK all : all = [shown[c] EXCEPT ![log[m].record] = log[m].version]
    OBVIOUS
  <2>3. \A r \in Records : all[r] = IF r = log[m].record THEN log[m].version ELSE shown[c][r]
    BY <2>2 DEF LiveInv, TypeOK, Versions
  <2>4. \A r \in Records : all[r] \in Nat
    BY <2>3, Values DEF LiveInv
  <2>5. shown'[c] = rows /\ missed'[c] = missed[c] \cup Behind(rows, all)
    BY <2>1, <2>2 DEF LiveInv, TypeOK
  <2>6. ASSUME NEW r \in Records, r \notin missed'[c] PROVE r \notin missed[c] /\ rows[r] = all[r]
    <3>1. ~(rows[r] < all[r]) /\ r \notin missed[c]
      BY <2>5, <2>6 DEF Behind
    <3>2. rows[r] \in {0, all[r]}
      BY <2>1, <2>3
    <3> QED BY <2>4, <3>1, <3>2
  <2>7. \A d \in Clients \ {c} : shown'[d] = shown[d] /\ missed'[d] = missed[d]
    BY <2>1 DEF LiveInv, TypeOK
  <2>8. \A d \in Clients \ {c} : wire'[d] = wire[d]
    BY DEF Receive, LiveInv, TypeOK
  <2> QED BY <2>1, <2>3, <2>5, <2>6, <2>7, <2>8
<1>4. NothingNewer'
  <2>1. Old(shown[c])'
    <3> SUFFICES ASSUME NEW r \in Records PROVE shown'[c][r] <= stored[r]
      BY <1>1 DEF Old
    <3>1. 0 <= stored[r] /\ shown[c][r] <= stored[r] /\ (r = log[m].record => log[m].version <= stored[r])
      BY Values DEF FreshInv, NothingNewer, Old, LiveInv
    <3> QED BY <1>3, <3>1
  <2>2. \A d \in Clients \ {c} : Old(shown[d])'
    BY <1>1, <1>3 DEF FreshInv, NothingNewer, Old
  <2>3. \A d \in Clients : \A l \in Loads : page'[d][l] # Nothing => Old(page[d][l])'
    BY <1>1 DEF FreshInv, NothingNewer, Old
  <2>4. \A n \in Numbers : log[n].version <= stored[log[n].record]
    BY DEF FreshInv, NothingNewer
  <2>5. \A h \in Handlers : handler[h] # Idle => handler[h].version <= stored[handler[h].record]
    BY DEF FreshInv, NothingNewer
  <2> QED BY <1>1, <2>1, <2>2, <2>3, <2>4, <2>5 DEF NothingNewer, Numbers
<1>5. ASSUME NEW d \in Clients, NEW r \in Records, r \notin missed'[d], Told(r)' PROVE Current(d, r)'
  <2>1. Current(d, r)
    BY <1>1, <1>3, <1>5 DEF FreshInv, AllCurrent, Told
  <2>2. CASE d # c
    <3>1. News(d, r)' = News(d, r) /\ (Right(d, r)' <=> Right(d, r))
      BY <1>1, <1>3, <2>2 DEF News, Coming, Underway, Numbers, Right
    <3> QED BY <1>1, <2>1, <3>1 DEF Current
  <2>3. CASE d = c
    <3>1. News(c, r)' = News(c, r) \ {m} /\ \A n \in News(c, r) : n \in Nat /\ m <= n
      BY <1>1, <1>2, ReceiveComes DEF News
    <3>2. CASE r # log[m].record
      <4>1. News(c, r)' = News(c, r)
        BY <3>1, <3>2 DEF News
      <4>2. shown'[c][r] = shown[c][r]
        BY <1>3, <1>5, <2>3, <3>2
      <4>3. Right(c, r)' <=> Right(c, r)
        BY <1>1, <4>2 DEF Right
      <4> QED BY <1>1, <2>1, <2>3, <4>1, <4>3 DEF Current
    <3>3. CASE r = log[m].record
      <4>1. m \in News(c, r)
        BY <1>2, <3>3, ReceiveComes DEF News
      <4>2. CASE News(c, r)' = {}
        <5>1. \A n \in News(c, r) : n = m
          BY <3>1, <4>2
        <5>2. log[m].version = stored[r]
          BY <2>1, <2>3, <3>1, <4>1, <5>1 DEF Current
        <5>3. Right(c, r)'
          BY <1>1, <1>3, <1>5, <2>3, <3>3, <5>2 DEF Right
        <5> QED BY <2>3, <4>2, <5>3 DEF Current
      <4>3. CASE News(c, r)' # {}
        <5>1. ASSUME NEW n \in News(c, r)', \A j \in News(c, r)' : j <= n PROVE log'[n].version = stored'[r]
          <6>1. n \in News(c, r) /\ \A j \in News(c, r) : j <= n
            BY <3>1, <5>1
          <6> QED BY <1>1, <2>1, <2>3, <6>1 DEF Current
        <5> QED BY <2>3, <4>3, <5>1 DEF Current
      <4> QED BY <4>2, <4>3
    <3> QED BY <3>2, <3>3
  <2> QED BY <2>2, <2>3
<1> QED BY <1>4, <1>5 DEF FreshInv, AllCurrent

LEMMA DisconnectFresh ==
    ASSUME LiveInv, FreshInv, NEW c \in Clients, Disconnect(c) PROVE FreshInv'
<1>1. UNCHANGED <<stored, handler, page, shown, log>>
  BY DEF Disconnect, browser
<1>2. /\ queue'[c] = Nothing /\ hand'[c] = Nothing /\ wire'[c] = <<>>
      /\ missed'[c] = missed[c] \cup Pending(c)
      /\ \A d \in Clients \ {c} : queue'[d] = queue[d] /\ hand'[d] = hand[d] /\ wire'[d] = wire[d]
                                  /\ missed'[d] = missed[d]
  BY DEF Disconnect, LiveInv, TypeOK
<1>3. NothingNewer'
  BY <1>1 DEF FreshInv, NothingNewer, Old, Numbers
<1>4. Coming(c)' = {}
  <2>1. \A n \in Numbers : n # Nothing
    BY Values, NothingAssumption DEF Numbers, LiveInv
  <2>2. Len(wire'[c]) = 0
    BY <1>2
  <2> QED BY <1>1, <1>2, <2>1, <2>2 DEF Coming, Underway, Numbers
<1>5. ASSUME NEW d \in Clients, NEW r \in Records, r \notin missed'[d], Told(r)' PROVE Current(d, r)'
  <2>1. Current(d, r)
    BY <1>1, <1>2, <1>5 DEF FreshInv, AllCurrent, Told
  <2>2. News(d, r)' = News(d, r)
    <3>1. CASE d # c
      BY <1>1, <1>2, <3>1 DEF News, Coming, Underway, Numbers
    <3>2. CASE d = c
      BY <1>2, <1>4, <1>5, <3>2, ComingIsPending DEF News
    <3> QED BY <3>1, <3>2
  <2>3. Right(d, r)' <=> Right(d, r)
    BY <1>1 DEF Right
  <2> QED BY <1>1, <2>1, <2>2, <2>3 DEF Current
<1> QED BY <1>3, <1>5 DEF FreshInv, AllCurrent

\* A page that is opened waits for nothing but its load.
LEMMA OpenFresh ==
    ASSUME LiveInv, FreshInv, NEW c \in Clients, NEW l \in Loads, Open(c, l) PROVE FreshInv'
<1>1. UNCHANGED <<stored, handler, log>>
  BY DEF Open
<1>2. PICK rows \in Versions :
        /\ page' = [page EXCEPT ![c] = [k \in Loads |-> IF k = l THEN rows ELSE Nothing]]
        /\ missed' = [missed EXCEPT ![c] = Behind(rows, stored)]
        /\ \A r \in Records : rows[r] \in {0, stored[r]}
  BY LimitedRows DEF Open, LiveInv, TypeOK
<1>3. /\ \A k \in Loads : page'[c][k] = IF k = l THEN rows ELSE Nothing
      /\ \A r \in Records : r \notin missed'[c] => rows[r] = stored[r]
      /\ shown'[c] = [r \in Records |-> 0] /\ queue'[c] = Nothing /\ hand'[c] = Nothing /\ wire'[c] = <<>>
      /\ \A d \in Clients \ {c} :
            /\ queue'[d] = queue[d] /\ hand'[d] = hand[d] /\ wire'[d] = wire[d]
            /\ page'[d] = page[d] /\ shown'[d] = shown[d] /\ missed'[d] = missed[d]
  <2>1. /\ page'[c] = [k \in Loads |-> IF k = l THEN rows ELSE Nothing]
        /\ missed'[c] = Behind(rows, stored)
        /\ \A d \in Clients \ {c} : page'[d] = page[d] /\ missed'[d] = missed[d]
    BY <1>2 DEF LiveInv, TypeOK
  <2>2. /\ shown'[c] = [r \in Records |-> 0] /\ queue'[c] = Nothing /\ hand'[c] = Nothing
        /\ wire'[c] = <<>>
        /\ \A d \in Clients \ {c} : /\ queue'[d] = queue[d] /\ hand'[d] = hand[d]
                                    /\ wire'[d] = wire[d] /\ shown'[d] = shown[d]
    BY DEF Open, LiveInv, TypeOK
  <2>3. ASSUME NEW r \in Records, r \notin missed'[c] PROVE rows[r] = stored[r]
    <3>1. ~(rows[r] < stored[r]) /\ rows[r] \in {0, stored[r]} /\ stored[r] \in Nat
      BY <1>2, <2>1, <2>3, Values DEF Behind, LiveInv
    <3> QED BY <3>1
  <2> QED BY <2>1, <2>2, <2>3
<1>4. NothingNewer'
  <2>1. \A r \in Records : 0 <= stored[r] /\ rows[r] <= stored[r]
    BY <1>2, Values DEF LiveInv
  <2>2. Old(shown[c])' /\ \A k \in Loads : page'[c][k] # Nothing => Old(page[c][k])'
    BY <1>1, <1>3, <2>1 DEF Old
  <2>3. \A d \in Clients \ {c} : /\ Old(shown[d])'
                                 /\ \A k \in Loads : page'[d][k] # Nothing => Old(page[d][k])'
    BY <1>1, <1>3 DEF FreshInv, NothingNewer, Old
  <2> QED BY <1>1, <2>2, <2>3 DEF FreshInv, NothingNewer, Numbers
<1>5. Coming(c)' = {}
  <2>1. \A n \in Numbers : n # Nothing
    BY Values, NothingAssumption DEF Numbers, LiveInv
  <2>2. Len(wire'[c]) = 0
    BY <1>3
  <2> QED BY <1>1, <1>3, <2>1, <2>2 DEF Coming, Underway, Numbers
<1>6. ASSUME NEW d \in Clients, NEW r \in Records, r \notin missed'[d], Told(r)' PROVE Current(d, r)'
  <2>1. CASE d = c
    <3>1. rows[r] = stored[r] /\ page'[c][l] = rows /\ rows # Nothing
      BY <1>3, <1>6, <2>1, NothingAssumption DEF Versions
    <3>2. News(c, r)' = {} /\ Right(c, r)'
      BY <1>1, <1>5, <3>1 DEF News, Right
    <3> QED BY <2>1, <3>2 DEF Current
  <2>2. CASE d # c
    <3>1. Current(d, r)
      BY <1>1, <1>3, <1>6, <2>2 DEF FreshInv, AllCurrent, Told
    <3>2. News(d, r)' = News(d, r) /\ (Right(d, r)' <=> Right(d, r))
      BY <1>1, <1>3, <2>2 DEF News, Coming, Underway, Numbers, Right
    <3> QED BY <1>1, <3>1, <3>2 DEF Current
  <2> QED BY <2>1, <2>2
<1> QED BY <1>4, <1>6 DEF FreshInv, AllCurrent

\* A step of a page after which it is as right as before, of what it has not missed.
LEMMA SameBroker ==
    ASSUME FreshInv, UNCHANGED <<stored, handler, broker>>, NothingNewer', NEW c \in Clients,
           \A d \in Clients \ {c} : page'[d] = page[d] /\ shown'[d] = shown[d] /\ missed'[d] = missed[d],
           \A r \in Records : r \notin missed'[c] => r \notin missed[c] /\ (Right(c, r) => Right(c, r)')
    PROVE  FreshInv'
<1>1. ASSUME NEW d \in Clients, NEW r \in Records, r \notin missed'[d], Told(r)' PROVE Current(d, r)'
  <2>1. Current(d, r)
    BY <1>1 DEF FreshInv, AllCurrent, Told
  <2>2. News(d, r)' = News(d, r) /\ log' = log
    BY DEF News, Coming, Underway, Numbers, broker
  <2>3. Right(d, r) => Right(d, r)'
    <3>1. CASE d = c
      BY <1>1, <3>1
    <3>2. CASE d # c
      BY <3>2 DEF Right
    <3> QED BY <3>1, <3>2
  <2> QED BY <2>1, <2>2, <2>3 DEF Current
<1> QED BY <1>1 DEF FreshInv, AllCurrent

LEMMA ReloadFresh ==
    ASSUME LiveInv, FreshInv, NEW c \in Clients, NEW l \in Loads, Reload(c, l) PROVE FreshInv'
<1>1. UNCHANGED <<stored, handler, broker, shown>> /\ page[c][l] = Nothing
  BY DEF Reload
<1>2. PICK rows \in Versions :
        /\ page' = [page EXCEPT ![c][l] = rows]
        /\ missed' = [missed EXCEPT ![c] = @ \cup Behind(rows, stored)]
        /\ \A r \in Records : rows[r] \in {0, stored[r]}
  BY LimitedRows DEF Reload, LiveInv, TypeOK
<1>3. /\ \A k \in Loads : page'[c][k] = IF k = l THEN rows ELSE page[c][k]
      /\ missed[c] \subseteq missed'[c]
      /\ \A d \in Clients \ {c} : page'[d] = page[d] /\ missed'[d] = missed[d]
  BY <1>2 DEF LiveInv, TypeOK
<1>4. NothingNewer'
  <2>1. Old(shown[c])' /\ \A k \in Loads : page'[c][k] # Nothing => Old(page[c][k])'
    <3>1. \A r \in Records : rows[r] <= stored[r]
      BY <1>2, Values DEF LiveInv
    <3> QED BY <1>1, <1>3, <3>1 DEF FreshInv, NothingNewer, Old
  <2>2. \A d \in Clients \ {c} : /\ Old(shown[d])'
                                 /\ \A k \in Loads : page'[d][k] # Nothing => Old(page[d][k])'
    BY <1>1, <1>3 DEF FreshInv, NothingNewer, Old
  <2> QED BY <1>1, <2>1, <2>2 DEF FreshInv, NothingNewer, Numbers, broker
<1>5. ASSUME NEW r \in Records, r \notin missed'[c]
      PROVE  r \notin missed[c] /\ (Right(c, r) => Right(c, r)')
  <2>1. \A k \in Loads : page[c][k] # Nothing => page'[c][k] = page[c][k]
    BY <1>1, <1>3
  <2> QED BY <1>1, <1>3, <1>5, <2>1 DEF Right
<1> QED BY <1>1, <1>3, <1>4, <1>5, SameBroker

LEMMA LoadedFresh ==
    ASSUME LiveInv, FreshInv, NEW c \in Clients, NEW l \in Loads, Loaded(c, l) \/ LoadFails(c, l)
    PROVE  FreshInv'
<1>1. UNCHANGED <<stored, handler, broker>> /\ page[c][l] # Nothing
  BY DEF Loaded, LoadFails
<1>2. PICK answer \in Versions : answer = page[c][l] /\ answer # Nothing
  BY <1>1 DEF LiveInv, TypeOK
<1>3. PICK before \in Versions : before = shown[c]
  BY DEF LiveInv, TypeOK
<1>4. \/ shown'[c] = answer /\ missed'[c] = missed[c] \cup Behind(answer, before)
      \/ shown'[c] = before /\ missed'[c] = missed[c] \cup Behind(before, answer)
  BY <1>2, <1>3 DEF Loaded, LoadFails, LiveInv, TypeOK
<1>5. /\ \A k \in Loads : page'[c][k] = IF k = l THEN Nothing ELSE page[c][k]
      /\ \A d \in Clients \ {c} : page'[d] = page[d] /\ shown'[d] = shown[d] /\ missed'[d] = missed[d]
  BY DEF Loaded, LoadFails, LiveInv, TypeOK
<1>6. Old(answer) /\ Old(before)
  BY <1>2, <1>3 DEF FreshInv, NothingNewer
<1>7. NothingNewer'
  <2>1. Old(shown[c])'
    BY <1>1, <1>4, <1>6 DEF Old
  <2>2. \A k \in Loads : page'[c][k] # Nothing => Old(page[c][k])'
    BY <1>1, <1>5 DEF FreshInv, NothingNewer, Old
  <2>3. \A d \in Clients \ {c} : /\ Old(shown[d])'
                                 /\ \A k \in Loads : page'[d][k] # Nothing => Old(page[d][k])'
    BY <1>1, <1>5 DEF FreshInv, NothingNewer, Old
  <2> QED BY <1>1, <2>1, <2>2, <2>3 DEF FreshInv, NothingNewer, Numbers, broker
<1>8. ASSUME NEW r \in Records, r \notin missed'[c]
      PROVE  r \notin missed[c] /\ (Right(c, r) => Right(c, r)')
  <2>1. PICK a \in Nat, b \in Nat, s \in Nat :
            a = answer[r] /\ b = before[r] /\ s = stored[r] /\ a <= s /\ b <= s
    <3>1. answer[r] \in Nat /\ before[r] \in Nat
      BY <1>1, <1>2, <1>3, Values DEF LiveInv
    <3>2. stored[r] \in Nat
      BY Values DEF LiveInv
    <3> QED BY <1>6, <3>1, <3>2 DEF Old
  <2>2. r \notin missed[c] /\ (a = s \/ b = s => shown'[c][r] = s)
    <3>1. \/ shown'[c][r] = a /\ ~(a < b) /\ r \notin missed[c]
          \/ shown'[c][r] = b /\ ~(b < a) /\ r \notin missed[c]
      BY <1>4, <1>8, <2>1 DEF Behind
    <3> QED BY <2>1, <3>1
  <2>3. ASSUME Right(c, r) PROVE Right(c, r)'
    <3>1. CASE a = s \/ b = s
      BY <1>1, <2>1, <2>2, <3>1 DEF Right
    <3>2. CASE a # s /\ b # s
      <4>1. PICK k \in Loads : page[c][k] # Nothing /\ page[c][k][r] = s
        BY <1>3, <2>1, <2>3, <3>2 DEF Right
      <4>2. k # l
        BY <1>2, <2>1, <3>2, <4>1
      <4> QED BY <1>1, <1>5, <2>1, <4>1, <4>2 DEF Right
    <3> QED BY <3>1, <3>2
  <2> QED BY <2>2, <2>3
<1> QED BY <1>1, <1>5, <1>7, <1>8, SameBroker

LEMMA RestartFresh ==
    ASSUME LiveInv, FreshInv, Restart PROVE FreshInv'
<1>1. /\ UNCHANGED <<stored, page, shown>> /\ log' = <<>> /\ \A h \in Handlers : handler'[h] = Idle
      /\ \A c \in Clients : missed'[c] = missed[c] \cup Pending(c)
            \cup {handler[h].record : h \in {k \in Handlers : handler[k] # Idle}}
  BY DEF Restart, browser
<1>2. Numbers' = {}
  BY <1>1 DEF Numbers
<1>3. NothingNewer'
  BY <1>1, <1>2 DEF FreshInv, NothingNewer, Old
<1>4. ASSUME NEW c \in Clients, NEW r \in Records, r \notin missed'[c] PROVE Current(c, r)'
  <2>1. r \notin missed[c] /\ Told(r) /\ News(c, r) = {}
    BY <1>1, <1>4, ComingIsPending DEF Told
  <2>2. Right(c, r)
    BY <2>1 DEF FreshInv, AllCurrent, Current
  <2>3. News(c, r)' = {} /\ Right(c, r)'
    BY <1>1, <1>2, <2>2 DEF News, Coming, Right
  <2> QED BY <2>3 DEF Current
<1> QED BY <1>3, <1>4 DEF FreshInv, AllCurrent

LEMMA FreshStep == LiveInv /\ LiveInv' /\ AllInOrder /\ FreshInv /\ [Next]_vars => FreshInv'
<1> SUFFICES ASSUME LiveInv, LiveInv', AllInOrder, FreshInv, [Next]_vars PROVE FreshInv'
  OBVIOUS
<1>1. CASE UNCHANGED vars
  <2>1. \A c \in Clients : Coming(c)' = Coming(c)
    BY <1>1 DEF vars, broker, Coming, Underway, Numbers
  <2>2. \A r \in Records : Told(r)' => Told(r)
    BY <1>1 DEF vars, Told
  <2> QED BY <1>1, <2>1, <2>2, SameNews DEF vars, broker, browser
<1>2. CASE Next
  BY <1>2, StoreFresh, StoreSilentlyFresh, IndexFailsFresh, PublishFresh, StreamFresh, TakeFresh,
     SendFresh, ReceiveFresh, DisconnectFresh, OpenFresh, ReloadFresh, LoadedFresh, RestartFresh
     DEF Next, Serve
<1> QED BY <1>1, <1>2

LEMMA FreshImplied == LiveInv /\ FreshInv => FreshUnlessMissed
<1> SUFFICES ASSUME LiveInv, FreshInv, NEW c \in Clients, NEW r \in Records,
                    stream[c] = "waiting", queue[c] = <<>>, wire[c] = <<>>,
                    \A l \in Loads : page[c][l] = Nothing, r \notin missed[c],
                    \A h \in Handlers : handler[h] # Idle => handler[h].record # r
             PROVE  shown[c][r] = stored[r]
  BY DEF FreshUnlessMissed
<1>1. Current(c, r)
  BY DEF FreshInv, AllCurrent, Told
<1>2. Pending(c) = {}
  <2>1. hand[c] = Nothing
    BY DEF LiveInv, TypeOK
  <2>2. Len(<<>>) = 0
    OBVIOUS
  <2> QED BY <2>1, <2>2 DEF Pending, Waiting
<1>3. News(c, r) = {}
  BY <1>2, ComingIsPending
<1> QED BY <1>1, <1>3 DEF Current, Right

\* A page that nothing is on its way to shows of a record what is stored, unless it has missed
\* the news in one of the ways that missed collects: for any number of clients, of handlers and
\* loads that overlap, any size of the queues and the lists, and restarts (realtime.py:22-44,
\* web_security.py:83-90,493-511, LiveSecurity.jsx:138-163).
THEOREM LiveFresh == Spec => []FreshUnlessMissed
<1>1. Init => LiveInv /\ AllInOrder /\ FreshInv
  BY LiveInit, OrderStarts, FreshStarts
<1>2. LiveInv /\ AllInOrder /\ FreshInv /\ [Next]_vars => (LiveInv /\ AllInOrder /\ FreshInv)'
  BY LiveStep, OrderStep, FreshStep
<1> QED BY <1>1, <1>2, FreshImplied, PTL DEF Spec
=============================================================================
