---------------------------- MODULE ClientProofs ----------------------------
(***************************************************************************)
(* The protocol client for every set of commands, keys, intervals, timeouts*)
(* and capacities, every kind of transport failure and any number of calls.*)
(* The inductive invariant says where a request is, given its fate: which  *)
(* place of the queue holds it, or that it is the pending one.             *)
(***************************************************************************)
EXTENDS Client, CommonLemmas, FiniteSetTheorems, TLAPS

\* A queued request is in one place of one level, and in no other
Queueing ==
  /\ \A l \in Priorities : \A k \in DOMAIN queue[l] :
       queue[l][k].id \in DOMAIN fate /\ fate[queue[l][k].id] = "queued"
  /\ \A l, h \in Priorities : \A j \in DOMAIN queue[l] : \A k \in DOMAIN queue[h] :
       queue[l][j].id = queue[h][k].id => l = h /\ j = k
  /\ \A i \in DOMAIN fate : fate[i] = "queued" =>
       \E l \in Priorities : \E k \in DOMAIN queue[l] : queue[l][k].id = i

\* A request that was sent is the pending one, and there is only one
InFlight ==
  /\ \A p \in pending : p.id \in DOMAIN fate /\ fate[p.id] = "sent"
  /\ \A i \in DOMAIN fate : fate[i] = "sent" => \E p \in pending : p.id = i
  /\ \A p, r \in pending : p = r

\* Frames are left to handle exactly while poll() handles frames
Reading == phase \in {"handle", "handle_full"} <=> rx # <<>>

\* TypeOK, by the parts of the client
BookTypes ==
  /\ queue \in [high: Seq(Message), low: Seq(Message)]
  /\ pending \subseteq PendingRequest /\ Cardinality(pending) <= 1
  /\ fate \in Seq(Fates)
StoreTypes ==
  /\ periodic \in Seq(PeriodicEntry)
  /\ \A c \in DOMAIN store : c \in Commands /\ \E k \in Capacities : store[c] \in RB!RingOf(k)
PollTypes == phase \in Phases /\ next \in Nat \ {0} /\ rx \in Seq(Frame) /\ readAt \in Nat
LinkTypes ==
  wire \in Seq(Request) /\ inbox \in Seq(Frame) /\ notified \in Nat /\ now \in Nat

\* What the client knows of its requests
Books == BookTypes /\ Queueing /\ InFlight /\ OnePerKeyAndLevel

Inv == Books /\ StoreTypes /\ PollTypes /\ LinkTypes /\ Reading

-----------------------------------------------------------------------------
(* PriorityQueue.                                                            *)

\* A queue is a sequence of messages for each level
QueueOf(S) == [Priorities -> Seq(S)]

(* The record of the two levels is the function from levels to messages.     *)
LEMMA QueueIsFunction ==
  ASSUME NEW S, NEW q
  PROVE  /\ q \in [high: Seq(S), low: Seq(S)] <=> q \in QueueOf(S)
         /\ q \in QueueOf(S) => q.high = q["high"] /\ q.low = q["low"]
  <1>1. ASSUME q \in [high: Seq(S), low: Seq(S)] PROVE q \in QueueOf(S)
    BY <1>1 DEF QueueOf, Priorities
  <1>2. ASSUME q \in QueueOf(S) PROVE q \in [high: Seq(S), low: Seq(S)]
    BY <1>2 DEF QueueOf, Priorities
  <1>. QED
    BY <1>1, <1>2

(* The queue of a new client, or after clear_queue.                          *)
LEMMA EmptyQueueFacts ==
  ASSUME NEW S
  PROVE  EmptyQueue \in QueueOf(S) /\ \A l \in Priorities : DOMAIN EmptyQueue[l] = {}
  <1>1. EmptyQueue \in [high: Seq(S), low: Seq(S)]
    BY DEF EmptyQueue
  <1>2. EmptyQueue["high"] = <<>> /\ EmptyQueue["low"] = <<>>
    BY DEF EmptyQueue
  <1>3. DOMAIN <<>> = {}
    OBVIOUS
  <1>. QED
    BY <1>1, <1>2, <1>3, QueueIsFunction DEF Priorities

(* The first of some positions is one of them.                               *)
LEMMA FirstOfType ==
  ASSUME NEW P \in SUBSET Nat, P # {}
  PROVE  FirstOf(P) \in P
  BY LeastNatural DEF FirstOf

\* Queue r is q with message m at place f of level l, where D was
PlacedAt(q, r, m, l, f, D) ==
  /\ DOMAIN r[l] = DOMAIN q[l] \cup {f}
  /\ r[l][f] = m
  /\ \A k \in DOMAIN q[l] : k # f => r[l][k] = q[l][k]
  /\ f \in DOMAIN q[l] => D = {q[l][f]} /\ q[l][f].key = m.key
  /\ f \notin DOMAIN q[l] =>
       /\ D = {}
       /\ \A k \in DOMAIN q[l] : q[l][k].key = m.key => m.key = NoKey

(* push puts the message in one place of its level: the place of a message   *)
(* with its key, which it displaces, or a new last place if there is none.   *)
LEMMA PushFacts ==
  ASSUME NEW S, NEW q \in QueueOf(S), NEW m \in S, NEW l \in Priorities, m.prio = l
  PROVE  /\ Push(q, m) \in QueueOf(S)
         /\ \A h \in Priorities : h # l => Push(q, m)[h] = q[h]
         /\ \E f \in 1..Len(q[l]) + 1 : PlacedAt(q, Push(q, m), m, l, f, Displaced(q, m))
  <1>1. q[l] \in Seq(S) /\ DOMAIN q[l] = 1..Len(q[l]) /\ Len(q[l]) \in Nat
    BY DEF QueueOf
  <1>2. SameKey(q, m) = {i \in DOMAIN q[l] : m.key # NoKey /\ q[l][i].key = m.key}
    BY DEF SameKey
  <1>3. CASE SameKey(q, m) = {}
    <2> DEFINE f == Len(q[l]) + 1
               s == Append(q[l], m)
    <2>1. Push(q, m) = [q EXCEPT ![l] = s] /\ Displaced(q, m) = {}
      BY <1>3 DEF Push, Displaced
    <2>2. /\ s \in Seq(S) /\ DOMAIN s = DOMAIN q[l] \cup {f} /\ s[f] = m
          /\ \A k \in DOMAIN q[l] : k # f => s[k] = q[l][k]
      BY <1>1
    <2>3. f \in 1..Len(q[l]) + 1 /\ f \notin DOMAIN q[l]
      BY <1>1
    <2>4. \A k \in DOMAIN q[l] : q[l][k].key = m.key => m.key = NoKey
      BY <1>2, <1>3
    <2> HIDE DEF f, s
    <2>5. Push(q, m) \in QueueOf(S) /\ Push(q, m)[l] = s
          /\ \A h \in Priorities : h # l => Push(q, m)[h] = q[h]
      BY <2>1, <2>2 DEF QueueOf
    <2>6. PlacedAt(q, Push(q, m), m, l, f, Displaced(q, m))
      BY <2>1, <2>2, <2>3, <2>4, <2>5 DEF PlacedAt
    <2>. QED
      BY <2>3, <2>5, <2>6
  <1>4. CASE SameKey(q, m) # {}
    <2> DEFINE f == FirstOf(SameKey(q, m))
               s == [q[l] EXCEPT ![f] = m]
    <2>1. Push(q, m) = [q EXCEPT ![l] = s] /\ Displaced(q, m) = {q[l][f]}
      BY <1>4 DEF Push, Displaced
    <2>2. f \in SameKey(q, m)
      <3>1. SameKey(q, m) \in SUBSET Nat
        BY <1>1, <1>2
      <3>. QED
        BY <1>4, <3>1, FirstOfType
    <2>3. f \in DOMAIN q[l] /\ q[l][f].key = m.key
      BY <1>2, <2>2
    <2> HIDE DEF f
    <2>4. /\ s \in Seq(S) /\ DOMAIN s = DOMAIN q[l] /\ s[f] = m
          /\ \A k \in DOMAIN q[l] : k # f => s[k] = q[l][k]
      BY <1>1, <2>3
    <2>5. f \in 1..Len(q[l]) + 1 /\ DOMAIN q[l] = DOMAIN q[l] \cup {f}
      BY <1>1, <2>3
    <2> HIDE DEF s
    <2>6. Push(q, m) \in QueueOf(S) /\ Push(q, m)[l] = s
          /\ \A h \in Priorities : h # l => Push(q, m)[h] = q[h]
      BY <2>1, <2>4 DEF QueueOf
    <2>7. PlacedAt(q, Push(q, m), m, l, f, Displaced(q, m))
      BY <2>1, <2>3, <2>4, <2>5, <2>6 DEF PlacedAt
    <2>. QED
      BY <2>5, <2>6, <2>7
  <1>. QED
    BY <1>3, <1>4

(* pop takes the first message of one level and moves its others forward.    *)
LEMMA PopFacts ==
  ASSUME NEW S, NEW q \in QueueOf(S), ~IsEmptyQueue(q)
  PROVE  /\ PopRest(q) \in QueueOf(S) /\ PopMessage(q) \in S
         /\ \E l \in Priorities :
              /\ q[l] # <<>> /\ PopMessage(q) = q[l][1] /\ 1 \in DOMAIN q[l]
              /\ \A h \in Priorities : h # l => PopRest(q)[h] = q[h]
              /\ \A k \in Nat : k \in DOMAIN PopRest(q)[l] <=> (k # 0 /\ k + 1 \in DOMAIN q[l])
              /\ \A k \in DOMAIN PopRest(q)[l] : PopRest(q)[l][k] = q[l][k + 1] /\ k \in Nat
  <1> DEFINE l == NextLevel(q)
  <1>1. l \in Priorities /\ q[l] # <<>>
    BY QueueIsFunction DEF NextLevel, IsEmptyQueue, Priorities
  <1>2. q[l] \in Seq(S) /\ DOMAIN q[l] = 1..Len(q[l]) /\ Len(q[l]) \in Nat
    BY <1>1 DEF QueueOf
  <1>3. PopMessage(q) = Head(q[l]) /\ PopRest(q) = [q EXCEPT ![l] = Tail(q[l])]
    BY DEF PopMessage, PopRest
  <1> HIDE DEF l
  <1>4. /\ Head(q[l]) = q[l][1] /\ 1 \in DOMAIN q[l] /\ Tail(q[l]) \in Seq(S)
        /\ Len(Tail(q[l])) = Len(q[l]) - 1 /\ q[l][1] \in S
        /\ \A k \in 1..Len(q[l]) - 1 : Tail(q[l])[k] = q[l][k + 1]
    BY <1>1, <1>2
  <1>5. PopRest(q) \in QueueOf(S) /\ PopRest(q)[l] = Tail(q[l])
        /\ \A h \in Priorities : h # l => PopRest(q)[h] = q[h]
    <2> DEFINE t == Tail(q[l])
    <2>1. t \in Seq(S) /\ PopRest(q) = [q EXCEPT ![l] = t]
      BY <1>3, <1>4
    <2> HIDE DEF t
    <2>2. PopRest(q) \in QueueOf(S) /\ PopRest(q)[l] = t
          /\ \A h \in Priorities : h # l => PopRest(q)[h] = q[h]
      BY <1>1, <2>1 DEF QueueOf
    <2>. QED
      BY <2>2 DEF t
  <1>6. DOMAIN Tail(q[l]) = 1..Len(q[l]) - 1
    BY <1>4
  <1>7. \A k \in Nat : k \in DOMAIN PopRest(q)[l] <=> (k # 0 /\ k + 1 \in DOMAIN q[l])
    BY <1>2, <1>5, <1>6
  <1>8. \A k \in DOMAIN PopRest(q)[l] : PopRest(q)[l][k] = q[l][k + 1] /\ k \in Nat
    BY <1>2, <1>4, <1>5, <1>6
  <1>. QED
    BY <1>1, <1>3, <1>4, <1>5, <1>7, <1>8

-----------------------------------------------------------------------------
(* The requests and their fates.                                             *)

(* At most one pending request is at most one element.                       *)
LEMMA PendingCount ==
  ASSUME NEW P, \A p, r \in P : p = r
  PROVE  Cardinality(P) <= 1
  <1>1. CASE P = {}
    BY <1>1, FS_EmptySet
  <1>2. CASE P # {}
    <2>1. PICK p \in P : TRUE
      BY <1>2
    <2>2. P = {p}
      BY <2>1
    <2>3. Cardinality({p}) = 1
      BY FS_Singleton
    <2>. QED
      BY <2>2, <2>3
  <1>. QED
    BY <1>1, <1>2

(* Steps that touch neither queue, pending request nor fates.                *)
LEMMA BooksUnchanged ==
  ASSUME Books, queue' = queue, pending' = pending, fate' = fate
  PROVE  Books'
  BY DEF Books, BookTypes, Queueing, InFlight, OnePerKeyAndLevel

\* The step accepts one request, which replaces at most one that was queued
Accepted ==
  \E gone \in SUBSET {i \in DOMAIN fate : fate[i] = "queued"} :
    /\ \A i, j \in gone : i = j
    /\ DOMAIN fate' = DOMAIN fate \cup {Len(fate) + 1} /\ fate'[Len(fate) + 1] = "queued"
    /\ \A i \in DOMAIN fate : fate'[i] = IF i \in gone THEN "replaced" ELSE fate[i]

(* push of a new message, with the fate of the message it displaces.         *)
LEMMA BooksEnqueue ==
  ASSUME Books, NEW op \in {"READ", "WRITE"}, NEW c \in Commands, NEW prio \in Priorities,
         NEW key \in AllKeys, NEW timeout \in PeriodicTimeouts \cup {None},
         NEW expect \in {"Data", "Ack"}, Enqueue(op, c, prio, key, timeout, expect),
         pending' = pending
  PROVE  Books' /\ Accepted
  <1> DEFINE n == Len(fate) + 1
             m == [id |-> n, op |-> op, cmd |-> c, prio |-> prio,
                   key |-> key, timeout |-> timeout, expect |-> expect]
             D == Displaced(queue, m)
             g == [i \in DOMAIN fate |->
                     IF \E old \in D : old.id = i THEN "replaced" ELSE fate[i]]
  <1>1. /\ queue \in [high: Seq(Message), low: Seq(Message)] /\ fate \in Seq(Fates)
        /\ pending \subseteq PendingRequest /\ Cardinality(pending) <= 1
        /\ Queueing /\ InFlight /\ OnePerKeyAndLevel
    BY DEF Books, BookTypes
  <1>2. n \in Nat /\ DOMAIN fate = 1..Len(fate) /\ n \notin DOMAIN fate /\ Len(fate) \in Nat
    BY <1>1
  <1>3. m \in Message /\ m.prio = prio /\ m.id = n /\ m.key = key
    BY <1>2 DEF Message
  <1>4. queue' = Push(queue, m) /\ fate' = Append(g, "queued")
    BY DEF Enqueue
  <1> HIDE DEF m
  <1>5. queue \in QueueOf(Message)
    BY <1>1, QueueIsFunction
  <1>6. /\ queue' \in QueueOf(Message)
        /\ \A h \in Priorities : h # prio => queue'[h] = queue[h]
    BY <1>3, <1>4, <1>5, PushFacts
  <1>7. PICK f \in 1..Len(queue[prio]) + 1 :
          /\ DOMAIN queue'[prio] = DOMAIN queue[prio] \cup {f}
          /\ queue'[prio][f] = m
          /\ \A k \in DOMAIN queue[prio] : k # f => queue'[prio][k] = queue[prio][k]
          /\ f \in DOMAIN queue[prio] =>
               D = {queue[prio][f]} /\ queue[prio][f].key = m.key
          /\ f \notin DOMAIN queue[prio] =>
               /\ D = {}
               /\ \A k \in DOMAIN queue[prio] : queue[prio][k].key = m.key => m.key = NoKey
    <2>1. m \in Message /\ m.prio = prio
      BY <1>3
    <2>2. \E f \in 1..Len(queue[prio]) + 1 : PlacedAt(queue, queue', m, prio, f, D)
      BY <1>4, <1>5, <2>1, PushFacts
    <2>. QED
      BY <2>2 DEF PlacedAt
  <1>8. g \in Seq(Fates) /\ Len(g) = Len(fate)
    <2>1. g \in [1..Len(fate) -> Fates]
      BY <1>1, <1>2 DEF Fates
    <2>. QED
      BY <1>2, <2>1
  <1>9. /\ fate' \in Seq(Fates) /\ DOMAIN fate' = DOMAIN fate \cup {n} /\ fate'[n] = "queued"
        /\ \A i \in DOMAIN fate : fate'[i] = g[i]
    <2> HIDE DEF g
    <2>1. "queued" \in Fates
      BY DEF Fates
    <2>. QED
      BY <1>2, <1>4, <1>8, <2>1
  <1>10. \A i \in DOMAIN fate :
           fate'[i] = IF \E old \in D : old.id = i THEN "replaced" ELSE fate[i]
    BY <1>9
  <1> HIDE DEF n, D, g
  <1>11. ASSUME NEW h \in Priorities, NEW k \in DOMAIN queue'[h], ~(h = prio /\ k = f)
         PROVE  /\ k \in DOMAIN queue[h] /\ queue'[h][k] = queue[h][k]
                /\ \A old \in D : old.id # queue[h][k].id
    <2>1. k \in DOMAIN queue[h] /\ queue'[h][k] = queue[h][k]
      BY <1>6, <1>7, <1>11
    <2>2. ASSUME NEW old \in D, old.id = queue[h][k].id PROVE FALSE
      <3>1. f \in DOMAIN queue[prio] /\ old = queue[prio][f]
        BY <1>7, <2>2
      <3>. QED
        BY <1>1, <1>11, <2>1, <2>2, <3>1 DEF Queueing
    <2>. QED
      BY <2>1, <2>2
  <1>12. Queueing'
    <2>1. ASSUME NEW h \in Priorities, NEW k \in DOMAIN queue'[h]
          PROVE  queue'[h][k].id \in DOMAIN fate' /\ fate'[queue'[h][k].id] = "queued"
      <3>1. CASE h = prio /\ k = f
        BY <1>3, <1>7, <1>9, <3>1
      <3>2. CASE ~(h = prio /\ k = f)
        <4>1. queue[h][k].id \in DOMAIN fate /\ fate[queue[h][k].id] = "queued"
          BY <1>1, <1>11, <3>2 DEF Queueing
        <4>. QED
          BY <1>9, <1>10, <1>11, <3>2, <4>1
      <3>. QED
        BY <3>1, <3>2
    <2>2. ASSUME NEW l \in Priorities, NEW h \in Priorities,
                 NEW j \in DOMAIN queue'[l], NEW k \in DOMAIN queue'[h],
                 queue'[l][j].id = queue'[h][k].id
          PROVE  l = h /\ j = k
      <3>1. CASE l = prio /\ j = f /\ ~(h = prio /\ k = f)
        <4>1. queue[h][k].id \in DOMAIN fate
          BY <1>1, <1>11, <3>1 DEF Queueing
        <4>. QED
          BY <1>2, <1>3, <1>7, <1>11, <2>2, <3>1, <4>1
      <3>2. CASE ~(l = prio /\ j = f) /\ h = prio /\ k = f
        <4>1. queue[l][j].id \in DOMAIN fate
          BY <1>1, <1>11, <3>2 DEF Queueing
        <4>. QED
          BY <1>2, <1>3, <1>7, <1>11, <2>2, <3>2, <4>1
      <3>3. CASE ~(l = prio /\ j = f) /\ ~(h = prio /\ k = f)
        <4>1. j \in DOMAIN queue[l] /\ queue'[l][j] = queue[l][j]
          BY <1>11, <3>3
        <4>2. k \in DOMAIN queue[h] /\ queue'[h][k] = queue[h][k]
          BY <1>11, <3>3
        <4>. QED
          BY <1>1, <2>2, <4>1, <4>2 DEF Queueing
      <3>. QED
        BY <3>1, <3>2, <3>3
    <2>3. ASSUME NEW i \in DOMAIN fate', fate'[i] = "queued"
          PROVE  \E l \in Priorities : \E k \in DOMAIN queue'[l] : queue'[l][k].id = i
      <3>1. CASE i = n
        BY <1>3, <1>7, <3>1
      <3>2. CASE i # n
        <4>1. i \in DOMAIN fate /\ fate[i] = "queued" /\ \A old \in D : old.id # i
          BY <1>9, <1>10, <2>3, <3>2
        <4>5. PICK l \in Priorities : \E k \in DOMAIN queue[l] : queue[l][k].id = i
          BY <1>1, <4>1 DEF Queueing
        <4>2. PICK k \in DOMAIN queue[l] : queue[l][k].id = i
          BY <4>5
        <4>3. ~(l = prio /\ k = f)
          BY <1>7, <4>1, <4>2
        <4>4. k \in DOMAIN queue'[l] /\ queue'[l][k] = queue[l][k]
          BY <1>6, <1>7, <4>2, <4>3
        <4>. QED
          BY <4>2, <4>4
      <3>. QED
        BY <3>1, <3>2
    <2>. QED
      BY <2>1, <2>2, <2>3 DEF Queueing
  <1>13. InFlight'
    <2>1. ASSUME NEW i \in DOMAIN fate', fate'[i] = "sent"
          PROVE  i \in DOMAIN fate /\ fate[i] = "sent"
      BY <1>9, <1>10, <2>1
    <2>2. ASSUME NEW i \in DOMAIN fate, fate[i] = "sent"
          PROVE  i \in DOMAIN fate' /\ fate'[i] = "sent"
      <3>1. \A old \in D : old.id # i
        <4>1. ASSUME NEW old \in D PROVE fate[old.id] = "queued"
          BY <1>1, <1>7 DEF Queueing
        <4>. QED
          BY <2>2, <4>1
      <3>. QED
        BY <1>9, <1>10, <2>2, <3>1
    <2>. QED
      BY <1>1, <2>1, <2>2 DEF InFlight
  <1>14. OnePerKeyAndLevel'
    <2> SUFFICES ASSUME NEW l \in Priorities, NEW i \in DOMAIN queue'[l],
                        NEW j \in DOMAIN queue'[l],
                        queue'[l][i].key = queue'[l][j].key, queue'[l][i].key # NoKey
                 PROVE  i = j
      BY DEF OnePerKeyAndLevel
    <2>1. CASE l # prio
      BY <1>1, <1>6, <2>1 DEF OnePerKeyAndLevel
    <2>2. ASSUME l = prio, i = f, j # f PROVE FALSE
      BY <1>1, <1>7, <2>2 DEF OnePerKeyAndLevel
    <2>3. ASSUME l = prio, j = f, i # f PROVE FALSE
      BY <1>1, <1>7, <2>3 DEF OnePerKeyAndLevel
    <2>4. CASE l = prio /\ i # f /\ j # f
      BY <1>1, <1>7, <2>4 DEF OnePerKeyAndLevel
    <2>. QED
      BY <2>1, <2>2, <2>3, <2>4
  <1>15. BookTypes'
    BY <1>1, <1>6, <1>9, QueueIsFunction DEF BookTypes
  <1>16. Accepted
    <2> DEFINE gone == {i \in DOMAIN fate : \E old \in D : old.id = i}
    <2>1. gone \in SUBSET {i \in DOMAIN fate : fate[i] = "queued"}
      BY <1>1, <1>7 DEF Queueing
    <2>2. \A i, j \in gone : i = j
      BY <1>7
    <2>3. \A i \in DOMAIN fate : fate'[i] = IF i \in gone THEN "replaced" ELSE fate[i]
      BY <1>10
    <2> HIDE DEF gone
    <2>. QED
      BY <1>9, <2>1, <2>2, <2>3 DEF Accepted, n
  <1>. QED
    BY <1>12, <1>13, <1>14, <1>15, <1>16 DEF Books

(* clear_queue.                                                              *)
LEMMA BooksClear ==
  ASSUME Books, queue' = EmptyQueue, pending' = pending,
         fate' = [i \in DOMAIN fate |-> IF fate[i] = "queued" THEN "cleared" ELSE fate[i]]
  PROVE  Books'
  <1>1. fate \in Seq(Fates) /\ InFlight /\ BookTypes
    BY DEF Books, BookTypes
  <1>2. /\ fate' \in Seq(Fates) /\ DOMAIN fate' = DOMAIN fate
        /\ \A i \in DOMAIN fate : fate'[i] = IF fate[i] = "queued" THEN "cleared" ELSE fate[i]
    <2>1. fate' \in [1..Len(fate) -> Fates] /\ Len(fate) \in Nat
      BY <1>1 DEF Fates
    <2>. QED
      BY <1>1, <2>1
  <1>3. queue' \in QueueOf(Message) /\ \A l \in Priorities : DOMAIN queue'[l] = {}
    BY EmptyQueueFacts
  <1>4. BookTypes'
    BY <1>1, <1>2, <1>3, QueueIsFunction DEF BookTypes
  <1>5. Queueing' /\ OnePerKeyAndLevel'
    BY <1>2, <1>3 DEF Queueing, OnePerKeyAndLevel
  <1>6. InFlight'
    BY <1>1, <1>2 DEF InFlight
  <1>. QED
    BY <1>4, <1>5, <1>6 DEF Books

(* The pending request ends.                                                 *)
LEMMA BooksComplete ==
  ASSUME Books, NEW end \in {"answered", "timedout"}, Complete(end), queue' = queue
  PROVE  Books'
  <1>1. fate \in Seq(Fates) /\ InFlight /\ BookTypes /\ Queueing /\ OnePerKeyAndLevel
    BY DEF Books, BookTypes
  <1>2. /\ pending' = {}
        /\ fate' = [i \in DOMAIN fate |->
                      IF \E p \in pending : p.id = i THEN end ELSE fate[i]]
    BY DEF Complete
  <1>3. /\ fate' \in Seq(Fates) /\ DOMAIN fate' = DOMAIN fate
        /\ \A i \in DOMAIN fate :
             fate'[i] = IF \E p \in pending : p.id = i THEN end ELSE fate[i]
    <2>1. fate' \in [1..Len(fate) -> Fates] /\ Len(fate) \in Nat
      BY <1>1, <1>2 DEF Fates
    <2>. QED
      BY <1>1, <1>2, <2>1
  <1>4. BookTypes'
    <2>1. Cardinality(pending') <= 1
      BY <1>2, PendingCount
    <2>. QED
      BY <1>1, <1>2, <1>3, <2>1 DEF BookTypes
  <1>5. \A i \in DOMAIN fate : fate'[i] = "queued" <=> fate[i] = "queued"
    BY <1>1, <1>3 DEF InFlight
  <1>6. Queueing' /\ OnePerKeyAndLevel'
    BY <1>1, <1>3, <1>5 DEF Queueing, OnePerKeyAndLevel
  <1>7. InFlight'
    BY <1>1, <1>2, <1>3 DEF InFlight
  <1>. QED
    BY <1>4, <1>6, <1>7 DEF Books

(* The next message leaves the queue, sent or failed.                        *)
LEMMA BooksPop ==
  ASSUME Books, pending = {}, ~IsEmptyQueue(queue), queue' = PopRest(queue),
         NEW end \in {"sent", "failed"}, fate' = [fate EXCEPT ![PopMessage(queue).id] = end],
         pending' \subseteq PendingRequest, end = "failed" => pending' = {},
         end = "sent" => \E p : pending' = {p} /\ p.id = PopMessage(queue).id
  PROVE  /\ Books' /\ PopMessage(queue) \in Message
         /\ PopMessage(queue).id \in DOMAIN fate /\ fate[PopMessage(queue).id] = "queued"
  <1> DEFINE m == PopMessage(queue)
  <1>1. /\ fate \in Seq(Fates) /\ InFlight /\ BookTypes /\ Queueing /\ OnePerKeyAndLevel
        /\ queue \in QueueOf(Message)
    BY QueueIsFunction DEF Books, BookTypes
  <1>2. queue' \in QueueOf(Message) /\ m \in Message
    BY <1>1, PopFacts
  <1>3. PICK l \in Priorities :
          /\ queue[l] # <<>> /\ m = queue[l][1] /\ 1 \in DOMAIN queue[l]
          /\ \A h \in Priorities : h # l => queue'[h] = queue[h]
          /\ \A k \in Nat : k \in DOMAIN queue'[l] <=> (k # 0 /\ k + 1 \in DOMAIN queue[l])
          /\ \A k \in DOMAIN queue'[l] : queue'[l][k] = queue[l][k + 1] /\ k \in Nat
    BY <1>1, PopFacts
  <1> HIDE DEF m
  <1>4. m.id \in DOMAIN fate /\ fate[m.id] = "queued"
    BY <1>1, <1>3 DEF Queueing
  <1>5. /\ fate' \in Seq(Fates) /\ DOMAIN fate' = DOMAIN fate /\ fate'[m.id] = end
        /\ \A i \in DOMAIN fate : i # m.id => fate'[i] = fate[i]
    <2>1. fate' = [fate EXCEPT ![m.id] = end] /\ end \in Fates
      BY DEF m, Fates
    <2>2. fate \in [1..Len(fate) -> Fates] /\ Len(fate) \in Nat /\ DOMAIN fate = 1..Len(fate)
      BY <1>1
    <2>3. fate' \in [1..Len(fate) -> Fates]
      BY <1>4, <2>1, <2>2
    <2>4. fate' \in Seq(Fates)
      BY <2>2, <2>3
    <2>. QED
      BY <1>4, <2>1, <2>2, <2>4
  <1>6. /\ \A k \in DOMAIN queue'[l] :
             k + 1 \in DOMAIN queue[l] /\ queue'[l][k] = queue[l][k + 1] /\ k \in Nat /\ k # 0
        /\ \A j \in DOMAIN queue[l] :
             j # 1 => (j - 1 \in DOMAIN queue'[l] /\ queue'[l][j - 1] = queue[l][j])
    <2>1. DOMAIN queue[l] = 1..Len(queue[l]) /\ Len(queue[l]) \in Nat
      BY <1>1 DEF QueueOf
    <2>2. \A k \in DOMAIN queue'[l] :
            k + 1 \in DOMAIN queue[l] /\ queue'[l][k] = queue[l][k + 1] /\ k \in Nat /\ k # 0
      BY <1>3
    <2>3. ASSUME NEW j \in DOMAIN queue[l], j # 1
          PROVE  j - 1 \in DOMAIN queue'[l] /\ queue'[l][j - 1] = queue[l][j]
      <3>1. j - 1 \in Nat /\ j - 1 # 0 /\ (j - 1) + 1 = j
        BY <2>1, <2>3
      <3>. QED
        BY <1>3, <3>1
    <2>. QED
      BY <2>2, <2>3
  <1>7. Queueing'
    <2>1. ASSUME NEW h \in Priorities, NEW k \in DOMAIN queue'[h]
          PROVE  /\ queue'[h][k].id \in DOMAIN fate' /\ fate'[queue'[h][k].id] = "queued"
      <3>1. CASE h = l
        <4>1. k + 1 # 1
          BY <1>6, <3>1
        <4>2. queue[l][k + 1].id # m.id
          BY <1>1, <1>3, <1>6, <3>1, <4>1 DEF Queueing
        <4>. QED
          BY <1>1, <1>5, <1>6, <3>1, <4>2 DEF Queueing
      <3>2. CASE h # l
        <4>1. k \in DOMAIN queue[h] /\ queue'[h][k] = queue[h][k]
          BY <1>3, <3>2
        <4>2. queue[h][k].id # m.id
          BY <1>1, <1>3, <3>2, <4>1 DEF Queueing
        <4>. QED
          BY <1>1, <1>5, <4>1, <4>2 DEF Queueing
      <3>. QED
        BY <3>1, <3>2
    <2>2. ASSUME NEW g \in Priorities, NEW h \in Priorities,
                 NEW j \in DOMAIN queue'[g], NEW k \in DOMAIN queue'[h],
                 queue'[g][j].id = queue'[h][k].id
          PROVE  g = h /\ j = k
      <3>1. CASE g = l /\ h = l
        <4>1. j + 1 = k + 1
          BY <1>1, <1>6, <2>2, <3>1 DEF Queueing
        <4>. QED
          BY <1>6, <3>1, <4>1
      <3>2. CASE g = l /\ h # l
        <4>1. /\ j + 1 \in DOMAIN queue[l] /\ queue'[g][j] = queue[l][j + 1]
              /\ k \in DOMAIN queue[h] /\ queue'[h][k] = queue[h][k]
          BY <1>3, <1>6, <3>2
        <4>. QED
          BY <1>1, <2>2, <3>2, <4>1 DEF Queueing
      <3>3. CASE g # l /\ h = l
        <4>1. /\ k + 1 \in DOMAIN queue[l] /\ queue'[h][k] = queue[l][k + 1]
              /\ j \in DOMAIN queue[g] /\ queue'[g][j] = queue[g][j]
          BY <1>3, <1>6, <3>3
        <4>. QED
          BY <1>1, <2>2, <3>3, <4>1 DEF Queueing
      <3>4. CASE g # l /\ h # l
        <4>1. /\ j \in DOMAIN queue[g] /\ queue'[g][j] = queue[g][j]
              /\ k \in DOMAIN queue[h] /\ queue'[h][k] = queue[h][k]
          BY <1>3, <3>4
        <4>. QED
          BY <1>1, <2>2, <4>1 DEF Queueing
      <3>. QED
        BY <3>1, <3>2, <3>3, <3>4
    <2>3. ASSUME NEW i \in DOMAIN fate', fate'[i] = "queued"
          PROVE  \E h \in Priorities : \E k \in DOMAIN queue'[h] : queue'[h][k].id = i
      <3>1. i \in DOMAIN fate /\ fate[i] = "queued" /\ i # m.id
        BY <1>5, <2>3
      <3>2. PICK h \in Priorities : \E k \in DOMAIN queue[h] : queue[h][k].id = i
        BY <1>1, <3>1 DEF Queueing
      <3>3. PICK k \in DOMAIN queue[h] : queue[h][k].id = i
        BY <3>2
      <3>4. CASE h = l
        BY <1>3, <1>6, <3>1, <3>3, <3>4
      <3>5. CASE h # l
        BY <1>3, <3>3, <3>5
      <3>. QED
        BY <3>4, <3>5
    <2>. QED
      BY <2>1, <2>2, <2>3 DEF Queueing
  <1>8. OnePerKeyAndLevel'
    <2> SUFFICES ASSUME NEW h \in Priorities, NEW i \in DOMAIN queue'[h],
                        NEW j \in DOMAIN queue'[h],
                        queue'[h][i].key = queue'[h][j].key, queue'[h][i].key # NoKey
                 PROVE  i = j
      BY DEF OnePerKeyAndLevel
    <2>1. CASE h # l
      BY <1>1, <1>3, <2>1 DEF OnePerKeyAndLevel
    <2>2. CASE h = l
      <3>1. i + 1 = j + 1
        BY <1>1, <1>6, <2>2 DEF OnePerKeyAndLevel
      <3>. QED
        BY <1>6, <2>2, <3>1
    <2>. QED
      BY <2>1, <2>2
  <1>9. InFlight' /\ \A p, r \in pending' : p = r
    <2>1. \A i \in DOMAIN fate : fate[i] # "sent"
      BY <1>1 DEF InFlight
    <2>2. \A i \in DOMAIN fate : fate'[i] = "sent" <=> (i = m.id /\ end = "sent")
      BY <1>5, <2>1
    <2>3. \/ end = "failed" /\ pending' = {}
          \/ end = "sent" /\ \E p : pending' = {p} /\ p.id = m.id
      BY DEF m
    <2>. QED
      BY <1>4, <1>5, <2>2, <2>3 DEF InFlight
  <1>10. BookTypes'
    <2>1. Cardinality(pending') <= 1
      BY <1>9, PendingCount
    <2>. QED
      BY <1>2, <1>5, <2>1, QueueIsFunction DEF BookTypes
  <1>. QED
    BY <1>2, <1>4, <1>7, <1>8, <1>9, <1>10 DEF Books, m

-----------------------------------------------------------------------------
(* Registrations and the data store.                                         *)

(* unregister keeps the other registrations, whatever their number.          *)
LEMMA OthersType ==
  ASSUME NEW c, periodic \in Seq(PeriodicEntry)
  PROVE  Others(c) \in Seq(PeriodicEntry)
  <1> DEFINE Step(v, n) == IF periodic[n].cmd # c THEN Append(v, periodic[n]) ELSE v
             IsKept(g, N) == g = [n \in 0..N |-> IF n = 0 THEN <<>> ELSE Step(g[n - 1], n)]
             S == {N \in Nat : \E g : IsKept(g, N)}
             L == Len(periodic)
             kept == CHOOSE g : IsKept(g, L)
             T == {n \in Nat : n <= L => kept[n] \in Seq(PeriodicEntry)}
  <1>1. L \in Nat /\ \A n \in 1..L : periodic[n] \in PeriodicEntry
    OBVIOUS
  <1>2. 0 \in S
    <2>1. IsKept([n \in 0..0 |-> <<>>], 0)
      OBVIOUS
    <2>. QED
      BY <2>1
  <1>3. ASSUME NEW N \in Nat, N \in S PROVE N + 1 \in S
    <2>1. PICK g : IsKept(g, N)
      BY <1>3
    <2> DEFINE h == [n \in 0..N + 1 |-> IF n <= N THEN g[n] ELSE Step(g[N], N + 1)]
    <2> HIDE DEF Step
    <2>2. ASSUME NEW n \in 0..N + 1
          PROVE  h[n] = IF n = 0 THEN <<>> ELSE Step(h[n - 1], n)
      <3>1. CASE n <= N
        <4>1. h[n] = g[n] /\ n \in 0..N
          BY <3>1
        <4>2. n # 0 => h[n - 1] = g[n - 1]
          BY <3>1
        <4>. QED
          BY <2>1, <4>1, <4>2
      <3>2. CASE ~(n <= N)
        <4>1. n = N + 1 /\ n # 0 /\ n - 1 = N
          BY <3>2
        <4>2. h[n] = Step(g[N], n) /\ h[n - 1] = g[N]
          BY <4>1
        <4>. QED
          BY <4>1, <4>2
      <3>. QED
        BY <3>1, <3>2
    <2>3. h = [n \in 0..N + 1 |-> h[n]]
      OBVIOUS
    <2> HIDE DEF h
    <2>4. IsKept(h, N + 1)
      BY <2>2, <2>3
    <2>. QED
      BY <2>4
  <1>4. \E g : IsKept(g, L)
    <2> HIDE DEF S
    <2>1. L \in S
      BY <1>1, <1>2, <1>3, SetInduction
    <2>. QED
      BY <2>1 DEF S
  <1>5. Others(c) = kept[L]
    BY DEF Others
  <1>6. IsKept(kept, L)
    BY <1>4
  <1> HIDE DEF kept
  <1>7. 0 \in T
    BY <1>1, <1>6
  <1>8. ASSUME NEW n \in Nat, n \in T PROVE n + 1 \in T
    <2> SUFFICES ASSUME n + 1 <= L PROVE kept[n + 1] \in Seq(PeriodicEntry)
      OBVIOUS
    <2>1. kept[n] \in Seq(PeriodicEntry) /\ n + 1 \in 0..L /\ n + 1 \in 1..L
      BY <1>1, <1>8
    <2>2. kept[n + 1] = Step(kept[n], n + 1)
      <3>1. n + 1 # 0 /\ (n + 1) - 1 = n
        OBVIOUS
      <3> HIDE DEF Step
      <3>2. kept[n + 1] = IF n + 1 = 0 THEN <<>> ELSE Step(kept[(n + 1) - 1], n + 1)
        BY <1>6, <2>1
      <3>. QED
        BY <3>1, <3>2
    <2>. QED
      BY <1>1, <2>1, <2>2
  <1>9. L \in T
    <2> HIDE DEF T
    <2>. QED
      BY <1>1, <1>7, <1>8, SetInduction
  <1>. QED
    BY <1>1, <1>5, <1>9

(* RingBuffer::push counts the entry and makes it the latest one.             *)
LEMMA PushRingFacts ==
  ASSUME NEW k \in Nat \ {0}, NEW r \in RB!RingOf(k), NEW p \in Nat
  PROVE  /\ RB!PushRing(r, p) \in RB!RingOf(k)
         /\ RB!PushRing(r, p).seq = r.seq + 1
         /\ RB!Latest(RB!PushRing(r, p)) = <<p>>
  <1>1. /\ r.head \in 0..k-1 /\ r.len \in 0..k /\ r.capacity = k /\ r.seq \in Nat
        /\ r.buf \in [0..k-1 -> Nat \cup {Empty}]
    BY DEF RB!RingOf
  <1> DEFINE b == [r.buf EXCEPT ![r.head] = p]
             n == IF r.len < r.capacity THEN r.len + 1 ELSE r.len
             h == (r.head + 1) % r.capacity
             x == RB!PushRing(r, p)
  <1>2. b \in [0..k-1 -> Nat \cup {Empty}] /\ b[r.head] = p
    BY <1>1
  <1>3. n \in 1..k
    BY <1>1
  <1>4. h \in 0..k-1 /\ (IF h = 0 THEN k - 1 ELSE h - 1) = r.head
    <2>1. CASE r.head + 1 < k
      <3>1. (r.head + 1) % k = r.head + 1
        <4>1. \A a \in 0..k-1 : a % k = a
          OBVIOUS
        <4>. QED
          BY <1>1, <2>1, <4>1
      <3>. QED
        BY <1>1, <2>1, <3>1
    <2>2. CASE ~(r.head + 1 < k)
      <3>1. r.head + 1 = k /\ k % k = 0
        BY <1>1, <2>2
      <3>. QED
        BY <1>1, <3>1
    <2>. QED
      BY <2>1, <2>2
  <1>5. x = [buf |-> b, head |-> h, len |-> n, capacity |-> k, seq |-> r.seq + 1]
    BY <1>1 DEF RB!PushRing
  <1> HIDE DEF b, n, h, x
  <1>6. x.buf = b /\ x.head = h /\ x.len = n /\ x.capacity = k /\ x.seq = r.seq + 1
    BY <1>5
  <1>7. x \in RB!RingOf(k)
    BY <1>1, <1>2, <1>3, <1>4, <1>5 DEF RB!RingOf
  <1>8. RB!Latest(x) = <<p>>
    <2>1. x.len # 0
      BY <1>3, <1>6
    <2>2. x.buf[IF x.head = 0 THEN x.capacity - 1 ELSE x.head - 1] = p
      BY <1>2, <1>4, <1>6
    <2>. QED
      BY <2>1, <2>2 DEF RB!Latest
  <1>. QED
    BY <1>6, <1>7, <1>8 DEF x

(* DataStore::store keeps every buffer a ring of its capacity.               *)
LEMMA StoreInType ==
  ASSUME StoreTypes, NEW c, NEW p \in Nat, store' = RB!StoreIn(store, c, p), periodic' = periodic
  PROVE  /\ StoreTypes' /\ DOMAIN store' = DOMAIN store
         /\ \A x \in DOMAIN store : x # c => store'[x] = store[x]
         /\ c \in DOMAIN store => /\ store'[c].seq = store[c].seq + 1
                                 /\ RB!Latest(store'[c]) = <<p>>
  <1>1. CASE c \notin DOMAIN store
    <2>1. store' = store
      BY <1>1 DEF RB!StoreIn
    <2>. QED
      BY <1>1, <2>1 DEF StoreTypes
  <1>2. CASE c \in DOMAIN store
    <2>1. store' = [store EXCEPT ![c] = RB!PushRing(store[c], p)]
      BY <1>2 DEF RB!StoreIn
    <2>2. PICK k \in Capacities : store[c] \in RB!RingOf(k)
      BY <1>2 DEF StoreTypes
    <2>3. k \in Nat \ {0}
      BY CapacitiesAssumption
    <2>4. /\ RB!PushRing(store[c], p) \in RB!RingOf(k)
          /\ RB!PushRing(store[c], p).seq = store[c].seq + 1
          /\ RB!Latest(RB!PushRing(store[c], p)) = <<p>>
      BY <2>2, <2>3, PushRingFacts
    <2>5. /\ DOMAIN store' = DOMAIN store /\ store'[c] = RB!PushRing(store[c], p)
          /\ \A x \in DOMAIN store : x # c => store'[x] = store[x]
      BY <1>2, <2>1
    <2>6. StoreTypes'
      BY <1>2, <2>4, <2>5 DEF StoreTypes
    <2>. QED
      BY <2>4, <2>5, <2>6
  <1>. QED
    BY <1>1, <1>2

(* DataStore::register gives the command a new, empty buffer.                *)
LEMMA RegisterInType ==
  ASSUME StoreTypes, NEW c \in Commands, NEW k \in Capacities,
         store' = RB!RegisterIn(store, c, k)
  PROVE  \A x \in DOMAIN store' :
           x \in Commands /\ \E n \in Capacities : store'[x] \in RB!RingOf(n)
  <1>1. k \in Nat \ {0}
    BY CapacitiesAssumption
  <1>2. RB!NewRing(k) \in RB!RingOf(k)
    BY <1>1 DEF RB!NewRing, RB!RingOf
  <1>3. DOMAIN store' = DOMAIN store \cup {c}
        /\ \A x \in DOMAIN store' : store'[x] = IF x = c THEN RB!NewRing(k) ELSE store[x]
    BY DEF RB!RegisterIn
  <1>. QED
    BY <1>2, <1>3 DEF StoreTypes

-----------------------------------------------------------------------------
(* The fates as RequestLedger sees them.                                     *)

Book == [i \in DOMAIN fate |-> Seen(fate[i])]
BookStep == Ledger!Next \/ Book' = Book

(* What becomes of each fate in the ledger.                                  *)
LEMMA SeenFacts ==
  /\ Seen("queued") = "open" /\ Seen("sent") = "open" /\ Seen("answered") = "reported"
  /\ Seen("timedout") = "reported" /\ Seen("failed") = "reported"
  /\ Seen("replaced") = "replaced" /\ Seen("cleared") = "dropped"
  BY DEF Seen

(* A step that changes no fate as the application sees it.                   *)
LEMMA LedgerSame ==
  ASSUME DOMAIN fate' = DOMAIN fate, \A i \in DOMAIN fate : Seen(fate'[i]) = Seen(fate[i])
  PROVE  BookStep
  BY DEF Book, BookStep

(* One request is reported.                                                  *)
LEMMA LedgerReport ==
  ASSUME DOMAIN fate' = DOMAIN fate, NEW i \in DOMAIN fate,
         fate[i] \in {"queued", "sent"}, fate'[i] \in {"answered", "timedout", "failed"},
         \A j \in DOMAIN fate : j # i => fate'[j] = fate[j]
  PROVE  BookStep
  <1>1. Book' = [j \in DOMAIN Book |-> IF j \in {i} THEN "reported" ELSE Book[j]]
    BY SeenFacts DEF Book
  <1>2. i \in DOMAIN Book /\ Book[i] = "open"
    BY SeenFacts DEF Book
  <1>. QED
    BY <1>1, <1>2 DEF BookStep, Book, Ledger!Next, Ledger!Report, Ledger!Marked, Ledger!Open

(* The queue is cleared.                                                     *)
LEMMA LedgerDrop ==
  ASSUME DOMAIN fate' = DOMAIN fate,
         \A i \in DOMAIN fate : fate'[i] = IF fate[i] = "queued" THEN "cleared" ELSE fate[i]
  PROVE  BookStep
  <1> DEFINE gone == {i \in DOMAIN fate : fate[i] = "queued"}
  <1>1. Book' = [j \in DOMAIN Book |-> IF j \in gone THEN "dropped" ELSE Book[j]]
    BY SeenFacts DEF Book
  <1>2. gone \in SUBSET {j \in DOMAIN Book : Book[j] = "open"}
    BY SeenFacts DEF Book
  <1> HIDE DEF gone
  <1>3. gone \in SUBSET Ledger!Open /\ Ledger!Drop(gone)
    BY <1>1, <1>2 DEF Book, Ledger!Drop, Ledger!Marked, Ledger!Open
  <1>. QED
    BY <1>3 DEF BookStep, Ledger!Next

(* A request is accepted.                                                    *)
LEMMA LedgerAccept ==
  ASSUME fate \in Seq(Fates), fate' \in Seq(Fates), Accepted
  PROVE  BookStep
  <1>1. PICK gone \in SUBSET {i \in DOMAIN fate : fate[i] = "queued"} :
          /\ \A i, j \in gone : i = j
          /\ DOMAIN fate' = DOMAIN fate \cup {Len(fate) + 1} /\ fate'[Len(fate) + 1] = "queued"
          /\ \A i \in DOMAIN fate : fate'[i] = IF i \in gone THEN "replaced" ELSE fate[i]
    BY DEF Accepted
  <1>2. \A i, j \in gone : i = j
    BY <1>1
  <1>3. gone \in SUBSET {j \in DOMAIN Book : Book[j] = "open"}
    BY SeenFacts DEF Book
  <1> DEFINE marked == [j \in DOMAIN Book |-> IF j \in gone THEN "replaced" ELSE Book[j]]
             n == Len(fate) + 1
  <1>4. DOMAIN fate = 1..Len(fate) /\ Len(fate) \in Nat /\ DOMAIN Book = DOMAIN fate
        /\ DOMAIN Book' = DOMAIN fate'
    BY DEF Book
  <1>5. \A j \in DOMAIN fate : marked[j] = Book'[j]
    BY <1>1, <1>4, SeenFacts DEF Book
  <1>6. Book'[n] = "open" /\ n \notin DOMAIN fate
    BY <1>1, <1>4, SeenFacts DEF Book
  <1>7. Book' = [j \in DOMAIN fate \cup {n} |-> IF j = n THEN "open" ELSE marked[j]]
    <2>1. Book' = [j \in DOMAIN fate \cup {n} |-> Book'[j]]
      BY <1>1, <1>4 DEF Book
    <2>. QED
      BY <1>5, <1>6, <2>1
  <1>8. n \in DOMAIN Book' \ DOMAIN Book /\ \A j \in DOMAIN Book : j < n
    <2>1. \A j \in 1..Len(fate) : j < Len(fate) + 1
      BY <1>4
    <2>. QED
      BY <1>1, <1>4, <1>6, <2>1
  <1> HIDE DEF marked, n
  <1>9. Ledger!Marked(gone, "replaced") = marked
    BY DEF Ledger!Marked, marked, Book
  <1>10. Ledger!Open = {j \in DOMAIN Book : Book[j] = "open"}
    BY DEF Ledger!Open, Book
  <1>11. Ledger!Accept(gone)
    <2>1. Book' = [j \in DOMAIN Book \cup {n} |->
                     IF j = n THEN "open" ELSE Ledger!Marked(gone, "replaced")[j]]
      BY <1>4, <1>7, <1>9
    <2>. QED
      BY <1>2, <1>8, <2>1 DEF Ledger!Accept, Book
  <1>12. gone \in SUBSET Ledger!Open
    BY <1>3, <1>10
  <1>. QED
    BY <1>11, <1>12 DEF BookStep, Ledger!Next

-----------------------------------------------------------------------------
(* The steps of the client, each with the step of the ledger it takes.       *)

(* Neither queue, pending request nor fates change.                          *)
LEMMA KeepStep ==
  ASSUME Books, queue' = queue, pending' = pending, fate' = fate
  PROVE  Books' /\ BookStep
  <1>1. DOMAIN fate' = DOMAIN fate /\ \A i \in DOMAIN fate : Seen(fate'[i]) = Seen(fate[i])
    OBVIOUS
  <1>. QED
    BY <1>1, BooksUnchanged, LedgerSame

(* A message is pushed.                                                      *)
LEMMA AcceptStep ==
  ASSUME Books, NEW op \in {"READ", "WRITE"}, NEW c \in Commands, NEW prio \in Priorities,
         NEW key \in AllKeys, NEW timeout \in PeriodicTimeouts \cup {None},
         NEW expect \in {"Data", "Ack"}, Enqueue(op, c, prio, key, timeout, expect),
         pending' = pending
  PROVE  Books' /\ BookStep
  <1>1. Books' /\ Accepted
    BY BooksEnqueue
  <1>2. fate \in Seq(Fates) /\ fate' \in Seq(Fates)
    BY <1>1 DEF Books, BookTypes
  <1>. QED
    BY <1>1, <1>2, LedgerAccept

(* The pending request ends, if there is one.                                *)
LEMMA CompleteStep ==
  ASSUME Books, NEW end \in {"answered", "timedout"}, Complete(end), queue' = queue
  PROVE  Books' /\ BookStep
  <1>1. Books'
    BY BooksComplete
  <1>2. InFlight /\ DOMAIN fate' = DOMAIN fate
        /\ \A i \in DOMAIN fate :
             fate'[i] = IF \E p \in pending : p.id = i THEN end ELSE fate[i]
    BY DEF Books, Complete
  <1>3. CASE pending = {}
    <2>1. \A i \in DOMAIN fate : Seen(fate'[i]) = Seen(fate[i])
      BY <1>2, <1>3
    <2>. QED
      BY <1>1, <1>2, <2>1, LedgerSame
  <1>4. CASE pending # {}
    <2>1. PICK p \in pending : TRUE
      BY <1>4
    <2> DEFINE i == p.id
    <2>2. i \in DOMAIN fate /\ fate[i] = "sent" /\ \A r \in pending : r = p
      BY <1>2, <2>1 DEF InFlight
    <2>3. fate'[i] = end /\ \A j \in DOMAIN fate : j # i => fate'[j] = fate[j]
      BY <1>2, <2>1, <2>2
    <2> HIDE DEF i
    <2>4. fate[i] \in {"queued", "sent"} /\ fate'[i] \in {"answered", "timedout", "failed"}
      BY <2>2, <2>3
    <2>5. BookStep
      BY <1>2, <2>2, <2>3, <2>4, LedgerReport
    <2>. QED
      BY <1>1, <2>5
  <1>. QED
    BY <1>3, <1>4

(* The next message leaves the queue.                                        *)
LEMMA PopStep ==
  ASSUME Books, pending = {}, ~IsEmptyQueue(queue), queue' = PopRest(queue),
         NEW end \in {"sent", "failed"}, fate' = [fate EXCEPT ![PopMessage(queue).id] = end],
         pending' \subseteq PendingRequest, end = "failed" => pending' = {},
         end = "sent" => \E p : pending' = {p} /\ p.id = PopMessage(queue).id
  PROVE  Books' /\ BookStep
  <1> DEFINE i == PopMessage(queue).id
  <1>1. Books' /\ i \in DOMAIN fate /\ fate[i] = "queued"
    BY BooksPop
  <1>2. fate' = [fate EXCEPT ![i] = end]
    OBVIOUS
  <1> HIDE DEF i
  <1>3. DOMAIN fate' = DOMAIN fate /\ fate'[i] = end
        /\ \A j \in DOMAIN fate : j # i => fate'[j] = fate[j]
    BY <1>1, <1>2
  <1>4. CASE end = "sent"
    <2>1. \A j \in DOMAIN fate : Seen(fate'[j]) = Seen(fate[j])
      BY <1>1, <1>3, <1>4, SeenFacts
    <2>. QED
      BY <1>1, <1>3, <2>1, LedgerSame
  <1>5. CASE end = "failed"
    <2>1. fate[i] \in {"queued", "sent"} /\ fate'[i] \in {"answered", "timedout", "failed"}
      BY <1>1, <1>3, <1>5
    <2>2. BookStep
      BY <1>1, <1>3, <2>1, LedgerReport
    <2>. QED
      BY <1>1, <2>2
  <1>. QED
    BY <1>4, <1>5

(* The state of a new client.                                                *)
LEMMA InitInv == Init => Inv
  <1> SUFFICES ASSUME Init PROVE Inv
    OBVIOUS
  <1>1. /\ queue = EmptyQueue /\ pending = {} /\ periodic = <<>> /\ DOMAIN store = {}
        /\ phase = "idle" /\ next = 1 /\ rx = <<>> /\ readAt = 0
        /\ wire = <<>> /\ inbox = <<>> /\ notified = 0 /\ now = 0 /\ fate = <<>>
    BY DEF Init
  <1>2. queue \in QueueOf(Message) /\ \A l \in Priorities : DOMAIN queue[l] = {}
    BY <1>1, EmptyQueueFacts
  <1>3. queue \in [high: Seq(Message), low: Seq(Message)]
    BY <1>2, QueueIsFunction
  <1>4. Cardinality(pending) <= 1
    BY <1>1, PendingCount
  <1>5. fate \in Seq(Fates) /\ DOMAIN fate = {}
    BY <1>1
  <1>6. BookTypes
    BY <1>1, <1>3, <1>4, <1>5 DEF BookTypes
  <1>7. Queueing /\ InFlight /\ OnePerKeyAndLevel
    BY <1>1, <1>2, <1>5 DEF Queueing, InFlight, OnePerKeyAndLevel
  <1>8. StoreTypes
    BY <1>1 DEF StoreTypes
  <1>9. PollTypes /\ LinkTypes /\ Reading
    BY <1>1 DEF PollTypes, LinkTypes, Reading, Phases
  <1>. QED
    BY <1>6, <1>7, <1>8, <1>9 DEF Inv, Books

(* Calls of the host program.                                                *)
LEMMA HostStep ==
  ASSUME Inv, HostCall
  PROVE  Inv' /\ BookStep
  <1>1. Books /\ StoreTypes /\ PollTypes /\ LinkTypes /\ Reading
    BY DEF Inv
  <1>2. ASSUME UNCHANGED <<pollVars, linkVars, now>>
        PROVE  PollTypes' /\ LinkTypes' /\ Reading'
    BY <1>1, <1>2 DEF pollVars, linkVars, PollTypes, LinkTypes, Reading
  <1>3. ASSUME UNCHANGED <<periodic, store>> PROVE StoreTypes'
    BY <1>1, <1>3 DEF StoreTypes
  <1>4. ASSUME NEW c \in Commands, NEW prio \in Priorities, NEW key \in Keys \cup {NoKey},
               Read(c, prio, key)
        PROVE  Inv' /\ BookStep
    <2>1. /\ Enqueue("READ", c, prio, key, None, "Data") /\ pending' = pending
          /\ UNCHANGED <<pollVars, linkVars, now>> /\ UNCHANGED <<periodic, store>>
      BY <1>4 DEF Read
    <2>2. key \in AllKeys /\ None \in PeriodicTimeouts \cup {None}
      BY DEF AllKeys
    <2>3. Books' /\ BookStep
      BY <1>1, <2>1, <2>2, AcceptStep
    <2>. QED
      BY <1>2, <1>3, <2>1, <2>3 DEF Inv
  <1>5. ASSUME NEW c \in Commands, Write(c) \/ Query(c)
        PROVE  Inv' /\ BookStep
    <2>1. /\ UNCHANGED <<pollVars, linkVars, now>> /\ UNCHANGED <<periodic, store>>
          /\ pending' = pending
      BY <1>5 DEF Write, Query
    <2>2. PICK expect \in {"Data", "Ack"} : Enqueue("WRITE", c, "high", NoKey, None, expect)
      BY <1>5 DEF Write, Query
    <2>3. NoKey \in AllKeys /\ None \in PeriodicTimeouts \cup {None} /\ "high" \in Priorities
      BY DEF AllKeys, Priorities
    <2>4. Books' /\ BookStep
      BY <1>1, <2>1, <2>2, <2>3, AcceptStep
    <2>. QED
      BY <1>2, <1>3, <2>1, <2>4 DEF Inv
  <1>6. ASSUME NEW c \in Commands, UnregisterPeriodic(c)
        PROVE  Inv' /\ BookStep
    <2>1. /\ periodic' = Others(c) /\ queue' = queue /\ pending' = pending /\ fate' = fate
          /\ UNCHANGED <<pollVars, linkVars, now>> /\ store' = store
      BY <1>6 DEF UnregisterPeriodic
    <2>2. StoreTypes'
      <3>1. periodic' \in Seq(PeriodicEntry)
        BY <1>1, <2>1, OthersType DEF StoreTypes
      <3>. QED
        BY <1>1, <2>1, <3>1 DEF StoreTypes
    <2>3. Books' /\ BookStep
      BY <1>1, <2>1, KeepStep
    <2>. QED
      BY <1>2, <2>1, <2>2, <2>3 DEF Inv
  <1>7. ASSUME ClearQueue PROVE Inv' /\ BookStep
    <2>1. /\ queue' = EmptyQueue /\ pending' = pending
          /\ fate' = [i \in DOMAIN fate |-> IF fate[i] = "queued" THEN "cleared" ELSE fate[i]]
          /\ UNCHANGED <<pollVars, linkVars, now>> /\ UNCHANGED <<periodic, store>>
      BY <1>7 DEF ClearQueue
    <2>2. Books'
      BY <1>1, <2>1, BooksClear
    <2>3. BookStep
      <3>1. DOMAIN fate' = DOMAIN fate /\ \A i \in DOMAIN fate :
              fate'[i] = IF fate[i] = "queued" THEN "cleared" ELSE fate[i]
        BY <2>1
      <3>. QED
        BY <3>1, LedgerDrop
    <2>. QED
      BY <1>2, <1>3, <2>1, <2>2, <2>3 DEF Inv
  <1>8. ASSUME NEW c \in Commands, NEW i \in Intervals, NEW t \in PeriodicTimeouts \cup {None},
               NEW k \in Capacities, RegisterPeriodic(c, i, t, k)
        PROVE  Inv' /\ BookStep
    <2> DEFINE e == [cmd |-> c, interval |-> i, next_due |-> None, timeout |-> t]
    <2>1. /\ periodic' = Append(Others(c), e) /\ store' = RB!RegisterIn(store, c, k)
          /\ queue' = queue /\ pending' = pending /\ fate' = fate
          /\ UNCHANGED <<pollVars, linkVars, now>>
      BY <1>8 DEF RegisterPeriodic
    <2>2. e \in PeriodicEntry
      BY DEF PeriodicEntry
    <2> HIDE DEF e
    <2>3. StoreTypes'
      <3>1. Others(c) \in Seq(PeriodicEntry)
        BY <1>1, OthersType DEF StoreTypes
      <3>2. periodic' \in Seq(PeriodicEntry)
        BY <2>1, <2>2, <3>1
      <3>3. \A x \in DOMAIN store' :
              x \in Commands /\ \E n \in Capacities : store'[x] \in RB!RingOf(n)
        BY <1>1, <2>1, RegisterInType
      <3>. QED
        BY <3>2, <3>3 DEF StoreTypes
    <2>4. Books' /\ BookStep
      BY <1>1, <2>1, KeepStep
    <2>. QED
      BY <1>2, <2>1, <2>3, <2>4 DEF Inv
  <1>. QED
    BY <1>4, <1>5, <1>6, <1>7, <1>8 DEF HostCall

(* The reads of poll().                                                      *)
LEMMA ReadStep ==
  ASSUME Inv, BeginPoll \/ ReadNothing \/ ReadAll \/ ReadFull \/ ReadError
  PROVE  Inv' /\ BookStep
  <1>1. Books /\ StoreTypes /\ PollTypes /\ LinkTypes /\ Reading
    BY DEF Inv
  <1>2. UNCHANGED <<queue, pending, fate>> /\ UNCHANGED <<periodic, store>>
        /\ UNCHANGED <<next, wire, notified, now>>
    BY DEF BeginPoll, ReadNothing, ReadAll, ReadFull, ReadError, hostVars, linkVars
  <1>3. Books' /\ BookStep
    BY <1>1, <1>2, KeepStep
  <1>4. StoreTypes'
    BY <1>1, <1>2 DEF StoreTypes
  <1>5. CASE BeginPoll \/ ReadNothing \/ ReadError
    <2>1. UNCHANGED <<rx, inbox>> /\ phase \in {"idle", "read"} /\ phase' \in {"read", "timeout"}
          /\ readAt' \in {readAt, now}
      BY <1>5 DEF BeginPoll, ReadNothing, ReadError, linkVars
    <2>2. PollTypes' /\ LinkTypes' /\ Reading'
      BY <1>1, <1>2, <2>1 DEF PollTypes, LinkTypes, Reading, Phases
    <2>. QED
      BY <1>3, <1>4, <2>2 DEF Inv
  <1>6. CASE ReadAll
    <2>1. inbox # <<>> /\ rx' = inbox /\ inbox' = <<>> /\ phase' = "handle" /\ readAt' = now
      BY <1>6 DEF ReadAll
    <2>2. PollTypes' /\ LinkTypes' /\ Reading'
      BY <1>1, <1>2, <2>1 DEF PollTypes, LinkTypes, Reading, Phases
    <2>. QED
      BY <1>3, <1>4, <2>2 DEF Inv
  <1>7. CASE ReadFull
    <2>1. PICK k \in 1..Len(inbox) : /\ rx' = SubSeq(inbox, 1, k)
                                     /\ inbox' = SubSeq(inbox, k + 1, Len(inbox))
      BY <1>7 DEF ReadFull
    <2>2. phase' = "handle_full" /\ readAt' = readAt
      BY <1>7 DEF ReadFull
    <2>3. inbox \in Seq(Frame) /\ Len(inbox) \in Nat /\ k \in Nat
      BY <1>1 DEF LinkTypes
    <2>4. rx' \in Seq(Frame) /\ Len(rx') = k /\ k # 0
      BY <2>1, <2>3
    <2>5. inbox' \in Seq(Frame)
      BY <2>1, <2>3
    <2>6. rx' # <<>>
      BY <2>4
    <2>7. PollTypes' /\ LinkTypes' /\ Reading'
      BY <1>1, <1>2, <2>2, <2>4, <2>5, <2>6 DEF PollTypes, LinkTypes, Reading, Phases
    <2>. QED
      BY <1>3, <1>4, <2>7 DEF Inv
  <1>. QED
    BY <1>5, <1>6, <1>7

(* The frame at the head of rx is taken off.                                 *)
LEMMA NextFrameFacts ==
  ASSUME PollTypes, LinkTypes, Reading, phase \in {"handle", "handle_full"}, NextFrame
  PROVE  PollTypes' /\ LinkTypes' /\ Reading' /\ rx # <<>> /\ Head(rx) \in Frame /\ rx' # rx
  <1>1. rx \in Seq(Frame) /\ rx # <<>> /\ rx' = Tail(rx)
    BY DEF PollTypes, Reading, NextFrame
  <1>2. Len(rx) \in Nat /\ Len(rx) >= 1 /\ rx' \in Seq(Frame) /\ Len(rx') = Len(rx) - 1
        /\ Head(rx) \in Frame
    BY <1>1
  <1>3. rx' # rx /\ (rx' # <<>> <=> Len(rx) > 1)
    <2>1. rx' # rx
      BY <1>2
    <2>2. \A s \in Seq(Frame) : s = <<>> <=> Len(s) = 0
      OBVIOUS
    <2>3. rx' = <<>> <=> Len(rx') = 0
      BY <1>2, <2>2
    <2>4. Len(rx') = 0 <=> ~(Len(rx) > 1)
      BY <1>2
    <2>. QED
      BY <2>1, <2>3, <2>4
  <1>4. phase' = IF Len(rx) > 1 THEN phase ELSE IF phase = "handle" THEN "timeout" ELSE "read"
    BY DEF NextFrame
  <1>5. UNCHANGED <<next, readAt, wire, inbox, notified, now>>
    BY DEF NextFrame, linkVars
  <1>6. Reading'
    BY <1>2, <1>3, <1>4 DEF Reading
  <1>7. PollTypes' /\ LinkTypes'
    BY <1>2, <1>4, <1>5 DEF PollTypes, LinkTypes, Phases
  <1>. QED
    BY <1>1, <1>2, <1>3, <1>6, <1>7

(* handle_frame, for every kind of frame.                                    *)
LEMMA HandleStep ==
  ASSUME Inv, HandleAck \/ HandleNack \/ HandleData \/ HandleNotification
  PROVE  Inv' /\ BookStep
  <1>1. Books /\ StoreTypes /\ PollTypes /\ LinkTypes /\ Reading
    BY DEF Inv
  <1>2. phase \in {"handle", "handle_full"} /\ NextFrame
        /\ (Complete("answered") \/ KeepPending)
    BY DEF HandleAck, HandleNack, HandleData, HandleNotification, Handling
  <1>3. PollTypes' /\ LinkTypes' /\ Reading' /\ rx # <<>> /\ Head(rx) \in Frame
    BY <1>1, <1>2, NextFrameFacts
  <1>4. queue' = queue /\ periodic' = periodic
    BY <1>2 DEF NextFrame
  <1>5. Books' /\ BookStep
    <2>1. CASE Complete("answered")
      BY <1>1, <1>4, <2>1, CompleteStep
    <2>2. CASE KeepPending
      BY <1>1, <1>4, <2>2, KeepStep DEF KeepPending
    <2>. QED
      BY <1>2, <2>1, <2>2
  <1>6. StoreTypes'
    <2>1. CASE HandleData
      <3>1. Head(rx).kind = "Data" /\ store' = RB!StoreIn(store, Head(rx).cmd, Head(rx).id)
        BY <2>1 DEF HandleData, Handling, StoreData, RB!StoreIn
      <3>2. Head(rx).id \in Nat
        BY <1>3, <3>1 DEF Frame, Replies
      <3>. QED
        BY <1>1, <1>4, <3>1, <3>2, StoreInType
    <2>2. CASE ~HandleData
      <3>1. store' = store
        BY <2>2 DEF HandleAck, HandleNack, HandleNotification
      <3>. QED
        BY <1>1, <1>4, <3>1 DEF StoreTypes
    <2>. QED
      BY <2>1, <2>2
  <1>. QED
    BY <1>3, <1>5, <1>6 DEF Inv

(* The timeout check.                                                        *)
LEMMA TimeoutStep ==
  ASSUME Inv, CheckTimeout
  PROVE  Inv' /\ BookStep
  <1>1. Books /\ StoreTypes /\ PollTypes /\ LinkTypes /\ Reading
    BY DEF Inv
  <1>2. /\ phase = "timeout" /\ phase' = "periodic" /\ next' = 1 /\ readAt' = 0
        /\ UNCHANGED <<queue, periodic, store, rx, wire, inbox, notified, now>>
        /\ (Complete("timedout") \/ KeepPending)
    BY DEF CheckTimeout, linkVars
  <1>3. Books' /\ BookStep
    <2>1. CASE Complete("timedout")
      BY <1>1, <1>2, <2>1, CompleteStep
    <2>2. CASE KeepPending
      BY <1>1, <1>2, <2>2, KeepStep DEF KeepPending
    <2>. QED
      BY <1>2, <2>1, <2>2
  <1>4. StoreTypes' /\ PollTypes' /\ LinkTypes' /\ Reading'
    BY <1>1, <1>2 DEF StoreTypes, PollTypes, LinkTypes, Reading, Phases
  <1>. QED
    BY <1>3, <1>4 DEF Inv

(* One iteration of enqueue_periodic_at, and the end of its loop.            *)
LEMMA PeriodicStep ==
  ASSUME Inv, PeriodicDue \/ PeriodicNotDue \/ PeriodicDone
  PROVE  Inv' /\ BookStep
  <1>1. Books /\ StoreTypes /\ PollTypes /\ LinkTypes /\ Reading
    BY DEF Inv
  <1>2. CASE PeriodicNotDue \/ PeriodicDone
    <2>1. /\ UNCHANGED <<queue, pending, fate>>
          /\ UNCHANGED <<periodic, store, rx, readAt, wire, inbox, notified, now>>
          /\ phase = "periodic" /\ phase' \in {"periodic", "flush"} /\ next' \in {1, next + 1}
      BY <1>2 DEF PeriodicNotDue, PeriodicDone, hostVars, linkVars
    <2>2. StoreTypes' /\ PollTypes' /\ LinkTypes' /\ Reading'
      BY <1>1, <2>1 DEF StoreTypes, PollTypes, LinkTypes, Reading, Phases
    <2>. QED
      BY <1>1, <2>1, <2>2, KeepStep DEF Inv
  <1>3. CASE PeriodicDue
    <2> DEFINE e == periodic[next]
               due == AdvanceDue(e.next_due, e.interval, now)
    <2>1. /\ phase = "periodic" /\ next <= Len(periodic)
          /\ periodic' = [periodic EXCEPT ![next].next_due = due]
          /\ Enqueue("READ", e.cmd, "low", PeriodicKey(e.cmd), e.timeout, "Data")
          /\ next' = next + 1
          /\ UNCHANGED <<pending, store, phase, rx, readAt, wire, inbox, notified, now>>
      BY <1>3 DEF PeriodicDue, linkVars
    <2>2. next \in 1..Len(periodic) /\ periodic \in Seq(PeriodicEntry) /\ e \in PeriodicEntry
          /\ now \in Nat /\ next \in Nat
      BY <1>1, <2>1 DEF PollTypes, StoreTypes, LinkTypes
    <2> HIDE DEF e, due
    <2>3. /\ e.cmd \in Commands /\ e.timeout \in PeriodicTimeouts \cup {None}
          /\ e.interval \in Nat /\ e.next_due \in Nat \cup {None}
      BY <2>2, TimesAssumption DEF PeriodicEntry
    <2>4. due \in Nat
      <3>1. \A x \in Nat \cup {None}, y, z \in Nat : AdvanceDue(x, y, z) \in Nat
        BY DEF AdvanceDue, None
      <3>. QED
        BY <2>2, <2>3, <3>1 DEF due
    <2>5. periodic' \in Seq(PeriodicEntry)
      <3>1. [e EXCEPT !.next_due = due] \in PeriodicEntry
        BY <2>2, <2>4 DEF PeriodicEntry
      <3>2. periodic' = [periodic EXCEPT ![next] = [e EXCEPT !.next_due = due]]
        BY <2>1 DEF e
      <3>. QED
        BY <2>2, <3>1, <3>2
    <2>6. PeriodicKey(e.cmd) \in AllKeys /\ "low" \in Priorities
      BY <2>3 DEF AllKeys, Priorities
    <2>7. Books' /\ BookStep
      BY <1>1, <2>1, <2>3, <2>6, AcceptStep
    <2>8. StoreTypes'
      BY <1>1, <2>1, <2>5 DEF StoreTypes
    <2>9. PollTypes' /\ LinkTypes' /\ Reading'
      BY <1>1, <2>1 DEF PollTypes, LinkTypes, Reading, Phases
    <2>. QED
      BY <2>7, <2>8, <2>9 DEF Inv
  <1>. QED
    BY <1>2, <1>3

(* try_flush.                                                                *)
LEMMA FlushStep ==
  ASSUME Inv, FlushNothing \/ FlushSend \/ FlushFail
  PROVE  Inv' /\ BookStep
  <1>1. Books /\ StoreTypes /\ PollTypes /\ LinkTypes /\ Reading
    BY DEF Inv
  <1>2. CASE FlushNothing
    <2>1. /\ UNCHANGED <<queue, pending, fate>>
          /\ UNCHANGED <<periodic, store, next, rx, readAt, wire, inbox, notified, now>>
          /\ phase = "flush" /\ phase' = "idle"
      BY <1>2 DEF FlushNothing, hostVars, linkVars
    <2>2. StoreTypes' /\ PollTypes' /\ LinkTypes' /\ Reading'
      BY <1>1, <2>1 DEF StoreTypes, PollTypes, LinkTypes, Reading, Phases
    <2>. QED
      BY <1>1, <2>1, <2>2, KeepStep DEF Inv
  <1> DEFINE m == PopMessage(queue)
  <1>3. ASSUME CanFlush PROVE pending = {} /\ ~IsEmptyQueue(queue) /\ m \in Message
    <2>1. pending = {} /\ ~IsEmptyQueue(queue) /\ queue \in QueueOf(Message)
      BY <1>1, <1>3, QueueIsFunction DEF CanFlush, Books, BookTypes
    <2>. QED
      BY <2>1, PopFacts
  <1>4. ASSUME m \in Message, OnWire(m) PROVE wire' \in Seq(Request)
    <2> DEFINE r == [id |-> m.id, op |-> m.op, cmd |-> m.cmd, due |-> now + MaxLatency]
    <2>1. wire' = Append(wire, r)
      BY <1>4 DEF OnWire
    <2>2. now \in Nat /\ MaxLatency \in Nat /\ wire \in Seq(Request)
      BY <1>1, TimesAssumption DEF LinkTypes
    <2>3. r \in Request
      BY <1>4, <2>2 DEF Message, Request
    <2> HIDE DEF r
    <2>. QED
      BY <2>1, <2>2, <2>3
  <1>5. ASSUME wire' \in Seq(Request), phase = "flush", phase' = "idle",
               UNCHANGED <<periodic, store, next, rx, readAt, inbox, notified, now>>
        PROVE  StoreTypes' /\ PollTypes' /\ LinkTypes' /\ Reading'
    BY <1>1, <1>5 DEF StoreTypes, PollTypes, LinkTypes, Reading, Phases
  <1>6. CASE FlushSend
    <2> DEFINE t == IF m.timeout = None THEN ResponseTimeout ELSE m.timeout
               p == [id |-> m.id, cmd |-> m.cmd, sent_at |-> now, timeout |-> t,
                     expect |-> m.expect]
    <2>1. /\ CanFlush /\ queue' = PopRest(queue) /\ pending' = {p} /\ OnWire(m)
          /\ fate' = [fate EXCEPT ![m.id] = "sent"] /\ phase = "flush" /\ phase' = "idle"
          /\ UNCHANGED <<periodic, store, next, rx, readAt, inbox, notified, now>>
      BY <1>6 DEF FlushSend, CanFlush
    <2>2. pending = {} /\ ~IsEmptyQueue(queue) /\ m \in Message
      BY <1>3, <2>1
    <2> HIDE DEF m
    <2>3. t \in Nat /\ now \in Nat
      <3>1. m.timeout \in PeriodicTimeouts \cup {None}
        BY <2>2 DEF Message
      <3>. QED
        BY <1>1, <3>1, TimesAssumption DEF LinkTypes, None
    <2> HIDE DEF t
    <2>4. p \in PendingRequest /\ p.id = m.id
      BY <2>2, <2>3 DEF PendingRequest, Message
    <2> HIDE DEF p
    <2>5. pending' \subseteq PendingRequest /\ \E r : pending' = {r} /\ r.id = PopMessage(queue).id
      BY <2>1, <2>4 DEF m
    <2>6. fate' = [fate EXCEPT ![PopMessage(queue).id] = "sent"]
      BY <2>1 DEF m
    <2>7. Books' /\ BookStep
      BY <1>1, <2>1, <2>2, <2>5, <2>6, PopStep
    <2>8. wire' \in Seq(Request)
      BY <1>4, <2>1, <2>2
    <2>. QED
      BY <1>5, <2>1, <2>7, <2>8 DEF Inv
  <1>7. CASE FlushFail
    <2>1. /\ CanFlush /\ queue' = PopRest(queue) /\ pending' = pending
          /\ (wire' = wire \/ OnWire(m))
          /\ fate' = [fate EXCEPT ![m.id] = "failed"] /\ phase = "flush" /\ phase' = "idle"
          /\ UNCHANGED <<periodic, store, next, rx, readAt, inbox, notified, now>>
      BY <1>7 DEF FlushFail, CanFlush
    <2>2. pending = {} /\ ~IsEmptyQueue(queue) /\ m \in Message
      BY <1>3, <2>1
    <2>3. pending' \subseteq PendingRequest /\ pending' = {}
      BY <2>1, <2>2
    <2>4. Books' /\ BookStep
      BY <1>1, <2>1, <2>2, <2>3, PopStep
    <2> HIDE DEF m
    <2>5. wire' \in Seq(Request)
      BY <1>1, <1>4, <2>1, <2>2 DEF LinkTypes
    <2>. QED
      BY <1>5, <2>1, <2>4, <2>5 DEF Inv
  <1>. QED
    BY <1>2, <1>6, <1>7

(* The device, the link and the clock.                                       *)
LEMMA OutsideStep ==
  ASSUME Inv, LinkStep \/ Tick
  PROVE  Inv' /\ BookStep
  <1>1. Books /\ StoreTypes /\ PollTypes /\ LinkTypes /\ Reading
    BY DEF Inv
  <1>2. /\ UNCHANGED <<queue, pending, fate>>
        /\ UNCHANGED <<periodic, store, phase, next, rx, readAt>>
    BY DEF LinkStep, DeviceAnswers, LinkLoses, DeviceNotifies, Tick, hostVars, pollVars
  <1>3. StoreTypes' /\ PollTypes' /\ Reading'
    BY <1>1, <1>2 DEF StoreTypes, PollTypes, Reading
  <1>4. Books' /\ BookStep
    BY <1>1, <1>2, KeepStep
  <1>5. wire \in Seq(Request) /\ inbox \in Seq(Frame) /\ notified \in Nat /\ now \in Nat
    BY <1>1 DEF LinkTypes
  <1>6. wire # <<>> => Tail(wire) \in Seq(Request) /\ Head(wire) \in Request
    BY <1>5
  <1>7. CASE DeviceAnswers
    <2>1. /\ wire # <<>> /\ wire' = Tail(wire) /\ notified' = notified /\ now' = now
          /\ \E kind \in Replies :
               inbox' = Append(inbox, [kind |-> kind, id |-> Head(wire).id,
                                       cmd |-> Head(wire).cmd, at |-> now])
      BY <1>7 DEF DeviceAnswers, Answers, Replies
    <2>2. PICK kind \in Replies :
            inbox' = Append(inbox, [kind |-> kind, id |-> Head(wire).id,
                                    cmd |-> Head(wire).cmd, at |-> now])
      BY <2>1
    <2> DEFINE f == [kind |-> kind, id |-> Head(wire).id, cmd |-> Head(wire).cmd, at |-> now]
    <2>3. f \in Frame
      BY <1>5, <1>6, <2>1 DEF Frame, Request
    <2> HIDE DEF f
    <2>4. inbox' \in Seq(Frame)
      BY <1>5, <2>2, <2>3 DEF f
    <2>5. LinkTypes'
      BY <1>5, <1>6, <2>1, <2>4 DEF LinkTypes
    <2>. QED
      BY <1>3, <1>4, <2>5 DEF Inv
  <1>8. CASE LinkLoses
    <2>1. LinkTypes'
      BY <1>5, <1>6, <1>8 DEF LinkLoses, LinkTypes
    <2>. QED
      BY <1>3, <1>4, <2>1 DEF Inv
  <1>9. CASE DeviceNotifies
    <2> DEFINE f == [kind |-> "Notification", at |-> now]
    <2>1. inbox' = Append(inbox, f) /\ notified' = notified + 1 /\ UNCHANGED <<wire, now>>
      BY <1>9 DEF DeviceNotifies
    <2>2. f \in Frame
      BY <1>5 DEF Frame
    <2> HIDE DEF f
    <2>3. inbox' \in Seq(Frame)
      BY <1>5, <2>1, <2>2
    <2>4. LinkTypes'
      BY <1>5, <2>1, <2>3 DEF LinkTypes
    <2>. QED
      BY <1>3, <1>4, <2>4 DEF Inv
  <1>10. CASE Tick
    <2>1. now' = now + 1 /\ UNCHANGED <<wire, inbox, notified>>
      BY <1>10 DEF Tick, linkVars
    <2>2. LinkTypes'
      BY <1>5, <2>1 DEF LinkTypes
    <2>. QED
      BY <1>3, <1>4, <2>2 DEF Inv
  <1>. QED
    BY <1>7, <1>8, <1>9, <1>10 DEF LinkStep

(* Every step keeps the invariant and is a step of the ledger or none.       *)
LEMMA NextInv ==
  ASSUME Inv, [Next]_vars
  PROVE  Inv' /\ BookStep
  <1>1. CASE UNCHANGED vars
    <2>1. /\ UNCHANGED <<queue, pending, fate>> /\ UNCHANGED <<periodic, store>>
          /\ UNCHANGED <<phase, next, rx, readAt>> /\ UNCHANGED <<wire, inbox, notified, now>>
      BY <1>1 DEF vars, hostVars, pollVars, linkVars
    <2>2. Books' /\ BookStep
      BY <2>1, KeepStep DEF Inv
    <2>3. StoreTypes' /\ PollTypes' /\ LinkTypes' /\ Reading'
      BY <2>1 DEF Inv, StoreTypes, PollTypes, LinkTypes, Reading
    <2>. QED
      BY <2>2, <2>3 DEF Inv
  <1>2. CASE PollStep
    BY <1>2, ReadStep, HandleStep, TimeoutStep, PeriodicStep, FlushStep DEF PollStep
  <1>. QED
    BY <1>1, <1>2, HostStep, OutsideStep DEF Next

-----------------------------------------------------------------------------
(* The theorems.                                                             *)

(* Every reachable state of the client, with any device and link.            *)
THEOREM Consistency == Spec => []Inv
  BY InitInv, NextInv, PTL DEF Spec

(* The variables of the client have their types: no ring leaves its          *)
(* capacity, no frame is handled that was not read, and at most one request  *)
(* is pending.                                                               *)
THEOREM TypeCorrect == Spec => []TypeOK
  <1>1. Inv => TypeOK
    BY DEF Inv, Books, BookTypes, StoreTypes, PollTypes, LinkTypes, TypeOK
  <1>. QED
    BY <1>1, Consistency, PTL

(* Coalescing: one message per key and level, however the host, the periodic *)
(* reads and the flushes interleave.                                         *)
THEOREM NoBacklog == Spec => []OnePerKeyAndLevel
  <1>1. Inv => OnePerKeyAndLevel
    BY DEF Inv, Books
  <1>. QED
    BY <1>1, Consistency, PTL

(* No request is lost or duplicated between push, pop, flush, reply, timeout *)
(* and clear_queue.                                                          *)
THEOREM NothingLostOrDuplicated == Spec => []Accounting
  <1>1. ASSUME Inv PROVE Accounting
    <2>1. /\ Queueing /\ InFlight /\ queue \in QueueOf(Message) /\ fate \in Seq(Fates)
          /\ queue.high = queue["high"] /\ queue.low = queue["low"]
      BY <1>1, QueueIsFunction DEF Inv, Books, BookTypes
    <2>2. ASSUME NEW l \in Priorities, NEW i
          PROVE  \A j, k \in Positions(queue[l], i) : j = k
      BY <2>1 DEF Queueing, Positions
    <2>3. ASSUME NEW l \in Priorities, NEW i, NEW k \in Positions(queue[l], i)
          PROVE  Cardinality(Positions(queue[l], i)) = 1
      <3>1. Positions(queue[l], i) = {k}
        BY <2>2, <2>3
      <3>. QED
        BY <3>1, FS_Singleton
    <2>4. ASSUME NEW l \in Priorities, NEW i, Positions(queue[l], i) = {}
          PROVE  Cardinality(Positions(queue[l], i)) = 0
      BY <2>4, FS_EmptySet
    <2>5. ASSUME NEW i \in DOMAIN fate
          PROVE  Cardinality(Positions(queue["high"], i)) + Cardinality(Positions(queue["low"], i))
                   = (IF fate[i] = "queued" THEN 1 ELSE 0)
      <3>1. CASE fate[i] # "queued"
        <4>1. ASSUME NEW l \in Priorities PROVE Positions(queue[l], i) = {}
          BY <2>1, <3>1 DEF Queueing, Positions
        <4>. QED
          BY <2>4, <3>1, <4>1 DEF Priorities
      <3>2. CASE fate[i] = "queued"
        <4>1. PICK l \in Priorities : \E k \in DOMAIN queue[l] : queue[l][k].id = i
          BY <2>1, <3>2 DEF Queueing
        <4>2. PICK k \in DOMAIN queue[l] : queue[l][k].id = i
          BY <4>1
        <4>3. Cardinality(Positions(queue[l], i)) = 1
          BY <2>3, <4>2 DEF Positions
        <4>4. ASSUME NEW h \in Priorities, h # l PROVE Cardinality(Positions(queue[h], i)) = 0
          <5>1. Positions(queue[h], i) = {}
            BY <2>1, <4>2, <4>4 DEF Queueing, Positions
          <5>. QED
            BY <2>4, <5>1
        <4>. QED
          BY <3>2, <4>3, <4>4 DEF Priorities
      <3>. QED
        BY <3>1, <3>2
    <2>6. \A i \in DOMAIN fate : fate[i] = "sent" <=> \E p \in pending : p.id = i
      BY <2>1 DEF InFlight
    <2>7. \A m \in Queued(queue) \cup pending : m.id \in DOMAIN fate
      <3>1. \A m \in Queued(queue) : \E l \in Priorities : \E k \in DOMAIN queue[l] : m = queue[l][k]
        BY <2>1 DEF Queued, Priorities
      <3>. QED
        BY <2>1, <3>1 DEF Queueing, InFlight
    <2>. QED
      BY <2>1, <2>5, <2>6, <2>7 DEF Accounting
  <1>. QED
    BY <1>1, Consistency, PTL

(* The client keeps the promise of RequestLedger for every request: each     *)
(* step of it is one step of the ledger, or invisible there.                 *)
THEOREM KeepsTheLedger == Spec => ImplementsLedger
  <1>1. Init => Ledger!Init
    BY DEF Init, Ledger!Init
  <1>2. Inv /\ [Next]_vars => [Ledger!Next]_Book
    BY NextInv DEF BookStep
  <1>. QED
    BY <1>1, <1>2, Consistency, PTL DEF Spec, ImplementsLedger, Ledger!Spec, Book

(* A DATA frame is stored once, as the newest entry of its command, and no   *)
(* other step of a poll changes the store.                                   *)
THEOREM StoresDataOnce == Spec => DataStoredOnce
  <1> DEFINE Stored(c) ==
        IF HandlesDataOf(c)
        THEN store'[c].seq = store[c].seq + 1 /\ RB!Latest(store'[c]) = <<Head(rx).id>>
        ELSE store'[c] = store[c]
  <1>1. ASSUME Inv, Next, phase # "idle", NEW c \in DOMAIN store
        PROVE  Stored(c)
    <2>1. StoreTypes /\ PollTypes /\ LinkTypes /\ Reading
      BY <1>1 DEF Inv
    <2>2. ~HostCall
      BY <1>1 DEF HostCall, Read, Write, Query, UnregisterPeriodic, ClearQueue, RegisterPeriodic,
                  HostMayCall
    <2>3. CASE HandleAck \/ HandleNack \/ HandleNotification
      <3>1. store' = store /\ Head(rx).kind \in {"Ack", "Nack", "Notification"}
        BY <2>3 DEF HandleAck, HandleNack, HandleNotification, Handling
      <3>. QED
        BY <3>1 DEF HandlesDataOf
    <2>4. CASE HandleData
      <3>1. /\ phase \in {"handle", "handle_full"} /\ Head(rx).kind = "Data" /\ NextFrame
            /\ store' = RB!StoreIn(store, Head(rx).cmd, Head(rx).id)
        BY <2>4 DEF HandleData, Handling, StoreData, RB!StoreIn
      <3>2. Head(rx) \in Frame /\ rx' # rx
        BY <2>1, <3>1, NextFrameFacts
      <3>3. Head(rx).id \in Nat /\ periodic' = periodic
        BY <3>1, <3>2 DEF Frame, Replies, NextFrame
      <3>4. CASE Head(rx).cmd = c
        <4>1. HandlesDataOf(c)
          BY <3>1, <3>2, <3>4 DEF HandlesDataOf
        <4>2. store'[c].seq = store[c].seq + 1 /\ RB!Latest(store'[c]) = <<Head(rx).id>>
          BY <2>1, <3>1, <3>3, <3>4, StoreInType
        <4>. QED
          BY <4>1, <4>2
      <3>5. CASE Head(rx).cmd # c
        <4>1. store'[c] = store[c]
          BY <2>1, <3>1, <3>3, <3>5, StoreInType
        <4>. QED
          BY <3>5, <4>1 DEF HandlesDataOf
      <3>. QED
        BY <3>4, <3>5
    <2>5. CASE BeginPoll \/ ReadNothing \/ ReadAll \/ ReadFull \/ ReadError
      <3>1. store' = store /\ phase \notin {"handle", "handle_full"}
        BY <2>5 DEF BeginPoll, ReadNothing, ReadAll, ReadFull, ReadError, hostVars
      <3>. QED
        BY <3>1 DEF HandlesDataOf
    <2>6. CASE \/ CheckTimeout \/ PeriodicDue \/ PeriodicNotDue \/ PeriodicDone
               \/ FlushNothing \/ FlushSend \/ FlushFail
      <3>1. store' = store /\ phase \notin {"handle", "handle_full"}
        BY <2>6 DEF CheckTimeout, PeriodicDue, PeriodicNotDue, PeriodicDone, FlushNothing,
                    FlushSend, FlushFail, CanFlush, hostVars
      <3>. QED
        BY <3>1 DEF HandlesDataOf
    <2>7. CASE LinkStep \/ Tick
      <3>1. store' = store /\ rx' = rx
        BY <2>7 DEF LinkStep, DeviceAnswers, LinkLoses, DeviceNotifies, Tick, hostVars, pollVars
      <3>. QED
        BY <3>1 DEF HandlesDataOf
    <2>. QED
      BY <1>1, <2>2, <2>3, <2>4, <2>5, <2>6, <2>7 DEF Next, PollStep
  <1>2. Inv /\ [Next]_vars => [phase # "idle" => \A c \in DOMAIN store : Stored(c)]_vars
    BY <1>1
  <1>. QED
    BY <1>2, Consistency, PTL DEF Spec, DataStoredOnce

-----------------------------------------------------------------------------
(***************************************************************************)
(* Stop-and-wait on the line, for every set of commands, every latency and *)
(* any number of calls: a reply the client has not yet handled answers the *)
(* pending request, since the client gives up on a request only when its   *)
(* reply can no longer come.  That holds under two conditions on the       *)
(* constants, each needed: timeouts outlast the line, and the transport    *)
(* reports no error for a read that left input behind or for a request it  *)
(* has sent.                                                               *)
(***************************************************************************)
\* Every response timeout exceeds the reply latency and the host's own delay
TimeoutsOutlastTheLine ==
  /\ ResponseTimeout > MaxLatency + MaxGap
  /\ \A t \in PeriodicTimeouts \ {None} : t > MaxLatency + MaxGap

\* A read fails never, a write only before the request has left
CleanTransport == Faults \subseteq {"write_error"}

\* The frames that reached the host, in the order in which it handles them
Arrived == rx \o inbox

ReplyTo(f, p) == f.id = p.id /\ f.at <= p.sent_at + MaxLatency

\* What the timeout check has not seen arrived after the poll's last read
Drained ==
  /\ phase = "handle" => now = readAt
  /\ phase = "timeout" => readAt <= now
  /\ phase \in {"handle", "timeout"} => \A k \in DOMAIN inbox : inbox[k].at >= readAt

\* The pending request is on the line, or its one reply is, or neither
Line ==
  /\ Len(wire) <= 1
  /\ \A i \in DOMAIN wire :
       /\ now <= wire[i].due
       /\ \E p \in pending : wire[i].id = p.id /\ wire[i].due = p.sent_at + MaxLatency
  /\ \A k \in DOMAIN Arrived : Reply(Arrived[k]) =>
       /\ wire = <<>>
       /\ \E p \in pending : ReplyTo(Arrived[k], p)
       /\ \A j \in DOMAIN Arrived : Reply(Arrived[j]) => j = k

\* The pending request waits long enough, and the check follows the read
Patience ==
  /\ \A p \in pending : p.timeout > MaxLatency + MaxGap
  /\ phase = "timeout" => now <= readAt + MaxGap

-----------------------------------------------------------------------------
(* The order of reading, handling and checking inside a poll.                *)

(* The read loop leaves nothing behind that arrived before it.               *)
LEMMA DrainedStep ==
  ASSUME "read_error" \notin Faults, Inv, Drained, [Next]_vars
  PROVE  Drained'
  <1>1. /\ inbox \in Seq(Frame) /\ now \in Nat /\ readAt \in Nat /\ MaxGap \in Nat
        /\ \A k \in DOMAIN inbox : inbox[k].at \in Nat
    BY TimesAssumption DEF Inv, LinkTypes, PollTypes, Frame
  <1>2. CASE UNCHANGED <<phase, readAt, inbox, now>>
    BY <1>2 DEF Drained
  <1>3. CASE phase' \notin {"handle", "timeout"}
    BY <1>3 DEF Drained
  <1>4. CASE ReadNothing \/ ReadAll
    <2>1. inbox' = <<>> /\ readAt' = now /\ now' = now /\ DOMAIN <<>> = {}
      BY <1>4 DEF ReadNothing, ReadAll, linkVars
    <2>. QED
      BY <1>1, <2>1 DEF Drained
  <1>5. CASE HandleAck \/ HandleNack \/ HandleData \/ HandleNotification
    <2>1. /\ phase \in {"handle", "handle_full"} /\ UNCHANGED <<readAt, inbox, now>>
          /\ phase' = IF Len(rx) > 1 THEN phase ELSE IF phase = "handle" THEN "timeout" ELSE "read"
      BY <1>5 DEF HandleAck, HandleNack, HandleData, HandleNotification, Handling, NextFrame,
                  linkVars
    <2>. QED
      BY <1>1, <2>1 DEF Drained
  <1>6. CASE DeviceAnswers \/ DeviceNotifies
    <2>1. UNCHANGED <<phase, readAt, now>>
      BY <1>6 DEF DeviceAnswers, DeviceNotifies, pollVars
    <2>2. PICK f : inbox' = Append(inbox, f) /\ f.at = now
      <3>1. CASE DeviceAnswers
        <4>1. PICK kind \in Answers(Head(wire).op) :
                inbox' = Append(inbox, [kind |-> kind, id |-> Head(wire).id,
                                        cmd |-> Head(wire).cmd, at |-> now])
          BY <3>1 DEF DeviceAnswers
        <4> WITNESS [kind |-> kind, id |-> Head(wire).id, cmd |-> Head(wire).cmd, at |-> now]
        <4>. QED
          BY <4>1
      <3>2. CASE DeviceNotifies
        <4> WITNESS [kind |-> "Notification", at |-> now]
        <4>. QED
          BY <3>2 DEF DeviceNotifies
      <3>. QED
        BY <1>6, <3>1, <3>2
    <2>3. DOMAIN inbox' = DOMAIN inbox \cup {Len(inbox) + 1} /\ inbox'[Len(inbox) + 1] = f
          /\ \A k \in DOMAIN inbox : inbox'[k] = inbox[k]
      <3>1. inbox \in Seq(Frame \cup {f}) /\ f \in Frame \cup {f}
        BY <1>1
      <3>. QED
        BY <2>2, <3>1, EndsFacts
    <2>. QED
      BY <1>1, <2>1, <2>2, <2>3 DEF Drained
  <1>7. CASE Tick
    BY <1>1, <1>7 DEF Tick, Drained, pollVars, linkVars
  <1>8. CASE HostCall \/ LinkLoses
    <2>1. UNCHANGED <<phase, readAt, inbox, now>>
      BY <1>8 DEF HostCall, Read, Write, Query, UnregisterPeriodic, ClearQueue, RegisterPeriodic,
                  LinkLoses, pollVars, linkVars
    <2>. QED
      BY <1>2, <2>1
  <1>9. CASE \/ BeginPoll \/ ReadFull \/ CheckTimeout \/ PeriodicDue \/ PeriodicNotDue
             \/ PeriodicDone \/ FlushNothing \/ FlushSend \/ FlushFail
    <2>1. phase' \notin {"handle", "timeout"}
      BY <1>9 DEF BeginPoll, ReadFull, CheckTimeout, PeriodicDue, PeriodicNotDue, PeriodicDone,
                  FlushNothing, FlushSend, FlushFail
    <2>. QED
      BY <1>3, <2>1
  <1>10. CASE UNCHANGED vars
    <2>1. UNCHANGED <<phase, readAt, inbox, now>>
      BY <1>10 DEF vars, pollVars, linkVars
    <2>. QED
      BY <1>2, <2>1
  <1>11. ~ReadError
    BY DEF ReadError
  <1>. QED
    BY <1>4, <1>5, <1>6, <1>7, <1>8, <1>9, <1>10, <1>11 DEF Next, PollStep, LinkStep

(* The timeout check never gives up on a reply the poll had before its last  *)
(* read, whatever the timeouts and however often the buffer fills, as long   *)
(* as no read fails.                                                         *)
THEOREM DrainsBeforeTimeout ==
  ASSUME "read_error" \notin Faults
  PROVE  Spec => NoTimeoutOverReply
  <1>1. Init => Drained
    BY DEF Init, Drained
  <1>2. Inv /\ Drained /\ [Next]_vars => Drained'
    BY DrainedStep
  <1>3. Drained => [\A p \in pending : (phase = "timeout" /\ pending' = {}) =>
                       \A i \in DOMAIN inbox :
                         (Reply(inbox[i]) /\ inbox[i].id = p.id) => inbox[i].at >= readAt]_vars
    BY DEF Drained
  <1>. QED
    BY <1>1, <1>2, <1>3, Consistency, PTL DEF Spec, NoTimeoutOverReply

-----------------------------------------------------------------------------
(* The line.                                                                 *)

\* Steps that leave the line, the frames that arrived and the clock alone
Still == UNCHANGED <<wire, now>> /\ Arrived' = Arrived

(* The types of the line.                                                    *)
LEMMA LineTypes ==
  ASSUME Inv
  PROVE  /\ rx \in Seq(Frame) /\ inbox \in Seq(Frame) /\ Arrived \in Seq(Frame)
         /\ wire \in Seq(Request) /\ now \in Nat /\ readAt \in Nat
         /\ MaxLatency \in Nat /\ MaxGap \in Nat
         /\ \A p, r \in pending : p = r
         /\ \A p \in pending : p.sent_at \in Nat /\ p.timeout \in Nat
         /\ \A i \in DOMAIN wire : wire[i].due \in Nat
         /\ \A k \in DOMAIN Arrived : Arrived[k].at \in Nat
  <1>1. /\ rx \in Seq(Frame) /\ inbox \in Seq(Frame)
        /\ wire \in Seq(Request) /\ now \in Nat /\ readAt \in Nat
        /\ MaxLatency \in Nat /\ MaxGap \in Nat /\ pending \subseteq PendingRequest
    BY TimesAssumption DEF Inv, PollTypes, LinkTypes, Books, BookTypes
  <1>2. \A p, r \in pending : p = r
    BY DEF Inv, Books, InFlight
  <1>3. Arrived \in Seq(Frame)
    BY <1>1, PartsFacts DEF Arrived
  <1>4. \A p \in pending : p.sent_at \in Nat /\ p.timeout \in Nat
    BY <1>1 DEF PendingRequest
  <1>5. \A i \in DOMAIN wire : wire[i].due \in Nat
    <2>1. \A i \in DOMAIN wire : wire[i] \in Request
      BY <1>1
    <2>. QED
      BY <2>1 DEF Request
  <1>6. \A k \in DOMAIN Arrived : Arrived[k].at \in Nat
    BY <1>3 DEF Frame
  <1>. QED
    BY <1>1, <1>2, <1>3, <1>4, <1>5, <1>6

(* A poll's reads only move frames, and most steps touch none.               *)
LEMMA StillSteps ==
  ASSUME Inv,
         \/ HostCall \/ BeginPoll \/ ReadNothing \/ ReadAll \/ ReadFull \/ ReadError
         \/ CheckTimeout \/ PeriodicDue \/ PeriodicNotDue \/ PeriodicDone
         \/ FlushNothing \/ UNCHANGED vars
  PROVE  Still
  <1>1. CASE HostCall
    BY <1>1 DEF HostCall, Read, Write, Query, UnregisterPeriodic, ClearQueue, RegisterPeriodic,
                pollVars, linkVars, Still, Arrived
  <1>2. CASE BeginPoll \/ ReadNothing \/ ReadError \/ CheckTimeout
    BY <1>2 DEF BeginPoll, ReadNothing, ReadError, CheckTimeout, linkVars, Still, Arrived
  <1>3. CASE PeriodicDue \/ PeriodicNotDue \/ PeriodicDone \/ FlushNothing \/ UNCHANGED vars
    BY <1>3 DEF PeriodicDue, PeriodicNotDue, PeriodicDone, FlushNothing, vars, pollVars, linkVars,
                Still, Arrived
  <1>4. ASSUME phase = "read" PROVE rx = <<>> /\ inbox \in Seq(Frame) /\ rx \o inbox = inbox
    <2>1. rx = <<>> /\ inbox \in Seq(Frame)
      BY <1>4, LineTypes DEF Inv, Reading
    <2>2. \A s \in Seq(Frame) : <<>> \o s = s
      <3> SUFFICES ASSUME NEW s \in Seq(Frame) PROVE <<>> \o s = s
        OBVIOUS
      <3>1. <<>> \in Seq(Frame) /\ <<>> \o s \in Seq(Frame) /\ Len(<<>> \o s) = Len(s)
            /\ \A i \in 1..Len(s) : (<<>> \o s)[i] = s[i]
        OBVIOUS
      <3>. QED
        BY <3>1, SeqEq
    <2>. QED
      BY <2>1, <2>2
  <1>5. CASE ReadAll
    <2>1. rx \o inbox = inbox /\ rx' = inbox /\ inbox' = <<>> /\ inbox \in Seq(Frame)
          /\ UNCHANGED <<wire, now>>
      BY <1>4, <1>5 DEF ReadAll
    <2>2. inbox \o <<>> = inbox
      BY <2>1, ConcatAssoc
    <2>. QED
      BY <2>1, <2>2 DEF Still, Arrived
  <1>6. CASE ReadFull
    <2>1. rx \o inbox = inbox /\ inbox \in Seq(Frame) /\ UNCHANGED <<wire, now>>
      BY <1>4, <1>6 DEF ReadFull
    <2>2. PICK k \in 1..Len(inbox) : /\ rx' = SubSeq(inbox, 1, k)
                                     /\ inbox' = SubSeq(inbox, k + 1, Len(inbox))
      BY <1>6 DEF ReadFull
    <2>3. rx' \o inbox' = inbox
      BY <2>1, <2>2, CutFacts
    <2>. QED
      BY <2>1, <2>3 DEF Still, Arrived
  <1>. QED
    BY <1>1, <1>2, <1>3, <1>5, <1>6

(* handle_frame takes the next frame that arrived.                           *)
LEMMA HandleTakes ==
  ASSUME Inv, HandleAck \/ HandleNack \/ HandleData \/ HandleNotification
  PROVE  /\ UNCHANGED <<wire, now>> /\ Arrived # <<>> /\ Arrived' = Tail(Arrived)
         /\ Head(rx) = Arrived[1] /\ 1 \in DOMAIN Arrived
         /\ pending' = pending \/ (pending' = {} /\ Reply(Head(rx)))
  <1>1. phase \in {"handle", "handle_full"} /\ NextFrame
    BY DEF HandleAck, HandleNack, HandleData, HandleNotification, Handling
  <1>2. pending' = pending \/ (pending' = {} /\ Reply(Head(rx)))
    BY DEF HandleAck, HandleNack, HandleData, HandleNotification, Handling, Complete, KeepPending,
           Reply
  <1>3. rx # <<>> /\ rx' = Tail(rx) /\ UNCHANGED <<wire, inbox, now>>
    BY <1>1 DEF Inv, Reading, NextFrame, linkVars
  <1>4. Tail(rx) \o inbox = Tail(rx \o inbox) /\ (rx \o inbox)[1] = Head(rx) /\ rx \o inbox # <<>>
    <2>1. rx \in Seq(Frame) /\ inbox \in Seq(Frame)
      BY LineTypes
    <2>. QED
      BY <1>3, <2>1, PartsFacts
  <1>5. 1 \in DOMAIN Arrived
    BY <1>4, LineTypes, EndsFacts DEF Arrived
  <1>. QED
    BY <1>2, <1>3, <1>4, <1>5 DEF Arrived

(* The pending request's timeout, and the delay between read and check.      *)
LEMMA PatienceStep ==
  ASSUME TimeoutsOutlastTheLine, Inv, Drained, Patience, [Next]_vars
  PROVE  Patience'
  <1>1. now \in Nat /\ readAt \in Nat /\ MaxGap \in Nat /\ MaxLatency \in Nat
    BY LineTypes
  <1>2. ASSUME pending' = pending \/ pending' = {},
               phase' = "timeout" => now' <= readAt' + MaxGap
        PROVE  Patience'
    BY <1>2 DEF Patience
  <1>3. CASE HostCall
    <2>1. UNCHANGED <<pending, phase, readAt, now>>
      BY <1>3 DEF HostCall, Read, Write, Query, UnregisterPeriodic, ClearQueue, RegisterPeriodic,
                  pollVars
    <2>. QED
      BY <2>1 DEF Patience
  <1>4. CASE LinkStep \/ UNCHANGED vars
    <2>1. UNCHANGED <<pending, phase, readAt, now>>
      BY <1>4 DEF LinkStep, DeviceAnswers, LinkLoses, DeviceNotifies, vars, hostVars, pollVars
    <2>. QED
      BY <2>1 DEF Patience
  <1>5. CASE ReadNothing \/ ReadError
    <2>1. pending' = pending /\ readAt' = now /\ now' = now
      BY <1>5 DEF ReadNothing, ReadError, hostVars
    <2>. QED
      BY <1>1, <1>2, <2>1
  <1>6. CASE HandleAck \/ HandleNack \/ HandleData \/ HandleNotification
    <2>1. pending' = pending \/ pending' = {}
      BY <1>6, HandleTakes
    <2>2. /\ phase \in {"handle", "handle_full"} /\ UNCHANGED <<readAt, now>>
          /\ phase' = IF Len(rx) > 1 THEN phase ELSE IF phase = "handle" THEN "timeout" ELSE "read"
      BY <1>6 DEF HandleAck, HandleNack, HandleData, HandleNotification, Handling, NextFrame
    <2>. QED
      BY <1>1, <1>2, <2>1, <2>2 DEF Drained
  <1>7. CASE \/ BeginPoll \/ ReadAll \/ ReadFull \/ CheckTimeout \/ PeriodicDue
             \/ PeriodicNotDue \/ PeriodicDone \/ FlushNothing \/ FlushFail
    <2>1. (pending' = pending \/ pending' = {}) /\ phase' # "timeout"
      BY <1>7 DEF BeginPoll, ReadAll, ReadFull, CheckTimeout, Complete, KeepPending, PeriodicDue,
                  PeriodicNotDue, PeriodicDone, FlushNothing, FlushFail, hostVars
    <2>. QED
      BY <1>2, <2>1
  <1>8. CASE FlushSend
    <2> DEFINE m == PopMessage(queue)
               t == IF m.timeout = None THEN ResponseTimeout ELSE m.timeout
    <2>1. /\ ~IsEmptyQueue(queue) /\ phase' = "idle"
          /\ pending' = {[id |-> m.id, cmd |-> m.cmd, sent_at |-> now, timeout |-> t,
                          expect |-> m.expect]}
      BY <1>8 DEF FlushSend, CanFlush
    <2>2. m \in Message
      BY <2>1, QueueIsFunction, PopFacts DEF Inv, Books, BookTypes
    <2> HIDE DEF m
    <2>3. t > MaxLatency + MaxGap
      <3>1. m.timeout \in PeriodicTimeouts \cup {None}
        BY <2>2 DEF Message
      <3>. QED
        BY <3>1 DEF TimeoutsOutlastTheLine
    <2> HIDE DEF t
    <2>4. \A p \in pending' : p.timeout > MaxLatency + MaxGap
      BY <2>1, <2>3
    <2>. QED
      BY <2>1, <2>4 DEF Patience
  <1>9. CASE Tick
    BY <1>1, <1>9 DEF Tick, Patience, hostVars, pollVars
  <1>. QED
    BY <1>3, <1>4, <1>5, <1>6, <1>7, <1>8, <1>9 DEF Next, PollStep

(* When a request times out, neither it nor its reply is on the line.        *)
LEMMA TimeoutIsFinal ==
  ASSUME Inv, Drained, Line, Patience, phase = "timeout", NEW p \in pending, TimedOut(p)
  PROVE  wire = <<>> /\ \A k \in DOMAIN Arrived : ~Reply(Arrived[k])
  <1>1. /\ inbox \in Seq(Frame) /\ wire \in Seq(Request) /\ now \in Nat /\ readAt \in Nat
        /\ MaxLatency \in Nat /\ MaxGap \in Nat /\ p.sent_at \in Nat /\ p.timeout \in Nat
        /\ \A r \in pending : r = p
    BY LineTypes
  <1>2. now - p.sent_at >= p.timeout /\ p.timeout > MaxLatency + MaxGap /\ now <= readAt + MaxGap
    BY DEF TimedOut, Patience
  <1>3. ASSUME NEW i \in DOMAIN wire PROVE FALSE
    <2>1. now <= wire[i].due /\ wire[i].due = p.sent_at + MaxLatency
      BY <1>1 DEF Line
    <2>. QED
      BY <1>1, <1>2, <2>1
  <1>4. wire = <<>>
    <2>1. DOMAIN wire = {}
      BY <1>3
    <2>. QED
      BY <1>1, <2>1, ShortFacts
  <1>5. Arrived = inbox
    <2>1. rx = <<>>
      BY DEF Inv, Reading
    <2>2. <<>> \in Seq(Frame) /\ <<>> \o inbox \in Seq(Frame) /\ Len(<<>> \o inbox) = Len(inbox)
          /\ \A i \in 1..Len(inbox) : (<<>> \o inbox)[i] = inbox[i]
      BY <1>1
    <2>3. <<>> \o inbox = inbox
      BY <1>1, <2>2, SeqEq
    <2>. QED
      BY <2>1, <2>3 DEF Arrived
  <1>6. ASSUME NEW k \in DOMAIN Arrived, Reply(Arrived[k]) PROVE FALSE
    <2>1. Arrived[k].at <= p.sent_at + MaxLatency
      BY <1>1, <1>6 DEF Line, ReplyTo
    <2>2. Arrived[k].at >= readAt /\ Arrived[k].at \in Nat
      BY <1>5, LineTypes DEF Drained
    <2>. QED
      BY <1>1, <1>2, <2>1, <2>2
  <1>. QED
    BY <1>4, <1>6

(* Each step keeps the line in order.                                        *)
LEMMA LineStep ==
  ASSUME CleanTransport, Inv, Drained, Line, Patience, [Next]_vars
  PROVE  Line'
  <1>1. /\ Arrived \in Seq(Frame) /\ wire \in Seq(Request) /\ now \in Nat
        /\ MaxLatency \in Nat /\ \A p, r \in pending : p = r
    BY LineTypes
  <1>2. Len(wire) \in Nat /\ DOMAIN wire = 1..Len(wire) /\ DOMAIN <<>> = {} /\ Len(<<>>) = 0
    BY <1>1
  <1>3. ASSUME Still, pending' = pending PROVE Line'
    BY <1>3 DEF Still, Line
  <1>4. ASSUME wire' = <<>>, \A k \in DOMAIN Arrived' : ~Reply(Arrived'[k])
        PROVE  Line'
    BY <1>2, <1>4 DEF Line
  <1>5. CASE \/ HostCall \/ BeginPoll \/ ReadNothing \/ ReadAll \/ ReadFull \/ ReadError
             \/ PeriodicDue \/ PeriodicNotDue \/ PeriodicDone
             \/ FlushNothing \/ UNCHANGED vars
    <2>1. Still
      BY <1>5, StillSteps
    <2>2. CASE HostCall
      <3>1. pending' = pending
        BY <2>2 DEF HostCall, Read, Write, Query, UnregisterPeriodic, ClearQueue, RegisterPeriodic
      <3>. QED
        BY <1>3, <2>1, <3>1
    <2>3. CASE ~HostCall
      <3>1. pending' = pending
        BY <1>5, <2>3 DEF BeginPoll, ReadNothing, ReadAll, ReadFull, ReadError, PeriodicDue,
                     PeriodicNotDue, PeriodicDone, FlushNothing, vars, hostVars
      <3>. QED
        BY <1>3, <2>1, <3>1
    <2>. QED
      BY <2>2, <2>3
  <1>6. CASE CheckTimeout
    <2>1. Still
      BY <1>6, StillSteps
    <2>2. CASE \E p \in pending : TimedOut(p)
      <3>1. wire = <<>> /\ \A k \in DOMAIN Arrived : ~Reply(Arrived[k])
        BY <1>6, <2>2, TimeoutIsFinal DEF CheckTimeout
      <3>. QED
        BY <1>4, <2>1, <3>1 DEF Still
    <2>3. CASE ~ \E p \in pending : TimedOut(p)
      <3>1. pending' = pending
        BY <1>6, <2>3 DEF CheckTimeout, KeepPending
      <3>. QED
        BY <1>3, <2>1, <3>1
    <2>. QED
      BY <2>2, <2>3
  <1>7. CASE HandleAck \/ HandleNack \/ HandleData \/ HandleNotification
    <2>1. /\ UNCHANGED <<wire, now>> /\ Arrived # <<>> /\ Arrived' = Tail(Arrived)
          /\ Head(rx) = Arrived[1] /\ 1 \in DOMAIN Arrived
          /\ pending' = pending \/ (pending' = {} /\ Reply(Head(rx)))
      BY <1>7, HandleTakes
    <2>2. \A k \in DOMAIN Arrived' :
            k + 1 \in DOMAIN Arrived /\ Arrived'[k] = Arrived[k + 1] /\ k \in Nat \ {0}
      BY <1>1, <2>1, EndsFacts
    <2>3. CASE pending' = pending
      <3>1. ASSUME NEW k \in DOMAIN Arrived', Reply(Arrived'[k])
            PROVE  /\ wire' = <<>> /\ \E p \in pending' : ReplyTo(Arrived'[k], p)
                   /\ \A j \in DOMAIN Arrived' : Reply(Arrived'[j]) => j = k
        <4>1. /\ wire = <<>> /\ \E p \in pending : ReplyTo(Arrived[k + 1], p)
              /\ \A j \in DOMAIN Arrived : Reply(Arrived[j]) => j = k + 1
          BY <2>2, <3>1 DEF Line
        <4>2. ASSUME NEW j \in DOMAIN Arrived', Reply(Arrived'[j]) PROVE j = k
          <5>1. j + 1 = k + 1
            BY <2>2, <4>1, <4>2
          <5>. QED
            BY <2>2, <5>1
        <4>. QED
          BY <2>1, <2>2, <2>3, <4>1, <4>2
      <3>. QED
        BY <2>1, <2>3, <3>1 DEF Line
    <2>4. CASE pending' = {} /\ Reply(Head(rx))
      <3>1. wire = <<>> /\ \A j \in DOMAIN Arrived : Reply(Arrived[j]) => j = 1
        BY <2>1, <2>4 DEF Line
      <3>2. \A k \in DOMAIN Arrived' : ~Reply(Arrived'[k])
        BY <2>2, <3>1
      <3>. QED
        BY <1>4, <2>1, <3>1, <3>2
    <2>. QED
      BY <2>1, <2>3, <2>4
  <1>8. ASSUME CanFlush PROVE pending = {} /\ wire = <<>> /\ \A k \in DOMAIN Arrived : ~Reply(Arrived[k])
    <2>1. pending = {}
      BY <1>8 DEF CanFlush
    <2>2. DOMAIN wire = {} /\ \A k \in DOMAIN Arrived : ~Reply(Arrived[k])
      BY <2>1 DEF Line
    <2>. QED
      BY <1>1, <2>1, <2>2, ShortFacts
  <1>9. CASE FlushSend
    <2> DEFINE m == PopMessage(queue)
               r == [id |-> m.id, op |-> m.op, cmd |-> m.cmd, due |-> now + MaxLatency]
    <2>1. wire' = Append(<<>>, r) /\ UNCHANGED <<rx, inbox, now>>
      BY <1>8, <1>9 DEF FlushSend, OnWire
    <2> DEFINE p == [id |-> m.id, cmd |-> m.cmd, sent_at |-> now,
                     timeout |-> IF m.timeout = None THEN ResponseTimeout ELSE m.timeout,
                     expect |-> m.expect]
    <2>2. pending' = {p} /\ p.id = m.id /\ p.sent_at = now
      BY <1>9 DEF FlushSend
    <2>3. Len(wire') = 1 /\ DOMAIN wire' = {1} /\ wire'[1] = r
      BY <2>1
    <2>4. r.id = m.id /\ r.due = now + MaxLatency
      OBVIOUS
    <2>5. Arrived' = Arrived /\ \A k \in DOMAIN Arrived : ~Reply(Arrived[k])
      BY <1>8, <1>9, <2>1 DEF Arrived, FlushSend
    <2> HIDE DEF m, r, p
    <2>. QED
      BY <1>1, <2>1, <2>2, <2>3, <2>4, <2>5 DEF Line
  <1>10. CASE FlushFail
    <2>1. "write_error_sent" \notin Faults
      BY DEF CleanTransport
    <2>2. UNCHANGED <<wire, now, rx, inbox, pending>>
      BY <1>10, <2>1 DEF FlushFail
    <2>. QED
      BY <1>3, <2>2 DEF Still, Arrived
  <1>11. ASSUME wire # <<>>
         PROVE  /\ Tail(wire) = <<>> /\ Len(wire) = 1 /\ 1 \in DOMAIN wire /\ Head(wire) = wire[1]
                /\ Head(wire) \in Request
                /\ \A k \in DOMAIN Arrived : ~Reply(Arrived[k])
    <2>1. /\ Tail(wire) = <<>> /\ Len(wire) = 1 /\ 1 \in DOMAIN wire /\ Head(wire) = wire[1]
          /\ Head(wire) \in Request
      <3>1. Len(wire) <= 1
        BY DEF Line
      <3>. QED
        BY <1>1, <1>11, <3>1, ShortFacts
    <2>2. \A k \in DOMAIN Arrived : ~Reply(Arrived[k])
      BY <1>11 DEF Line
    <2>. QED
      BY <2>1, <2>2
  <1>12. CASE DeviceAnswers
    <2>1. wire # <<>> /\ wire' = Tail(wire) /\ UNCHANGED <<pending, rx, now>>
      BY <1>12 DEF DeviceAnswers, hostVars, pollVars
    <2>2. PICK kind \in Replies :
            inbox' = Append(inbox, [kind |-> kind, id |-> Head(wire).id,
                                    cmd |-> Head(wire).cmd, at |-> now])
      BY <1>12 DEF DeviceAnswers, Answers, Replies
    <2> DEFINE f == [kind |-> kind, id |-> Head(wire).id, cmd |-> Head(wire).cmd, at |-> now]
               n == Len(Arrived) + 1
    <2>3. f \in Frame /\ f.id = wire[1].id /\ f.at = now
      BY <1>1, <1>11, <2>1 DEF Frame, Request
    <2> HIDE DEF f
    <2>4. Arrived' = Append(Arrived, f)
      <3>1. rx \in Seq(Frame) /\ inbox \in Seq(Frame) /\ inbox' = Append(inbox, f)
        BY <2>2, LineTypes DEF f
      <3>. QED
        BY <2>1, <2>3, <3>1, PartsFacts DEF Arrived
    <2>5. /\ DOMAIN Arrived' = DOMAIN Arrived \cup {n} /\ Arrived'[n] = f
          /\ \A k \in DOMAIN Arrived : Arrived'[k] = Arrived[k]
      BY <1>1, <2>3, <2>4, EndsFacts
    <2>6. \A k \in DOMAIN Arrived' : Reply(Arrived'[k]) => k = n
      BY <1>11, <2>1, <2>5
    <2>7. PICK p \in pending : wire[1].id = p.id /\ wire[1].due = p.sent_at + MaxLatency
                              /\ now <= wire[1].due
      BY <1>11, <2>1 DEF Line
    <2>8. ReplyTo(f, p)
      BY <2>3, <2>7 DEF ReplyTo
    <2>9. wire' = <<>>
      BY <1>11, <2>1
    <2> HIDE DEF n
    <2>. QED
      BY <1>2, <2>1, <2>5, <2>6, <2>7, <2>8, <2>9 DEF Line
  <1>13. CASE LinkLoses
    <2>1. wire # <<>> /\ wire' = Tail(wire) /\ UNCHANGED <<rx, inbox>>
      BY <1>13 DEF LinkLoses, pollVars
    <2>2. Arrived' = Arrived
      BY <2>1 DEF Arrived
    <2>. QED
      BY <1>4, <1>11, <2>1, <2>2
  <1>14. CASE DeviceNotifies
    <2> DEFINE f == [kind |-> "Notification", at |-> now]
               n == Len(Arrived) + 1
    <2>1. inbox' = Append(inbox, f) /\ UNCHANGED <<pending, rx, wire, now>>
      BY <1>14 DEF DeviceNotifies, hostVars, pollVars
    <2>2. f \in Frame /\ ~Reply(f)
      BY <1>1 DEF Frame, Reply
    <2> HIDE DEF f
    <2>3. Arrived' = Append(Arrived, f)
      <3>1. rx \in Seq(Frame) /\ inbox \in Seq(Frame)
        BY LineTypes
      <3>. QED
        BY <2>1, <2>2, <3>1, PartsFacts DEF Arrived
    <2>4. /\ DOMAIN Arrived' = DOMAIN Arrived \cup {n} /\ Arrived'[n] = f
          /\ \A k \in DOMAIN Arrived : Arrived'[k] = Arrived[k]
      BY <1>1, <2>2, <2>3, EndsFacts
    <2> HIDE DEF n
    <2>. QED
      BY <2>1, <2>2, <2>4 DEF Line
  <1>15. CASE Tick
    <2>1. /\ now' = now + 1 /\ \A i \in DOMAIN wire : now < wire[i].due
          /\ UNCHANGED <<pending, rx, inbox, wire>>
      BY <1>15 DEF Tick, hostVars, pollVars, linkVars
    <2>2. Arrived' = Arrived
      BY <2>1 DEF Arrived
    <2>3. \A i \in DOMAIN wire : now + 1 <= wire[i].due
      BY <1>1, <2>1, LineTypes
    <2>. QED
      BY <2>1, <2>2, <2>3 DEF Line
  <1>. QED
    BY <1>5, <1>6, <1>7, <1>9, <1>10, <1>12, <1>13, <1>14, <1>15 DEF Next, PollStep, LinkStep

-----------------------------------------------------------------------------
(* The theorems.                                                             *)

(* The state of the line in every reachable state.                           *)
THEOREM OrderOnTheLine ==
  ASSUME TimeoutsOutlastTheLine, CleanTransport
  PROVE  Spec => [](Inv /\ Drained /\ Patience /\ Line)
  <1>1. Init => Drained /\ Patience /\ Line
    <2> SUFFICES ASSUME Init PROVE Drained /\ Patience /\ Line
      OBVIOUS
    <2>1. phase = "idle" /\ pending = {} /\ wire = <<>> /\ rx = <<>> /\ inbox = <<>>
      BY DEF Init
    <2>2. Len(<<>>) = 0 /\ DOMAIN <<>> = {} /\ <<>> \o <<>> = <<>>
      BY ConcatAssoc
    <2>3. Arrived = <<>>
      BY <2>1, <2>2 DEF Arrived
    <2>. QED
      BY <2>1, <2>2, <2>3 DEF Drained, Patience, Line
  <1>2. "read_error" \notin Faults
    BY DEF CleanTransport
  <1>3. Inv /\ Drained /\ Patience /\ Line /\ [Next]_vars => (Drained /\ Patience /\ Line)'
    BY <1>2, DrainedStep, PatienceStep, LineStep
  <1>. QED
    BY <1>1, <1>3, Consistency, PTL DEF Spec

(* A frame ends the wait only of the request it answers: no late reply to an *)
(* earlier request for the same command is ever taken for an answer.         *)
THEOREM RepliesAreOwn ==
  ASSUME TimeoutsOutlastTheLine, CleanTransport
  PROVE  Spec => OwnReply
  <1> DEFINE Own == \A p \in pending :
                      (phase \in {"handle", "handle_full"} /\ pending' = {})
                        => (Reply(Head(rx)) /\ Head(rx).id = p.id)
  <1>1. ASSUME Inv, Line, Next, NEW p \in pending, phase \in {"handle", "handle_full"}, pending' = {}
        PROVE  Reply(Head(rx)) /\ Head(rx).id = p.id
    <2>1. HandleAck \/ HandleNack \/ HandleData \/ HandleNotification
      <3>1. ~HostCall
        BY <1>1 DEF HostCall, Read, Write, Query, UnregisterPeriodic, ClearQueue, RegisterPeriodic,
                    HostMayCall
      <3>2. ~(LinkStep \/ Tick)
        BY <1>1 DEF LinkStep, DeviceAnswers, LinkLoses, DeviceNotifies, Tick, hostVars
      <3>. QED
        BY <1>1, <3>1, <3>2 DEF Next, PollStep, BeginPoll, ReadNothing, ReadAll, ReadFull, ReadError,
             CheckTimeout, PeriodicDue, PeriodicNotDue, PeriodicDone, FlushNothing, FlushSend,
             FlushFail, CanFlush
    <2>2. Head(rx) = Arrived[1] /\ 1 \in DOMAIN Arrived /\ Reply(Head(rx))
      BY <1>1, <2>1, HandleTakes
    <2>3. \E r \in pending : Head(rx).id = r.id
      BY <1>1, <2>2 DEF Line, ReplyTo
    <2>. QED
      BY <1>1, <2>2, <2>3, LineTypes
  <1>2. Inv /\ Line /\ [Next]_vars => [Own]_vars
    BY <1>1
  <1>. QED
    BY <1>2, OrderOnTheLine, PTL DEF Spec, OwnReply

(* A request is sent only onto an idle line: nothing is left there of any    *)
(* earlier exchange, whether it was answered, timed out or lost.             *)
THEOREM OneRequestOnTheLine ==
  ASSUME TimeoutsOutlastTheLine, CleanTransport
  PROVE  Spec => OneInFlight
  <1> DEFINE Alone == wire' # <<>> /\ Len(wire') > Len(wire) =>
                        /\ wire = <<>>
                        /\ \A i \in DOMAIN inbox : ~Reply(inbox[i])
                        /\ \A i \in DOMAIN rx : ~Reply(rx[i])
  <1>1. ASSUME Inv, Line, Next, Len(wire') > Len(wire)
        PROVE  /\ wire = <<>>
               /\ \A i \in DOMAIN inbox : ~Reply(inbox[i])
               /\ \A i \in DOMAIN rx : ~Reply(rx[i])
    <2>1. /\ rx \in Seq(Frame) /\ inbox \in Seq(Frame) /\ wire \in Seq(Request)
      BY <1>1, LineTypes
    <2>2. Len(wire) \in Nat /\ wire' # wire /\ (wire # <<>> => wire' # Tail(wire))
      BY <1>1, <2>1
    <2>3. pending = {}
      <3>1. CASE FlushSend \/ FlushFail
        BY <3>1 DEF FlushSend, FlushFail, CanFlush
      <3>2. ~Still
        BY <2>2 DEF Still
      <3>3. ~(DeviceAnswers \/ LinkLoses \/ DeviceNotifies \/ Tick)
        BY <2>2 DEF DeviceAnswers, LinkLoses, DeviceNotifies, Tick, linkVars
      <3>4. ~(HandleAck \/ HandleNack \/ HandleData \/ HandleNotification)
        BY <1>1, <2>2, HandleTakes
      <3>. QED
        BY <1>1, <3>1, <3>2, <3>3, <3>4, StillSteps DEF Next, PollStep, LinkStep
    <2>4. DOMAIN wire = {} /\ \A k \in DOMAIN Arrived : ~Reply(Arrived[k])
      BY <1>1, <2>3 DEF Line
    <2>5. wire = <<>>
      BY <2>1, <2>4, ShortFacts
    <2>6. ASSUME NEW i \in DOMAIN inbox PROVE ~Reply(inbox[i])
      <3>1. Len(rx) + i \in DOMAIN Arrived /\ Arrived[Len(rx) + i] = inbox[i]
        BY <2>1, PartsFacts DEF Arrived
      <3>. QED
        BY <2>4, <3>1
    <2>7. \A i \in DOMAIN rx : ~Reply(rx[i])
      BY <2>1, <2>4, PartsFacts DEF Arrived
    <2>. QED
      BY <2>5, <2>6, <2>7
  <1>2. Inv /\ Line /\ [Next]_vars => [Alone]_vars
    BY <1>1
  <1>. QED
    BY <1>2, OrderOnTheLine, PTL DEF Spec, OneInFlight
=============================================================================
