---------------------------- MODULE BridgeProofs ----------------------------
(***************************************************************************)
(* The stdio bridge for every sequence of lines and any number of events.  *)
(* The inductive invariant says which lines the channel holds, that the    *)
(* one client there may be has exactly the lines with fate "open", and     *)
(* that these came after every line that changed the connection.           *)
(***************************************************************************)
EXTENDS Bridge, CommonLemmas, FiniteSetTheorems, TLAPS

OpenLines == {j \in 1..Len(lines) : fate[j] = "open"}

\* Line j came after every connect and disconnect handled so far
AfterConnects(j) ==
  \A k \in 1..Len(lines) : lines[k] \in {"connect", "disconnect"} /\ fate[k] = "done" => k < j

\* The channel holds the lines read and not yet handled, in order
Queue ==
  /\ Len(channel) <= read
  /\ \A k \in 1..Len(channel) : channel[k] = read - Len(channel) + k
  /\ \A j \in 1..Len(lines) : fate[j] = "unread" <=> j > read - Len(channel)

\* A client there is has the open lines, and stdout tells of it
Connection ==
  /\ client = {} \/ client = {OpenLines}
  /\ client = {} => OpenLines = {}
  /\ client # {} => told = "connected"
  /\ \A j \in OpenLines : AfterConnects(j)

\* What the latest poll reported belongs to the connection
Reported ==
  main = "poll" /\ out # <<>> =>
    /\ told = "connected"
    /\ \A x \in 1..Len(out) : out[x].line # 0 => AfterConnects(out[x].line)

Inv == TypeOK /\ Len(lines) <= MaxLines /\ Queue /\ Connection /\ Reported

\* The fates as RequestLedger sees them
Book == [i \in Accepted |-> IF fate[i] = "ended" THEN "reported" ELSE fate[i]]
BookStep == Ledger!Next \/ Book' = Book

-----------------------------------------------------------------------------
(* Types of the variables, one by one.                                       *)
LEMMA Types ==
  ASSUME TypeOK
  PROVE  /\ Len(lines) \in Nat /\ lines \in Seq(Kinds) /\ DOMAIN lines = 1..Len(lines)
         /\ fate \in Seq(Fates) /\ Len(fate) = Len(lines) /\ DOMAIN fate = 1..Len(lines)
         /\ fate \in [1..Len(lines) -> Fates]
         /\ read \in Nat /\ read <= Len(lines)
         /\ channel \in Seq(1..Len(lines)) /\ Len(channel) \in Nat
         /\ out \in Seq(Event) /\ Len(out) \in Nat
  <1>1. lines \in Seq(Kinds) /\ Len(lines) \in Nat /\ DOMAIN lines = 1..Len(lines)
    BY DEF TypeOK
  <1>2. fate \in [1..Len(lines) -> Fates]
    BY DEF TypeOK
  <1>3. fate \in Seq(Fates) /\ Len(fate) = Len(lines) /\ DOMAIN fate = 1..Len(lines)
    BY <1>1, <1>2
  <1>4. read \in Nat /\ read <= Len(lines)
    BY <1>1 DEF TypeOK
  <1>5. channel \in Seq(1..Len(lines)) /\ out \in Seq(Event)
    BY DEF TypeOK
  <1>. QED
    BY <1>1, <1>2, <1>3, <1>4, <1>5

(* At most one client, with lines there are.                                 *)
LEMMA OneClient ==
  ASSUME NEW N, NEW o \in SUBSET N, NEW c, c = {} \/ c = {o}
  PROVE  c \subseteq SUBSET N /\ Cardinality(c) <= 1
  <1>1. Cardinality({}) = 0 /\ Cardinality({o}) = 1
    BY FS_EmptySet, FS_Singleton
  <1>2. CASE c = {}
    BY <1>1, <1>2
  <1>3. CASE c = {o}
    BY <1>1, <1>3
  <1>. QED
    BY <1>2, <1>3

(* emit.                                                                     *)
LEMMA EmitFacts ==
  ASSUME NEW events \in Seq(Event), NEW next, Emit(events, next)
  PROVE  /\ out' \in Seq(Event) /\ main' \in {next, "failed"}
         /\ out' = events \/ out' = <<>>
  <1>1. CASE stdout = "open" \/ events = <<>>
    BY <1>1 DEF Emit
  <1>2. CASE ~(stdout = "open" \/ events = <<>>)
    <2>1. out' = <<>> /\ main' = "failed"
      BY <1>2 DEF Emit
    <2>2. <<>> \in Seq(Event)
      OBVIOUS
    <2>. QED
      BY <2>1, <2>2
  <1>. QED
    BY <1>1, <1>2

(* An event about a line.                                                    *)
LEMMA EventType ==
  ASSUME NEW kind \in {"connected", "disconnected", "error", "reply", "timeout",
                       "notification", "data", "ports", "stored"}, NEW i \in 0..MaxLines
  PROVE  ev(kind, i) \in Event /\ <<ev(kind, i)>> \in Seq(Event)
  BY DEF ev, Event

(* The line handled next: the first of those not yet handled.                *)
LEMMA HeadFacts ==
  ASSUME Inv, channel # <<>>
  PROVE  /\ Head(channel) \in 1..Len(lines) /\ Head(channel) = read - Len(channel) + 1
         /\ Head(channel) \in 0..MaxLines
         /\ fate[Head(channel)] = "unread" /\ Tail(channel) \in Seq(1..Len(lines))
         /\ \A j \in 1..Len(lines) : j < Head(channel) <=> fate[j] # "unread"
         /\ \A j \in OpenLines \cup Accepted : j < Head(channel)
  <1>1. /\ Len(lines) \in Nat /\ channel \in Seq(1..Len(lines)) /\ Len(channel) \in Nat
        /\ read \in Nat /\ read <= Len(lines) /\ DOMAIN fate = 1..Len(lines)
    BY Types DEF Inv
  <1>2. /\ Len(channel) >= 1 /\ Head(channel) = channel[1] /\ Head(channel) \in 1..Len(lines)
        /\ Tail(channel) \in Seq(1..Len(lines)) /\ 1 \in 1..Len(channel)
    BY <1>1
  <1>3. Head(channel) = read - Len(channel) + 1 /\ Len(channel) <= read
    BY <1>2 DEF Inv, Queue
  <1>4. \A j \in 1..Len(lines) : fate[j] = "unread" <=> j > read - Len(channel)
    BY DEF Inv, Queue
  <1>5. \A j \in 1..Len(lines) : j < Head(channel) <=> ~(j > read - Len(channel))
    BY <1>1, <1>3
  <1>6. Head(channel) > read - Len(channel)
    BY <1>1, <1>3
  <1>7. \A j \in OpenLines \cup Accepted : j \in 1..Len(lines) /\ fate[j] # "unread"
    BY <1>1 DEF OpenLines, Accepted
  <1>8. Head(channel) \in 0..MaxLines
    BY <1>1, <1>2, BridgeBoundsAssumption DEF Inv
  <1>. QED
    BY <1>2, <1>3, <1>4, <1>5, <1>6, <1>7, <1>8

(* The channel after that line.                                              *)
LEMMA QueueNext ==
  ASSUME Inv, channel # <<>>, channel' = Tail(channel), read' = read, lines' = lines,
         \A j \in 1..Len(lines) : fate'[j] = "unread" <=> fate[j] = "unread" /\ j # Head(channel)
  PROVE  Queue'
  <1>1. /\ Len(lines) \in Nat /\ channel \in Seq(1..Len(lines)) /\ Len(channel) \in Nat
        /\ read \in Nat /\ read <= Len(lines)
    BY Types DEF Inv
  <1>2. /\ Len(channel') = Len(channel) - 1 /\ Len(channel) >= 1
        /\ \A k \in 1..Len(channel') : channel'[k] = channel[k + 1] /\ k + 1 \in 1..Len(channel)
    BY <1>1
  <1>3. /\ Len(channel) <= read
        /\ \A k \in 1..Len(channel) : channel[k] = read - Len(channel) + k
        /\ \A j \in 1..Len(lines) : fate[j] = "unread" <=> j > read - Len(channel)
    BY DEF Inv, Queue
  <1>4. Len(channel') <= read'
    BY <1>1, <1>2, <1>3
  <1>5. ASSUME NEW k \in 1..Len(channel') PROVE channel'[k] = read' - Len(channel') + k
    <2>1. channel'[k] = read - Len(channel) + (k + 1)
      BY <1>2, <1>3
    <2>. QED
      BY <1>1, <1>2, <2>1
  <1>6. ASSUME NEW j \in 1..Len(lines') PROVE fate'[j] = "unread" <=> j > read' - Len(channel')
    <2>1. fate'[j] = "unread" <=> j > read - Len(channel) /\ j # Head(channel)
      BY <1>3
    <2>2. Head(channel) = read - Len(channel) + 1
      BY HeadFacts
    <2>. QED
      BY <1>1, <1>2, <2>1, <2>2
  <1>. QED
    BY <1>4, <1>5, <1>6 DEF Queue

-----------------------------------------------------------------------------
(* handle_request, by what it does to the client.                            *)

(* The client stays as it is.                                                *)
LEMMA HandleKeep ==
  ASSUME Inv, channel # <<>>, channel' = Tail(channel), UNCHANGED <<inputVars, stdout, unsolicited>>,
         NEW x \in {"done", "refused"}, fate' = [fate EXCEPT ![Head(channel)] = x],
         UNCHANGED <<client, told>>, lines[Head(channel)] \notin {"connect", "disconnect"},
         out' \in Seq(Event), main' \in {"drain", "failed", "panicked"}
  PROVE  Inv' /\ BookStep
  <1> DEFINE i == Head(channel)
  <1>1. /\ lines' = lines /\ closed' = closed /\ read' = read /\ reader' = reader
        /\ stdout' = stdout /\ unsolicited' = unsolicited /\ client' = client /\ told' = told
    BY DEF inputVars
  <1>2. /\ i \in 1..Len(lines) /\ fate[i] = "unread" /\ Tail(channel) \in Seq(1..Len(lines))
    BY HeadFacts
  <1>3. fate \in [1..Len(lines) -> Fates] /\ x \in Fates
    BY Types DEF Inv, Fates
  <1>4. /\ fate' \in [1..Len(lines) -> Fates] /\ fate'[i] = x
        /\ \A j \in 1..Len(lines) : j # i => fate'[j] = fate[j]
        /\ DOMAIN fate' = DOMAIN fate /\ DOMAIN fate = 1..Len(lines)
    BY <1>2, <1>3
  <1> HIDE DEF i
  <1>5. TypeOK'
    BY <1>1, <1>2, <1>4 DEF Inv, TypeOK, Running, Ended
  <1>6. Queue'
    <2>1. \A j \in 1..Len(lines) : fate'[j] = "unread" <=> fate[j] = "unread" /\ j # i
      BY <1>2, <1>4
    <2>. QED
      BY <1>1, <2>1, QueueNext DEF i
  <1>7. OpenLines' = OpenLines
    BY <1>1, <1>2, <1>4 DEF OpenLines
  <1>8. Connection'
    <2>1. ASSUME NEW j \in OpenLines PROVE AfterConnects(j)'
      <3>1. AfterConnects(j)
        BY DEF Inv, Connection
      <3>2. ASSUME NEW k \in 1..Len(lines), lines[k] \in {"connect", "disconnect"}, fate'[k] = "done"
            PROVE  k < j
        <4>1. k # i
          BY <3>2 DEF i
        <4>. QED
          BY <1>4, <3>1, <3>2, <4>1 DEF AfterConnects
      <3>. QED
        BY <1>1, <3>2 DEF AfterConnects
    <2>2. \A j \in OpenLines' : AfterConnects(j)'
      BY <1>7, <2>1
    <2>. QED
      BY <1>1, <1>7, <2>2 DEF Inv, Connection
  <1>9. Reported'
    BY DEF Reported
  <1>10. Book' = Book
    <2>1. Accepted' = Accepted /\ i \notin Accepted
      BY <1>2, <1>4 DEF Accepted
    <2>2. \A j \in Accepted : fate'[j] = fate[j]
      BY <1>4, <2>1 DEF Accepted
    <2>. QED
      BY <2>1, <2>2 DEF Book
  <1>. QED
    BY <1>1, <1>5, <1>6, <1>8, <1>9, <1>10 DEF Inv, BookStep

(* The old client goes away.                                                 *)
LEMMA HandleDrop ==
  ASSUME Inv, channel # <<>>, channel' = Tail(channel), UNCHANGED <<inputVars, stdout, unsolicited>>,
         fate' = [Dropped(fate) EXCEPT ![Head(channel)] = "done"],
         client' = {} \/ (client' = {{}} /\ told' = "connected"),
         told' \in {"disconnected", "connected", "open_failed"},
         out' \in Seq(Event), main' \in {"drain", "failed", "quit"}
  PROVE  Inv' /\ BookStep
  <1> DEFINE i == Head(channel)
  <1>1. /\ lines' = lines /\ closed' = closed /\ read' = read /\ reader' = reader
        /\ stdout' = stdout /\ unsolicited' = unsolicited
    BY DEF inputVars
  <1>2. /\ i \in 1..Len(lines) /\ fate[i] = "unread" /\ Tail(channel) \in Seq(1..Len(lines))
    BY HeadFacts
  <1>3. fate \in [1..Len(lines) -> Fates] /\ DOMAIN fate = 1..Len(lines) /\ "done" \in Fates /\ "dropped" \in Fates
    BY Types DEF Inv, Fates
  <1>4. /\ Dropped(fate) \in [1..Len(lines) -> Fates]
        /\ \A j \in 1..Len(lines) : Dropped(fate)[j] = IF fate[j] = "open" THEN "dropped" ELSE fate[j]
    BY <1>3 DEF Dropped
  <1>5. /\ fate' \in [1..Len(lines) -> Fates] /\ fate'[i] = "done" /\ DOMAIN fate' = 1..Len(lines)
        /\ \A j \in 1..Len(lines) :
              j # i => fate'[j] = IF fate[j] = "open" THEN "dropped" ELSE fate[j]
    <2>1. /\ fate' \in [1..Len(lines) -> Fates] /\ fate'[i] = "done"
          /\ \A j \in 1..Len(lines) : j # i => fate'[j] = Dropped(fate)[j]
      BY <1>2, <1>3, <1>4
    <2>2. DOMAIN fate' = 1..Len(lines)
      BY <2>1
    <2>. QED
      BY <1>4, <2>1, <2>2
  <1> HIDE DEF i
  <1>6. OpenLines' = {}
    BY <1>1, <1>5 DEF OpenLines
  <1>7. Connection'
    BY <1>6 DEF Connection
  <1>8. TypeOK'
    <2>1. client' \subseteq SUBSET (1..Len(lines)) /\ Cardinality(client') <= 1
      BY OneClient
    <2>. QED
      BY <1>1, <1>2, <1>5, <2>1 DEF Inv, TypeOK, Running, Ended
  <1>9. Queue'
    <2>1. \A j \in 1..Len(lines) : fate'[j] = "unread" <=> fate[j] = "unread" /\ j # i
      BY <1>2, <1>5
    <2>. QED
      BY <1>1, <2>1, QueueNext DEF i
  <1>10. Reported'
    BY DEF Reported
  <1>11. BookStep
    <2>0. PICK gone : gone = {j \in Accepted : fate[j] = "open"}
      OBVIOUS
    <2>1. Accepted' = Accepted /\ i \notin Accepted
      BY <1>2, <1>3, <1>5 DEF Accepted
    <2>2. \A j \in Accepted : j \in 1..Len(lines) /\ j # i
      BY <1>3, <2>1 DEF Accepted
    <2>3. Book' = [j \in DOMAIN Book |-> IF j \in gone THEN "dropped" ELSE Book[j]]
      BY <1>5, <2>0, <2>1, <2>2 DEF Book
    <2>4. gone \in SUBSET {j \in DOMAIN Book : Book[j] = "open"}
      BY <2>0 DEF Book
    <2>5. gone \in SUBSET Ledger!Open /\ Ledger!Drop(gone)
      BY <2>3, <2>4 DEF Book, Ledger!Drop, Ledger!Marked, Ledger!Open
    <2>6. \E g \in SUBSET Ledger!Open : Ledger!Accept(g) \/ Ledger!Drop(g)
      BY <2>5
    <2>. QED
      BY <2>6 DEF BookStep, Ledger!Next
  <1>. QED
    BY <1>1, <1>7, <1>8, <1>9, <1>10, <1>11 DEF Inv

(* A line becomes a request of the client.                                   *)
LEMMA HandleAccept ==
  ASSUME Inv, channel # <<>>, channel' = Tail(channel), UNCHANGED <<inputVars, stdout, unsolicited>>,
         ToClientRequest(Head(channel)), lines[Head(channel)] \in ToClient
  PROVE  Inv' /\ BookStep
  <1> DEFINE i == Head(channel)
  <1>1. /\ lines' = lines /\ closed' = closed /\ read' = read /\ reader' = reader
        /\ stdout' = stdout /\ unsolicited' = unsolicited
        /\ out' = <<>> /\ main' = "drain" /\ told' = told
    BY DEF inputVars, ToClientRequest
  <1>2. PICK open \in client, gone \in SUBSET (1..Len(lines)) :
          /\ gone \subseteq Replaceable(open, i) /\ Cardinality(gone) <= 1
          /\ client' = {(open \ gone) \cup {i}}
          /\ fate' = [j \in DOMAIN fate |-> IF j = i THEN "open"
                                            ELSE IF j \in gone THEN "replaced" ELSE fate[j]]
    BY DEF ToClientRequest
  <1>3. /\ i \in 1..Len(lines) /\ fate[i] = "unread" /\ Tail(channel) \in Seq(1..Len(lines))
        /\ \A j \in OpenLines \cup Accepted : j < i
        /\ \A j \in 1..Len(lines) : j < i <=> fate[j] # "unread"
    BY HeadFacts
  <1>4. /\ fate \in [1..Len(lines) -> Fates] /\ DOMAIN fate = 1..Len(lines) /\ Len(lines) \in Nat
        /\ "open" \in Fates /\ "replaced" \in Fates
    BY Types DEF Inv, Fates
  <1>5. open = OpenLines /\ told = "connected" /\ gone \subseteq OpenLines
    <2>1. open = OpenLines /\ told = "connected"
      BY <1>2 DEF Inv, Connection
    <2>2. Replaceable(open, i) \subseteq open
      BY DEF Replaceable
    <2>. QED
      BY <1>2, <2>1, <2>2
  <1>6. \A j, k \in gone : j = k
    <2>1. IsFiniteSet(1..Len(lines))
      BY <1>4, FS_Interval
    <2>2. IsFiniteSet(gone) /\ Cardinality(gone) \in Nat
      BY <2>1, FS_Subset, FS_CardinalityType
    <2>3. Cardinality(gone) = 0 \/ Cardinality(gone) = 1
      BY <1>2, <2>2
    <2>4. CASE Cardinality(gone) = 0
      BY <2>2, <2>4, FS_EmptySet
    <2>5. CASE Cardinality(gone) = 1
      <3>1. \E y : gone = {y}
        BY <2>2, <2>5, FS_Singleton
      <3>. QED
        BY <3>1
    <2>. QED
      BY <2>3, <2>4, <2>5
  <1> HIDE DEF i
  <1>7. /\ fate' \in [1..Len(lines) -> Fates] /\ DOMAIN fate' = 1..Len(lines) /\ fate'[i] = "open"
        /\ \A j \in 1..Len(lines) :
              j # i => fate'[j] = IF j \in gone THEN "replaced" ELSE fate[j]
    BY <1>2, <1>3, <1>4
  <1>8. i \notin OpenLines /\ i \notin gone
    BY <1>3, <1>5 DEF OpenLines
  <1>9. OpenLines' = (OpenLines \ gone) \cup {i}
    BY <1>1, <1>3, <1>7, <1>8 DEF OpenLines
  <1>10. client' = {OpenLines'}
    BY <1>2, <1>5, <1>9
  <1>11. TypeOK'
    <2>1. OpenLines' \in SUBSET (1..Len(lines))
      BY <1>1 DEF OpenLines
    <2>2. client' \subseteq SUBSET (1..Len(lines)) /\ Cardinality(client') <= 1
      BY <1>10, <2>1, OneClient
    <2>3. out' \in Seq(Event)
      BY <1>1
    <2>. QED
      BY <1>1, <1>3, <1>7, <2>2, <2>3 DEF Inv, TypeOK, Running, Ended
  <1>12. Queue'
    <2>1. \A j \in gone : fate[j] # "unread"
      BY <1>5 DEF OpenLines
    <2>2. \A j \in 1..Len(lines) : fate'[j] = "unread" <=> fate[j] = "unread" /\ j # i
      BY <1>3, <1>7, <2>1
    <2>. QED
      BY <1>1, <2>2, QueueNext DEF i
  <1>13. Connection'
    <2>1. ASSUME NEW k \in 1..Len(lines), lines[k] \in {"connect", "disconnect"}, fate'[k] = "done"
          PROVE  fate[k] = "done" /\ k < i
      <3>1. k # i
        BY <2>1 DEF i, ToClient
      <3>2. fate[k] = "done"
        BY <1>7, <2>1, <3>1
      <3>. QED
        BY <1>3, <3>2
    <2>2. ASSUME NEW j \in OpenLines' PROVE AfterConnects(j)'
      <3>1. CASE j = i
        BY <1>1, <2>1, <3>1 DEF AfterConnects
      <3>2. CASE j \in OpenLines
        <4>1. AfterConnects(j)
          BY <3>2 DEF Inv, Connection
        <4>. QED
          BY <1>1, <2>1, <4>1 DEF AfterConnects
      <3>. QED
        BY <1>9, <3>1, <3>2
    <2>. QED
      BY <1>1, <1>5, <1>10, <2>2 DEF Connection
  <1>14. Reported'
    BY <1>1 DEF Reported
  <1>15. BookStep
    <2>1. Accepted' = Accepted \cup {i} /\ i \notin Accepted /\ gone \subseteq Accepted
      BY <1>3, <1>4, <1>5, <1>7 DEF Accepted, OpenLines
    <2>2. \A j \in Accepted : j \in 1..Len(lines) /\ j # i /\ j < i
      BY <1>3, <1>4, <2>1 DEF Accepted
    <2>3. \A j \in gone : fate[j] = "open"
      BY <1>5 DEF OpenLines
    <2> DEFINE marked == [j \in DOMAIN Book |-> IF j \in gone THEN "replaced" ELSE Book[j]]
    <2>4. Book' = [j \in DOMAIN Book \cup {i} |-> IF j = i THEN "open" ELSE marked[j]]
      BY <1>7, <2>1, <2>2, <2>3 DEF Book
    <2>5. gone \in SUBSET {j \in DOMAIN Book : Book[j] = "open"}
      BY <2>1, <2>3 DEF Book
    <2>6. i \in DOMAIN Book' \ DOMAIN Book /\ \A j \in DOMAIN Book : j < i
      BY <2>1, <2>2 DEF Book
    <2>7. Ledger!Marked(gone, "replaced") = marked
      BY DEF Ledger!Marked, Book
    <2> HIDE DEF marked
    <2>8. gone \in SUBSET Ledger!Open
      BY <2>5 DEF Ledger!Open, Book
    <2>9. Ledger!Accept(gone)
      <3>1. Book' = [j \in DOMAIN Book \cup {i} |->
                       IF j = i THEN "open" ELSE Ledger!Marked(gone, "replaced")[j]]
        BY <2>4, <2>7
      <3>. QED
        BY <1>6, <2>6, <3>1 DEF Ledger!Accept, Book
    <2>10. \E g \in SUBSET Ledger!Open : Ledger!Accept(g) \/ Ledger!Drop(g)
      BY <2>8, <2>9
    <2>. QED
      BY <2>10 DEF BookStep, Ledger!Next
  <1>. QED
    BY <1>1, <1>11, <1>12, <1>13, <1>14, <1>15 DEF Inv

(* try_recv returned a line.                                                 *)
LEMMA DrainInv ==
  ASSUME Inv, Drain
  PROVE  Inv' /\ BookStep /\ main # "poll"
  <1> DEFINE i == Head(channel)
  <1>1. /\ main = "drain" /\ channel # <<>> /\ HandleRequest(i) /\ channel' = Tail(channel)
        /\ UNCHANGED <<inputVars, stdout, unsolicited>>
    BY DEF Drain
  <1>2. i \in 0..MaxLines /\ i \in 1..Len(lines)
    BY <1>1, HeadFacts
  <1>3. <<>> \in Seq(Event)
    OBVIOUS
  <1>4. told \in {"disconnected", "connected", "open_failed"}
    BY DEF Inv, TypeOK
  <1> HIDE DEF i
  <1>5. CASE lines[i] = "connect" /\ Connect(i)
    <2>1. PICK kind \in {"connected", "error"} :
            /\ fate' = [Dropped(fate) EXCEPT ![i] = "done"]
            /\ client' = {} \/ (client' = {{}} /\ told' = "connected")
            /\ told' \in {"connected", "open_failed"}
            /\ Emit(<<ev(kind, i)>>, "drain")
      BY <1>5 DEF Connect
    <2>2. out' \in Seq(Event) /\ main' \in {"drain", "failed"}
      BY <1>2, <2>1, EmitFacts, EventType
    <2>. QED
      BY <1>1, <2>1, <2>2, HandleDrop DEF i
  <1>6. CASE lines[i] = "disconnect" /\ Disconnect(i)
    <2>1. /\ fate' = [Dropped(fate) EXCEPT ![i] = "done"] /\ client' = {}
          /\ told' = "disconnected" /\ Emit(<<ev("disconnected", i)>>, "drain")
      BY <1>6 DEF Disconnect
    <2>2. out' \in Seq(Event) /\ main' \in {"drain", "failed"}
      BY <1>2, <2>1, EmitFacts, EventType
    <2>. QED
      BY <1>1, <2>1, <2>2, HandleDrop DEF i
  <1>7. CASE lines[i] = "quit" /\ Quit(i)
    <2>1. /\ fate' = [Dropped(fate) EXCEPT ![i] = "done"] /\ client' = {}
          /\ told' = told /\ out' = <<>> /\ main' = "quit"
      BY <1>7 DEF Quit
    <2>. QED
      BY <1>1, <1>3, <1>4, <2>1, HandleDrop DEF i
  <1>8. CASE lines[i] \in ToClient /\ ToClientRequest(i)
    BY <1>1, <1>8, HandleAccept DEF i
  <1>9. CASE lines[i] \in ToClient \cup OtherCommands /\ Refuse(i)
    <2>1. /\ fate' = [fate EXCEPT ![i] = "refused"] /\ client' = client /\ told' = told
          /\ Emit(<<ev("error", i)>>, "drain") /\ lines[i] \notin {"connect", "disconnect"}
      BY <1>9 DEF Refuse, ToClient, OtherCommands
    <2>2. out' \in Seq(Event) /\ main' \in {"drain", "failed"}
      BY <1>2, <2>1, EmitFacts, EventType
    <2>. QED
      BY <1>1, <2>1, <2>2, HandleKeep DEF i
  <1>10. CASE \/ lines[i] \in {"register_periodic", "register_periodic_zero"} /\ RegisterPeriodic(i)
              \/ lines[i] = "unregister_periodic" /\ UnregisterPeriodic(i)
    <2>1. /\ fate' = [fate EXCEPT ![i] = "done"] /\ client' = client /\ told' = told
          /\ out' = <<>> /\ main' \in {"drain", "panicked"}
          /\ lines[i] \notin {"connect", "disconnect"}
      BY <1>10 DEF RegisterPeriodic, UnregisterPeriodic
    <2>. QED
      BY <1>1, <1>3, <2>1, HandleKeep DEF i
  <1>11. CASE \/ lines[i] \in {"get_stored", "get_stored_since"} /\ GetStored(i)
              \/ lines[i] = "list_ports" /\ ListPorts(i)
              \/ lines[i] \in {"blank", "invalid"} /\ NoRequest(i)
    <2>1. /\ fate' = [fate EXCEPT ![i] = "done"] /\ client' = client /\ told' = told
          /\ lines[i] \notin {"connect", "disconnect"}
      BY <1>11 DEF GetStored, ListPorts, NoRequest
    <2>2. \/ \E kind \in {"stored", "ports", "error"} : Emit(<<ev(kind, i)>>, "drain")
          \/ Emit(<<>>, "drain")
      BY <1>11 DEF GetStored, ListPorts, NoRequest
    <2>3. out' \in Seq(Event) /\ main' \in {"drain", "failed"}
      <3>1. CASE Emit(<<>>, "drain")
        BY <1>3, <3>1, EmitFacts
      <3>2. ASSUME NEW kind \in {"stored", "ports", "error"}, Emit(<<ev(kind, i)>>, "drain")
            PROVE  out' \in Seq(Event) /\ main' \in {"drain", "failed"}
        BY <1>2, <3>2, EmitFacts, EventType
      <3>. QED
        BY <2>2, <3>1, <3>2
    <2>. QED
      BY <1>1, <2>1, <2>3, HandleKeep DEF i
  <1>. QED
    BY <1>1, <1>5, <1>6, <1>7, <1>8, <1>9, <1>10, <1>11 DEF HandleRequest

-----------------------------------------------------------------------------
(* The other steps of the main loop, and the other threads.                  *)

(* A step that adds no line and ends no request.                             *)
LEMMA QuietStep ==
  ASSUME Inv, UNCHANGED <<lines, client, told, fate>>,
         closed' \in BOOLEAN, read' \in 0..Len(lines), reader' \in {"reading", "ended"},
         channel' \in Seq(1..Len(lines)), main' \in Running \cup Ended,
         stdout' \in {"open", "broken"}, unsolicited' \in 0..MaxUnsolicited,
         out' \in Seq(Event), Queue',
         main' = "poll" /\ out' # <<>> =>
           \/ main = "poll" /\ out' = out
           \/ client # {} /\ \A x \in 1..Len(out') : out'[x].line = 0
  PROVE  Inv' /\ BookStep
  <1>1. lines' = lines /\ client' = client /\ told' = told /\ fate' = fate
    OBVIOUS
  <1>2. TypeOK'
    BY <1>1 DEF Inv, TypeOK
  <1>3. OpenLines' = OpenLines /\ \A j : AfterConnects(j)' <=> AfterConnects(j)
    BY <1>1 DEF OpenLines, AfterConnects
  <1>4. Connection'
    BY <1>1, <1>3 DEF Inv, Connection, AfterConnects
  <1>5. Reported'
    <2> SUFFICES ASSUME main' = "poll", out' # <<>>
                 PROVE  /\ told = "connected"
                        /\ \A x \in 1..Len(out') : out'[x].line # 0 => AfterConnects(out'[x].line)
      BY <1>1 DEF Reported, AfterConnects
    <2>1. CASE main = "poll" /\ out' = out
      BY <2>1 DEF Inv, Reported
    <2>2. CASE client # {} /\ \A x \in 1..Len(out') : out'[x].line = 0
      BY <2>2 DEF Inv, Connection
    <2>. QED
      BY <2>1, <2>2
  <1>6. Book' = Book
    BY <1>1 DEF Book, Accepted
  <1>. QED
    BY <1>1, <1>2, <1>4, <1>5, <1>6 DEF Inv, BookStep

(* The application writes a line.                                            *)
LEMMA AppWritesInv ==
  ASSUME Inv, NEW kind \in Kinds, AppWrites(kind)
  PROVE  Inv' /\ BookStep
  <1> DEFINE n == Len(lines)
  <1>1. /\ Len(lines) < MaxLines /\ lines' = Append(lines, kind) /\ fate' = Append(fate, "unread")
        /\ closed' = closed /\ read' = read /\ reader' = reader /\ channel' = channel
        /\ main' = main /\ client' = client /\ stdout' = stdout /\ out' = out /\ told' = told
        /\ unsolicited' = unsolicited
    BY DEF AppWrites
  <1>2. /\ n \in Nat /\ lines \in Seq(Kinds) /\ fate \in Seq(Fates) /\ Len(fate) = n
        /\ DOMAIN fate = 1..n /\ read \in Nat /\ read <= n /\ channel \in Seq(1..n)
        /\ Len(channel) \in Nat /\ "unread" \in Fates /\ out \in Seq(Event)
    BY Types DEF Inv, Fates
  <1>3. /\ lines' \in Seq(Kinds) /\ Len(lines') = n + 1 /\ \A j \in 1..n : lines'[j] = lines[j]
    BY <1>1, <1>2
  <1>4. /\ fate' \in Seq(Fates) /\ Len(fate') = n + 1 /\ fate'[n + 1] = "unread"
        /\ \A j \in 1..n : fate'[j] = fate[j]
    BY <1>1, <1>2
  <1>5. fate' \in [1..n + 1 -> Fates] /\ DOMAIN fate' = 1..n + 1
    BY <1>4
  <1> HIDE DEF n
  <1>6. \A j \in 1..n + 1 : j \in 1..n \/ j = n + 1
    BY <1>2
  <1>7. n + 1 \notin 1..n /\ \A j \in 1..n : j \in 1..n + 1
    BY <1>2
  <1>8. OpenLines' = OpenLines
    <2>1. \A j : j \in OpenLines' <=> j \in 1..n + 1 /\ fate'[j] = "open"
      BY <1>3 DEF OpenLines
    <2>2. \A j : j \in OpenLines <=> j \in 1..n /\ fate[j] = "open"
      BY DEF OpenLines, n
    <2>. QED
      BY <1>4, <1>6, <1>7, <2>1, <2>2
  <1>9. ASSUME NEW j, AfterConnects(j) PROVE AfterConnects(j)'
    <2>1. ASSUME NEW k \in 1..n + 1, lines'[k] \in {"connect", "disconnect"}, fate'[k] = "done"
          PROVE  k < j
      <3>1. k \in 1..n
        BY <1>4, <1>6, <2>1
      <3>. QED
        BY <1>3, <1>4, <1>9, <2>1, <3>1 DEF AfterConnects, n
    <2>. QED
      BY <1>3, <2>1 DEF AfterConnects
  <1>10. Connection'
    BY <1>1, <1>8, <1>9 DEF Inv, Connection
  <1>11. Queue'
    <2>1. /\ Len(channel) <= read
          /\ \A k \in 1..Len(channel) : channel[k] = read - Len(channel) + k
          /\ \A j \in 1..n : fate[j] = "unread" <=> j > read - Len(channel)
      BY DEF Inv, Queue, n
    <2>2. n + 1 > read - Len(channel)
      BY <1>2
    <2>3. \A j \in 1..n + 1 : fate'[j] = "unread" <=> j > read - Len(channel)
      BY <1>4, <1>6, <2>1, <2>2
    <2>. QED
      BY <1>1, <1>3, <2>1, <2>3 DEF Queue
  <1>12. Reported'
    <2> SUFFICES ASSUME main = "poll", out # <<>>
                 PROVE  /\ told = "connected"
                        /\ \A x \in 1..Len(out) : out[x].line # 0 => AfterConnects(out[x].line)'
      BY <1>1 DEF Reported
    <2>1. told = "connected" /\ \A x \in 1..Len(out) : out[x].line # 0 => AfterConnects(out[x].line)
      BY DEF Inv, Reported
    <2>2. ASSUME NEW x \in 1..Len(out), out[x].line # 0 PROVE AfterConnects(out[x].line)'
      <3>1. PICK j : j = out[x].line
        OBVIOUS
      <3>2. AfterConnects(j)'
        BY <1>9, <2>1, <2>2, <3>1
      <3>. QED
        BY <1>1, <3>1, <3>2 DEF AfterConnects
    <2>. QED
      BY <2>1, <2>2
  <1>13. TypeOK'
    <2>1. OpenLines \in SUBSET (1..n + 1)
      BY <1>7 DEF OpenLines, n
    <2>2. client' \subseteq SUBSET (1..n + 1) /\ Cardinality(client') <= 1
      BY <1>1, <2>1, OneClient DEF Inv, Connection
    <2>3. read \in 0..n + 1
      BY <1>2
    <2>4. channel \in Seq(1..n + 1)
      BY <1>2, <1>7
    <2>. QED
      BY <1>1, <1>3, <1>5, <2>2, <2>3, <2>4 DEF Inv, TypeOK
  <1>14. Book' = Book
    <2>1. Accepted' = Accepted
      BY <1>2, <1>4, <1>5, <1>6, <1>7 DEF Accepted
    <2>2. \A j \in Accepted : fate'[j] = fate[j]
      BY <1>2, <1>4 DEF Accepted
    <2>. QED
      BY <2>1, <2>2 DEF Book
  <1>15. Len(lines') <= MaxLines
    BY <1>1, <1>2, <1>3, BridgeBoundsAssumption DEF n
  <1>. QED
    BY <1>10, <1>11, <1>12, <1>13, <1>14, <1>15 DEF Inv, BookStep

(* The stdin thread passes a line on.                                        *)
LEMMA ReaderSendsInv ==
  ASSUME Inv, ReaderSends
  PROVE  Inv' /\ BookStep
  <1>1. /\ read < Len(lines) /\ read' = read + 1 /\ channel' = Append(channel, read + 1)
        /\ lines' = lines /\ closed' = closed /\ reader' = reader /\ main' = main
        /\ client' = client /\ stdout' = stdout /\ out' = out /\ told' = told /\ fate' = fate
        /\ unsolicited' = unsolicited
    BY DEF ReaderSends
  <1>2. /\ Len(lines) \in Nat /\ read \in Nat /\ channel \in Seq(1..Len(lines)) /\ Len(channel) \in Nat
    BY Types DEF Inv
  <1>3. read' \in 0..Len(lines) /\ read + 1 \in 1..Len(lines)
    BY <1>1, <1>2
  <1>4. /\ channel' \in Seq(1..Len(lines)) /\ Len(channel') = Len(channel) + 1
        /\ channel'[Len(channel) + 1] = read + 1
        /\ \A k \in 1..Len(channel) : channel'[k] = channel[k]
    BY <1>1, <1>2, <1>3
  <1>5. Queue'
    <2>1. /\ Len(channel) <= read
          /\ \A k \in 1..Len(channel) : channel[k] = read - Len(channel) + k
          /\ \A j \in 1..Len(lines) : fate[j] = "unread" <=> j > read - Len(channel)
      BY DEF Inv, Queue
    <2>2. read' - Len(channel') = read - Len(channel) /\ Len(channel') <= read'
      BY <1>1, <1>2, <1>4, <2>1
    <2>3. ASSUME NEW k \in 1..Len(channel') PROVE channel'[k] = read - Len(channel) + k
      <3>1. CASE k \in 1..Len(channel)
        BY <1>4, <2>1, <3>1
      <3>2. CASE k = Len(channel) + 1
        <4>1. read - Len(channel) + (Len(channel) + 1) = read + 1
          BY <1>2
        <4>. QED
          BY <1>4, <3>2, <4>1
      <3>. QED
        BY <1>2, <1>4, <3>1, <3>2
    <2>. QED
      BY <1>1, <2>1, <2>2, <2>3 DEF Queue
  <1>6. /\ closed' \in BOOLEAN /\ reader' \in {"reading", "ended"} /\ main' \in Running \cup Ended
        /\ stdout' \in {"open", "broken"} /\ unsolicited' \in 0..MaxUnsolicited /\ out' \in Seq(Event)
    BY <1>1 DEF Inv, TypeOK
  <1>. QED
    BY <1>1, <1>3, <1>4, <1>5, <1>6, QuietStep

(* Stdin or stdout is closed, the stdin thread ends, the main loop goes on.  *)
LEMMA IdleStepInv ==
  ASSUME Inv,
         \/ AppClosesStdin \/ AppClosesStdout \/ ReaderEof
         \/ DrainEnd \/ PollDone \/ Sleep
  PROVE  Inv' /\ BookStep
  <1>1. /\ lines' = lines /\ read' = read /\ channel' = channel /\ client' = client
        /\ told' = told /\ fate' = fate /\ unsolicited' = unsolicited
    BY DEF AppClosesStdin, AppClosesStdout, ReaderEof, DrainEnd, PollDone, Sleep, inputVars
  <1>2. /\ closed' \in {closed, TRUE} /\ reader' \in {reader, "ended"} /\ stdout' \in {stdout, "broken"}
        /\ \/ main' = main /\ out' = out
           \/ main' \in Running /\ out' = <<>>
    BY DEF AppClosesStdin, AppClosesStdout, ReaderEof, DrainEnd, PollDone, Sleep, inputVars, Running
  <1>3. /\ closed \in BOOLEAN /\ reader \in {"reading", "ended"} /\ main \in Running \cup Ended
        /\ stdout \in {"open", "broken"} /\ unsolicited \in 0..MaxUnsolicited /\ out \in Seq(Event)
        /\ read \in 0..Len(lines) /\ channel \in Seq(1..Len(lines)) /\ Queue
    BY DEF Inv, TypeOK
  <1>4. <<>> \in Seq(Event)
    OBVIOUS
  <1>5. Queue'
    BY <1>1, <1>3 DEF Queue
  <1>6. out' \in Seq(Event) /\ main' \in Running \cup Ended /\ (out' # <<>> => main' = main /\ out' = out)
    BY <1>2, <1>3, <1>4
  <1>7. closed' \in BOOLEAN /\ reader' \in {"reading", "ended"} /\ stdout' \in {"open", "broken"}
    BY <1>2, <1>3
  <1>. QED
    BY <1>1, <1>3, <1>5, <1>6, <1>7, QuietStep

(* poll() reports an event of no request.                                    *)
LEMMA PollUnsolicitedInv ==
  ASSUME Inv, PollUnsolicited
  PROVE  /\ Inv' /\ BookStep /\ client # {}
         /\ \A x \in 1..Len(out') : out'[x].line = 0
  <1>1. /\ client # {} /\ unsolicited < MaxUnsolicited /\ unsolicited' = unsolicited + 1
        /\ main = "poll"
        /\ lines' = lines /\ closed' = closed /\ read' = read /\ reader' = reader
        /\ channel' = channel /\ client' = client /\ stdout' = stdout /\ told' = told /\ fate' = fate
    BY DEF PollUnsolicited, inputVars
  <1>2. PICK kind \in {"notification", "data", "error"} : Emit(<<ev(kind, 0)>>, "poll")
    BY DEF PollUnsolicited
  <1>3. 0 \in 0..MaxLines
    BY BridgeBoundsAssumption
  <1>4. <<ev(kind, 0)>> \in Seq(Event)
    BY <1>3, EventType
  <1>5. /\ out' \in Seq(Event) /\ main' \in {"poll", "failed"}
        /\ out' = <<ev(kind, 0)>> \/ out' = <<>>
    BY <1>2, <1>4, EmitFacts
  <1>6. \A x \in 1..Len(out') : out'[x].line = 0
    BY <1>5 DEF ev
  <1>7. /\ closed \in BOOLEAN /\ reader \in {"reading", "ended"} /\ stdout \in {"open", "broken"}
        /\ read \in 0..Len(lines) /\ channel \in Seq(1..Len(lines)) /\ Queue
        /\ unsolicited \in 0..MaxUnsolicited
    BY DEF Inv, TypeOK
  <1>8. unsolicited' \in 0..MaxUnsolicited
    BY <1>1, <1>7, BridgeBoundsAssumption
  <1>9. Queue' /\ main' \in Running \cup Ended
    BY <1>1, <1>5, <1>7 DEF Queue, Running, Ended
  <1>10. Inv' /\ BookStep
    BY <1>1, <1>5, <1>6, <1>7, <1>8, <1>9, QuietStep
  <1>. QED
    BY <1>1, <1>6, <1>10

(* poll() ends a request.                                                    *)
LEMMA PollEndsInv ==
  ASSUME Inv, PollEnds
  PROVE  /\ Inv' /\ BookStep /\ told = "connected"
         /\ \A x \in 1..Len(out') : out'[x].line \in OpenLines
  <1>1. /\ main = "poll"
        /\ lines' = lines /\ closed' = closed /\ read' = read /\ reader' = reader
        /\ channel' = channel /\ stdout' = stdout /\ told' = told /\ unsolicited' = unsolicited
    BY DEF PollEnds, inputVars
  <1>2a. PICK open \in client :
           \E i \in open, kind \in {"reply", "timeout", "error"} :
             /\ client' = {open \ {i}} /\ fate' = [fate EXCEPT ![i] = "ended"]
             /\ Emit(<<ev(kind, i)>>, "poll")
    BY DEF PollEnds
  <1>2. PICK i \in open, kind \in {"reply", "timeout", "error"} :
          /\ client' = {open \ {i}} /\ fate' = [fate EXCEPT ![i] = "ended"]
          /\ Emit(<<ev(kind, i)>>, "poll")
    BY <1>2a
  <1>3. open = OpenLines /\ told = "connected" /\ AfterConnects(i)
    BY <1>2 DEF Inv, Connection
  <1>4. i \in 1..Len(lines) /\ fate[i] = "open" /\ i \in OpenLines
    BY <1>2, <1>3 DEF OpenLines
  <1>5. /\ fate \in [1..Len(lines) -> Fates] /\ DOMAIN fate = 1..Len(lines) /\ Len(lines) \in Nat
        /\ "ended" \in Fates
    BY Types DEF Inv, Fates
  <1>6. /\ fate' \in [1..Len(lines) -> Fates] /\ DOMAIN fate' = 1..Len(lines) /\ fate'[i] = "ended"
        /\ \A j \in 1..Len(lines) : j # i => fate'[j] = fate[j]
    BY <1>2, <1>4, <1>5
  <1>7. i \in 0..MaxLines
    BY <1>4, <1>5, BridgeBoundsAssumption DEF Inv
  <1>8. <<ev(kind, i)>> \in Seq(Event)
    BY <1>7, EventType
  <1>9. /\ out' \in Seq(Event) /\ main' \in {"poll", "failed"}
        /\ out' = <<ev(kind, i)>> \/ out' = <<>>
    BY <1>2, <1>8, EmitFacts
  <1>10. \A x \in 1..Len(out') : out'[x].line = i
    BY <1>9 DEF ev
  <1>11. OpenLines' = OpenLines \ {i}
    BY <1>1, <1>4, <1>6 DEF OpenLines
  <1>12. TypeOK'
    <2>1. OpenLines' \in SUBSET (1..Len(lines)) /\ client' = {OpenLines'}
      BY <1>1, <1>2, <1>3, <1>11 DEF OpenLines
    <2>2. client' \subseteq SUBSET (1..Len(lines)) /\ Cardinality(client') <= 1
      BY <2>1, OneClient
    <2>. QED
      BY <1>1, <1>6, <1>9, <2>2 DEF Inv, TypeOK, Running, Ended
  <1>13. Queue'
    BY <1>1, <1>4, <1>6 DEF Inv, Queue
  <1>14. ASSUME NEW j, AfterConnects(j) PROVE AfterConnects(j)'
    BY <1>1, <1>6, <1>14 DEF AfterConnects
  <1>15. Connection'
    BY <1>1, <1>2, <1>3, <1>11, <1>14 DEF Inv, Connection
  <1>16. Reported'
    <2> SUFFICES ASSUME NEW x \in 1..Len(out') PROVE AfterConnects(out[x].line)'
      BY <1>1, <1>3 DEF Reported
    <2>1. AfterConnects(i)'
      BY <1>3, <1>14
    <2>. QED
      BY <1>10, <2>1 DEF AfterConnects
  <1>17. BookStep
    <2>1. Accepted' = Accepted /\ i \in Accepted /\ \A j \in Accepted : j \in 1..Len(lines)
      BY <1>4, <1>5, <1>6 DEF Accepted
    <2>2. Book' = [j \in DOMAIN Book |-> IF j \in {i} THEN "reported" ELSE Book[j]]
      BY <1>6, <2>1 DEF Book
    <2>3. i \in DOMAIN Book /\ Book[i] = "open"
      BY <1>4, <2>1 DEF Book
    <2>. QED
      BY <2>2, <2>3 DEF BookStep, Book, Ledger!Next, Ledger!Report, Ledger!Marked, Ledger!Open
  <1>. QED
    BY <1>1, <1>3, <1>4, <1>10, <1>12, <1>13, <1>15, <1>16, <1>17 DEF Inv

-----------------------------------------------------------------------------
(* No line has been written.                                                 *)
LEMMA InitInv == Init => Inv
  <1> SUFFICES ASSUME Init PROVE Inv
    OBVIOUS
  <1>1. Len(lines) = 0 /\ Len(channel) = 0 /\ OpenLines = {} /\ read = 0 /\ client = {} /\ out = <<>>
    BY DEF Init, OpenLines
  <1>2. client \subseteq SUBSET (1..Len(lines)) /\ Cardinality(client) <= 1
    BY <1>1, FS_EmptySet
  <1>3. fate \in [1..Len(lines) -> Fates]
    BY <1>1 DEF Init
  <1>4. TypeOK
    <2>1. lines \in Seq(Kinds) /\ channel \in Seq(1..Len(lines)) /\ out \in Seq(Event)
      BY DEF Init
    <2>2. read \in 0..Len(lines) /\ unsolicited \in 0..MaxUnsolicited
      BY <1>1, BridgeBoundsAssumption DEF Init
    <2>. QED
      BY <1>2, <1>3, <2>1, <2>2 DEF Init, TypeOK, Running
  <1>5. Queue /\ Connection /\ Reported
    BY <1>1 DEF Queue, Connection, Reported
  <1>. QED
    BY <1>1, <1>4, <1>5, BridgeBoundsAssumption DEF Inv

(* Every step preserves the invariant, and is one of the ledger's or none.   *)
LEMMA NextInv == Inv /\ [Next]_vars => Inv' /\ BookStep
  <1> SUFFICES ASSUME Inv, [Next]_vars PROVE Inv' /\ BookStep
    OBVIOUS
  <1>1. CASE UNCHANGED vars
    <2>1. /\ lines' = lines /\ closed' = closed /\ read' = read /\ reader' = reader
          /\ channel' = channel /\ main' = main /\ client' = client /\ stdout' = stdout
          /\ out' = out /\ told' = told /\ fate' = fate /\ unsolicited' = unsolicited
      BY <1>1 DEF vars, inputVars
    <2>2. Queue'
      BY <2>1 DEF Inv, Queue
    <2>3. /\ closed \in BOOLEAN /\ reader \in {"reading", "ended"} /\ main \in Running \cup Ended
          /\ stdout \in {"open", "broken"} /\ unsolicited \in 0..MaxUnsolicited /\ out \in Seq(Event)
          /\ read \in 0..Len(lines) /\ channel \in Seq(1..Len(lines))
      BY DEF Inv, TypeOK
    <2>. QED
      BY <2>1, <2>2, <2>3, QuietStep
  <1>2. ASSUME NEW kind \in Kinds, AppWrites(kind) PROVE Inv' /\ BookStep
    BY <1>2, AppWritesInv
  <1>3. CASE ReaderSends
    BY <1>3, ReaderSendsInv
  <1>4. CASE \/ AppClosesStdin \/ AppClosesStdout \/ ReaderEof
             \/ DrainEnd \/ PollDone \/ Sleep
    BY <1>4, IdleStepInv
  <1>5. CASE Drain
    BY <1>5, DrainInv
  <1>6. CASE PollUnsolicited
    BY <1>6, PollUnsolicitedInv
  <1>7. CASE PollEnds
    BY <1>7, PollEndsInv
  <1>. QED
    BY <1>1, <1>2, <1>3, <1>4, <1>5, <1>6, <1>7 DEF Next, MainStep, ReaderStep

(* The invariant of the channel, the client and the events holds throughout. *)
THEOREM Consistency == Spec => []Inv
  BY InitInv, NextInv, PTL DEF Spec

(* Types, and at most one client at any time (Bridge in bridge.rs).          *)
THEOREM TypeCorrect == Spec => []TypeOK
  <1>1. Inv => TypeOK
    BY DEF Inv
  <1>. QED
    BY <1>1, Consistency, PTL

(* The bridge implements RequestLedger: it passes the client's promise on    *)
(* across connects, disconnects and quit.                                    *)
THEOREM KeepsTheLedger == Spec => ImplementsLedger
  <1>1. Init => Ledger!Init
    BY DEF Init, Ledger!Init, Accepted
  <1>2. Inv /\ [Next]_vars => [Ledger!Next]_Book
    BY NextInv DEF BookStep
  <1>. QED
    BY <1>1, <1>2, Consistency, PTL DEF Spec, ImplementsLedger, Ledger!Spec, Book

(* A line after every connect and disconnect comes after the latest one.     *)
LEMMA AfterLatest ==
  ASSUME Inv, NEW j \in Nat \ {0}, AfterConnects(j)
  PROVE  j > LatestConnect(Len(lines))
  <1> DEFINE n == Len(lines)
             tries == {k \in 1..n : lines[k] \in {"connect", "disconnect"} /\ fate[k] = "done"}
  <1>1. n \in Nat
    BY Types DEF Inv
  <1>2. \A k \in tries : k < j
    BY DEF AfterConnects
  <1>3. LatestConnect(n) = IF tries = {} THEN 0 ELSE CHOOSE k \in tries : \A l \in tries : l <= k
    BY DEF LatestConnect
  <1>4. tries \subseteq 1..n
    OBVIOUS
  <1> HIDE DEF n, tries
  <1>5. CASE tries = {}
    BY <1>3, <1>5 DEF n
  <1>6. CASE tries # {}
    <2> DEFINE down == {n - k : k \in tries}
    <2>1. down \in SUBSET Nat /\ down # {}
      <3>1. \A k \in 1..n : n - k \in Nat
        BY <1>1
      <3>2. \A k \in tries : n - k \in Nat
        BY <1>4, <3>1
      <3>. QED
        BY <1>6, <3>2
    <2> HIDE DEF down
    <2>2. PICK d \in down : \A y \in down : d <= y
      BY <2>1, LeastNatural
    <2>3. PICK k \in tries : d = n - k
      BY <2>2 DEF down
    <2>4. ASSUME NEW l \in tries PROVE l <= k
      <3>1. n - l \in down
        BY DEF down
      <3>2. n - k <= n - l
        BY <2>2, <2>3, <3>1
      <3>3. k \in Nat /\ l \in Nat
        BY <1>1, <1>4
      <3>. QED
        BY <1>1, <3>2, <3>3
    <2>5. \E m \in tries : \A l \in tries : l <= m
      BY <2>4
    <2>6. (CHOOSE m \in tries : \A l \in tries : l <= m) \in tries
      BY <2>5
    <2>. QED
      BY <1>2, <1>3, <1>4, <1>6, <2>6 DEF n
  <1>. QED
    BY <1>5, <1>6

(* Events of a client are written only while stdout tells of a connection,   *)
(* and end only lines that came after the latest connect or disconnect.      *)
THEOREM OnlyOwnEvents == Spec => EventsBelongToConnection
  <1> DEFINE Own == (main = "poll" /\ out' # <<>>) =>
                      /\ told = "connected"
                      /\ \A i \in DOMAIN out' : out'[i].line # 0 =>
                           out'[i].line > LatestConnect(Len(lines))
  <1>1. ASSUME Inv, [Next]_vars PROVE Own
    <2>1. SUFFICES ASSUME main = "poll", out' # <<>>
                   PROVE  /\ told = "connected"
                          /\ \A x \in 1..Len(out') : out'[x].line # 0 => AfterConnects(out'[x].line)
      <3>1. out' \in Seq(Event)
        BY <1>1, NextInv, Types DEF Inv, TypeOK
      <3>2. ASSUME NEW x \in DOMAIN out', out'[x].line # 0, AfterConnects(out'[x].line)
            PROVE  out'[x].line > LatestConnect(Len(lines))
        <4>1. out'[x] \in Event /\ x \in 1..Len(out')
          BY <3>1
        <4>2. out'[x].line \in Nat \ {0}
          BY <3>2, <4>1, BridgeBoundsAssumption DEF Event
        <4>. QED
          BY <1>1, <3>2, <4>2, AfterLatest
      <3>3. DOMAIN out' = 1..Len(out')
        BY <3>1
      <3>. QED
        BY <3>2, <3>3
    <2>2. CASE out' = out
      BY <1>1, <2>1, <2>2 DEF Inv, Reported
    <2>3. CASE PollEnds
      <3>1. told = "connected" /\ \A x \in 1..Len(out') : out'[x].line \in OpenLines
        BY <1>1, <2>3, PollEndsInv
      <3>. QED
        BY <1>1, <3>1 DEF Inv, Connection
    <2>4. CASE PollUnsolicited
      <3>1. client # {} /\ \A x \in 1..Len(out') : out'[x].line = 0
        BY <1>1, <2>4, PollUnsolicitedInv
      <3>. QED
        BY <1>1, <3>1 DEF Inv, Connection
    <2>. QED
      BY <1>1, <2>1, <2>2, <2>3, <2>4 DEF Next, MainStep, ReaderStep, vars, AppWrites,
         AppClosesStdin, AppClosesStdout, ReaderSends, ReaderEof, Drain, DrainEnd, PollDone, Sleep
  <1>2. Inv /\ [Next]_vars => [Own]_vars
    BY <1>1
  <1>. QED
    BY <1>2, Consistency, PTL DEF Spec, EventsBelongToConnection
=============================================================================
