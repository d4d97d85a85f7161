------------------------------- MODULE Client -------------------------------
(***************************************************************************)
(* Client of runtime/src/client.rs at the level of frames: request queue,  *)
(* the one in-flight request, periodic reads, data store, and poll() split *)
(* where the outside world can interleave with it.  The transport, the     *)
(* link and the device are an environment that answers, loses or delays    *)
(* each request and may send notifications.                                *)
(*                                                                         *)
(* Time is a natural number of clock units.  An Option is a set with at    *)
(* most one element (`pending`) or None (durations and due times).         *)
(* Requests carry an identity the code does not have: it is the payload of *)
(* the DATA frame that answers them, so the properties can tell replies    *)
(* apart.                                                                  *)
(***************************************************************************)
EXTENDS PriorityQueue, Periodic, FiniteSets

CONSTANTS
  Commands,          \* command IDs in use
  Keys,              \* coalesce keys host code passes to Client::read
  ResponseTimeout,   \* ClientConfig::response_timeout
  Intervals,         \* intervals of register_periodic
  PeriodicTimeouts,  \* timeouts of register_periodic_with_timeout, or None
  Capacities,        \* storage_count values
  Empty,             \* content of an unused ring slot
  MaxLatency,        \* a request is answered within this time or never
  MaxGap,            \* time between a read and the timeout check of its poll
  Faults,            \* which transport failures the environment may produce
  MaxCalls,          \* bound: host calls are made while fewer requests exist
  MaxNotifications,  \* bound on device notifications
  MaxTime            \* bound on the clock, beyond which only timeouts run down

FaultKinds == {"read_error", "write_error", "write_error_sent"}

ASSUME TimesAssumption ==
  /\ ResponseTimeout \in Nat /\ Intervals \subseteq Nat
  /\ PeriodicTimeouts \subseteq Nat \cup {None}
  /\ MaxLatency \in Nat /\ MaxGap \in Nat
ASSUME CapacitiesAssumption == Capacities \subseteq Nat \ {0}
ASSUME FaultsAssumption == Faults \subseteq FaultKinds
ASSUME BoundsAssumption ==
  MaxCalls \in Nat /\ MaxNotifications \in Nat /\ MaxTime \in Nat

RB == INSTANCE RingBuffer WITH Payloads <- Nat

VARIABLES
  queue,      \* PriorityQueue
  pending,    \* Option<PendingRequest>
  periodic,   \* Vec<PeriodicEntry>
  store,      \* DataStore.buffers
  phase,      \* where poll() is; "idle" outside it
  next,       \* index of the periodic entry poll() looks at
  rx,         \* frames of the last Transport::read not yet handled
  readAt,     \* when this poll's last Transport::read returned, else 0
  wire,       \* requests on their way to the device or being processed there
  inbox,      \* replies that reached the host's transport
  notified,   \* number of notifications so far
  now,        \* the clock
  fate        \* history: what became of each request, by identity

hostVars == <<queue, pending, periodic, store>>
pollVars == <<phase, next, rx, readAt>>
linkVars == <<wire, inbox, notified>>
vars == <<hostVars, pollVars, linkVars, now, fate>>

Phases == {"idle", "read", "handle", "handle_full", "timeout", "periodic", "flush"}
Fates == {"queued", "sent", "answered", "timedout", "failed", "replaced", "cleared"}
Replies == {"Ack", "Nack", "Data"}

\* The coalesce key "periodic_<command>"
PeriodicKey(c) == <<"periodic", c>>
AllKeys == Keys \cup {NoKey} \cup {PeriodicKey(c) : c \in Commands}

Message == [id: Nat, op: {"READ", "WRITE"}, cmd: Commands, prio: Priorities,
            key: AllKeys, timeout: PeriodicTimeouts \cup {None},
            expect: {"Data", "Ack"}]
PendingRequest == [id: Nat, cmd: Commands, sent_at: Nat, timeout: Nat,
                   expect: {"Data", "Ack"}]
PeriodicEntry == [cmd: Commands, interval: Intervals, next_due: Nat \cup {None},
                  timeout: PeriodicTimeouts \cup {None}]
Request == [id: Nat, op: {"READ", "WRITE"}, cmd: Commands, due: Nat]
Frame == [kind: Replies, id: Nat, cmd: Commands, at: Nat]
         \cup [kind: {"Notification"}, at: Nat]

TypeOK ==
  /\ queue \in [high: Seq(Message), low: Seq(Message)]
  /\ pending \subseteq PendingRequest /\ Cardinality(pending) <= 1
  /\ periodic \in Seq(PeriodicEntry)
  /\ \A c \in DOMAIN store : c \in Commands /\ \E k \in Capacities : store[c] \in RB!RingOf(k)
  /\ phase \in Phases /\ next \in Nat \ {0} /\ rx \in Seq(Frame) /\ readAt \in Nat
  /\ wire \in Seq(Request) /\ inbox \in Seq(Frame) /\ notified \in Nat
  /\ now \in Nat
  /\ fate \in Seq(Fates)

\* Client::with_config
Init ==
  /\ queue = EmptyQueue /\ pending = {} /\ periodic = <<>>
  /\ store = [c \in {} |-> RB!NewRing(1)]
  /\ phase = "idle" /\ next = 1 /\ rx = <<>> /\ readAt = 0
  /\ wire = <<>> /\ inbox = <<>> /\ notified = 0 /\ now = 0 /\ fate = <<>>

-----------------------------------------------------------------------------
(* Host calls, made between two polls of the single-threaded client.        *)

\* PriorityQueue::push of a new message, as the callers build it
Enqueue(op, c, prio, key, timeout, expect) ==
  LET m == [id |-> Len(fate) + 1, op |-> op, cmd |-> c, prio |-> prio,
            key |-> key, timeout |-> timeout, expect |-> expect]
  IN  /\ queue' = Push(queue, m)
      /\ fate' = Append([i \in DOMAIN fate |->
                           IF \E old \in Displaced(queue, m) : old.id = i
                           THEN "replaced" ELSE fate[i]], "queued")

HostMayCall == phase = "idle" /\ Len(fate) < MaxCalls

Read(c, prio, key) ==
  /\ HostMayCall
  /\ Enqueue("READ", c, prio, key, None, "Data")
  /\ UNCHANGED <<pending, periodic, store, pollVars, linkVars, now>>

Write(c) ==
  /\ HostMayCall
  /\ Enqueue("WRITE", c, "high", NoKey, None, "Ack")
  /\ UNCHANGED <<pending, periodic, store, pollVars, linkVars, now>>

Query(c) ==
  /\ HostMayCall
  /\ Enqueue("WRITE", c, "high", NoKey, None, "Data")
  /\ UNCHANGED <<pending, periodic, store, pollVars, linkVars, now>>

ClearQueue ==
  /\ HostMayCall
  /\ queue' = EmptyQueue
  /\ fate' = [i \in DOMAIN fate |->
                IF fate[i] = "queued" THEN "cleared" ELSE fate[i]]
  /\ UNCHANGED <<pending, periodic, store, pollVars, linkVars, now>>

\* periodic.retain(|e| e.command != command)
Others(c) ==
  LET kept[n \in 0..Len(periodic)] ==
        IF n = 0 THEN <<>>
        ELSE IF periodic[n].cmd # c THEN Append(kept[n - 1], periodic[n]) ELSE kept[n - 1]
  IN  kept[Len(periodic)]

RegisterPeriodic(c, interval, timeout, cap) ==
  /\ HostMayCall
  /\ periodic' = Append(Others(c), [cmd |-> c, interval |-> interval,
                                    next_due |-> None, timeout |-> timeout])
  /\ store' = RB!RegisterIn(store, c, cap)
  /\ UNCHANGED <<queue, pending, pollVars, linkVars, now, fate>>

UnregisterPeriodic(c) ==
  /\ HostMayCall
  /\ periodic' = Others(c)
  /\ UNCHANGED <<queue, pending, store, pollVars, linkVars, now, fate>>

-----------------------------------------------------------------------------
(* poll(), step 1: read what the transport has and handle the frames.        *)

\* Fault: the timeout is checked before reading
BeginPollUnread ==
  /\ phase = "idle"
  /\ phase' = "timeout" /\ readAt' = now
  /\ UNCHANGED <<hostVars, next, rx, linkVars, now, fate>>

BeginPoll ==
  /\ phase = "idle"
  /\ phase' = "read"
  /\ UNCHANGED <<hostVars, next, rx, readAt, linkVars, now, fate>>

\* Ok(0), at once or after the time a transport waits for input
ReadNothing ==
  /\ phase = "read" /\ inbox = <<>>
  /\ phase' = "timeout" /\ readAt' = now
  /\ UNCHANGED <<hostVars, next, rx, linkVars, now, fate>>

\* Ok(n) with n below the buffer size: everything there was
ReadAll ==
  /\ phase = "read" /\ inbox # <<>>
  /\ rx' = inbox /\ inbox' = <<>>
  /\ phase' = "handle" /\ readAt' = now
  /\ UNCHANGED <<hostVars, next, wire, notified, now, fate>>

\* Ok(n) with a full buffer: part of it, and the loop reads again
ReadFull ==
  /\ phase = "read"
  /\ \E k \in 1..Len(inbox) : /\ rx' = SubSeq(inbox, 1, k)
                              /\ inbox' = SubSeq(inbox, k + 1, Len(inbox))
  /\ phase' = "handle_full"
  /\ UNCHANGED <<hostVars, next, readAt, wire, notified, now, fate>>

\* Any other error: an Error event, and poll() goes on
ReadError ==
  /\ phase = "read" /\ "read_error" \in Faults
  /\ phase' = "timeout" /\ readAt' = now
  /\ UNCHANGED <<hostVars, next, rx, linkVars, now, fate>>

\* The frame is taken off rx; after the last one the read loop ends or repeats
NextFrame ==
  /\ rx' = Tail(rx)
  /\ phase' = IF Len(rx) > 1 THEN phase
              ELSE IF phase = "handle" THEN "timeout" ELSE "read"
  /\ UNCHANGED <<queue, periodic, next, readAt, linkVars, now>>

Handling(kind) == phase \in {"handle", "handle_full"} /\ Head(rx).kind = kind

\* self.pending = None, with the given end of the request it held
Complete(end) ==
  /\ pending' = {}
  /\ fate' = [i \in DOMAIN fate |->
                IF \E p \in pending : p.id = i THEN end ELSE fate[i]]

KeepPending == UNCHANGED <<pending, fate>>

\* handle_frame, ACK: completes a write of that command, otherwise an event
HandleAck ==
  /\ Handling("Ack")
  /\ IF \E p \in pending : p.cmd = Head(rx).cmd /\ p.expect = "Ack"
     THEN Complete("answered") ELSE KeepPending
  /\ UNCHANGED store
  /\ NextFrame

\* handle_frame, NACK: completes any request of that command
HandleNack ==
  /\ Handling("Nack")
  /\ IF \E p \in pending : p.cmd = Head(rx).cmd
     THEN Complete("answered") ELSE KeepPending
  /\ UNCHANGED store
  /\ NextFrame

StoreData == store' = RB!StoreIn(store, Head(rx).cmd, Head(rx).id)

\* Fault: the early return for DATA that does not answer the pending request
\* comes before its store call
HandleDataStrict ==
  /\ Handling("Data")
  /\ \/ /\ \E p \in pending : ~(p.cmd = Head(rx).cmd /\ p.expect = "Data")
        /\ KeepPending /\ UNCHANGED store
     \/ /\ \A p \in pending : p.cmd = Head(rx).cmd /\ p.expect = "Data"
        /\ Complete("answered") /\ StoreData
  /\ NextFrame

\* handle_frame, DATA: completes a read or query of that command; stored for a
\* registered command whether it completes the pending request or not, by a
\* store call of its own in each branch
HandleData ==
  /\ Handling("Data")
  /\ \/ \* a request for something else is pending: stored if registered, return
        /\ \E p \in pending : ~(p.cmd = Head(rx).cmd /\ p.expect = "Data")
        /\ KeepPending
        /\ IF Head(rx).cmd \in DOMAIN store THEN StoreData ELSE UNCHANGED store
     \/ \* it answers the pending request, or none is pending
        /\ \A p \in pending : p.cmd = Head(rx).cmd /\ p.expect = "Data"
        /\ Complete("answered") /\ StoreData
  /\ NextFrame

\* Fault: any frame ends the wait
HandleNotificationCompletes ==
  /\ Handling("Notification")
  /\ Complete("answered") /\ UNCHANGED store
  /\ NextFrame

HandleNotification ==
  /\ Handling("Notification")
  /\ KeepPending /\ UNCHANGED store
  /\ NextFrame

-----------------------------------------------------------------------------
(* poll(), steps 2 to 4.                                                     *)

TimedOut(p) == now - p.sent_at >= p.timeout

\* Fault: the timeout is reported and the request left pending
CheckTimeoutKeeps ==
  /\ phase = "timeout"
  /\ KeepPending
  /\ phase' = "periodic" /\ next' = 1 /\ readAt' = 0
  /\ UNCHANGED <<queue, periodic, store, rx, linkVars, now>>

CheckTimeout ==
  /\ phase = "timeout"
  /\ IF \E p \in pending : TimedOut(p) THEN Complete("timedout") ELSE KeepPending
  /\ phase' = "periodic" /\ next' = 1 /\ readAt' = 0
  /\ UNCHANGED <<queue, periodic, store, rx, linkVars, now>>

\* One iteration of enqueue_periodic_at; the clock was read once for the loop
PeriodicDue ==
  /\ phase = "periodic" /\ next <= Len(periodic)
  /\ LET e == periodic[next]
     IN  /\ Due(e.next_due, now)
         /\ periodic' = [periodic EXCEPT ![next].next_due =
                           AdvanceDue(e.next_due, e.interval, now)]
         /\ Enqueue("READ", e.cmd, "low", PeriodicKey(e.cmd), e.timeout, "Data")
  /\ next' = next + 1
  /\ UNCHANGED <<pending, store, phase, rx, readAt, linkVars, now>>

PeriodicNotDue ==
  /\ phase = "periodic" /\ next <= Len(periodic)
  /\ ~Due(periodic[next].next_due, now)
  /\ next' = next + 1
  /\ UNCHANGED <<hostVars, phase, rx, readAt, linkVars, now, fate>>

PeriodicDone ==
  /\ phase = "periodic" /\ next > Len(periodic)
  /\ phase' = "flush" /\ next' = 1
  /\ UNCHANGED <<hostVars, rx, readAt, linkVars, now, fate>>

\* try_flush: a request is in flight, or nothing is queued
FlushNothing ==
  /\ phase = "flush" /\ (pending # {} \/ IsEmptyQueue(queue))
  /\ phase' = "idle"
  /\ UNCHANGED <<hostVars, next, rx, readAt, linkVars, now, fate>>

\* Fault: a request in flight does not hold back the next
CanFlushAnytime == phase = "flush" /\ ~IsEmptyQueue(queue)

CanFlush == phase = "flush" /\ pending = {} /\ ~IsEmptyQueue(queue)

OnWire(m) ==
  wire' = Append(wire, [id |-> m.id, op |-> m.op, cmd |-> m.cmd, due |-> now + MaxLatency])

\* try_flush: write_all succeeds
FlushSend ==
  /\ CanFlush
  /\ LET m == PopMessage(queue)
     IN  /\ queue' = PopRest(queue)
         /\ pending' = {[id |-> m.id, cmd |-> m.cmd, sent_at |-> now,
                         timeout |-> IF m.timeout = None THEN ResponseTimeout ELSE m.timeout,
                         expect |-> m.expect]}
         /\ OnWire(m)
         /\ fate' = [fate EXCEPT ![m.id] = "sent"]
  /\ phase' = "idle"
  /\ UNCHANGED <<periodic, store, next, rx, readAt, inbox, notified, now>>

\* Fault: the message is reported as failed and left in the queue
FlushFailKeeps ==
  /\ CanFlush
  /\ "write_error" \in Faults
  /\ fate' = [fate EXCEPT ![PopMessage(queue).id] = "failed"]
  /\ phase' = "idle"
  /\ UNCHANGED <<hostVars, next, rx, readAt, linkVars, now>>

\* try_flush: write_all fails; the message is gone, whether or not its bytes
\* had reached the device before the error (a failing flush after the write)
FlushFail ==
  /\ CanFlush
  /\ LET m == PopMessage(queue)
     IN  /\ queue' = PopRest(queue)
         /\ \/ "write_error" \in Faults /\ UNCHANGED wire
            \/ "write_error_sent" \in Faults /\ OnWire(m)
         /\ fate' = [fate EXCEPT ![m.id] = "failed"]
  /\ phase' = "idle"
  /\ UNCHANGED <<pending, periodic, store, next, rx, readAt, inbox, notified, now>>

-----------------------------------------------------------------------------
(* The device and the link, in the order of the serial line.                 *)

\* READ is answered with DATA or NACK, WRITE with ACK, DATA or NACK
Answers(op) == IF op = "READ" THEN {"Data", "Nack"} ELSE Replies

DeviceAnswers ==
  /\ wire # <<>>
  /\ \E kind \in Answers(Head(wire).op) :
       inbox' = Append(inbox, [kind |-> kind, id |-> Head(wire).id,
                               cmd |-> Head(wire).cmd, at |-> now])
  /\ wire' = Tail(wire)
  /\ UNCHANGED <<hostVars, pollVars, notified, now, fate>>

\* The request or its reply is lost or damaged, or the device does not answer
LinkLoses ==
  /\ wire # <<>>
  /\ wire' = Tail(wire)
  /\ UNCHANGED <<hostVars, pollVars, inbox, notified, now, fate>>

DeviceNotifies ==
  /\ notified < MaxNotifications
  /\ notified' = notified + 1
  /\ inbox' = Append(inbox, [kind |-> "Notification", at |-> now])
  /\ UNCHANGED <<hostVars, pollVars, wire, now, fate>>

\* The bound on the clock: past MaxTime it runs only to let a request time out,
\* and not for periodic reads, which would keep it running for ever
ClockRuns ==
  now < MaxTime \/ (periodic = <<>> /\ \E p \in pending : ~TimedOut(p))

\* Time passes, within the latency of the link and the host's read-to-check
\* gap.  Handling frames reads no clock, so the time it takes is counted after
\* it, in the phase that follows.
Tick ==
  /\ ClockRuns
  /\ phase \in {"idle", "read", "timeout", "flush"}
  /\ phase = "timeout" => now < readAt + MaxGap
  /\ \A i \in DOMAIN wire : now < wire[i].due
  /\ now' = now + 1
  /\ UNCHANGED <<hostVars, pollVars, linkVars, fate>>

-----------------------------------------------------------------------------
HostCall ==
  \/ \E c \in Commands, prio \in Priorities, key \in Keys \cup {NoKey} : Read(c, prio, key)
  \/ \E c \in Commands : Write(c) \/ Query(c) \/ UnregisterPeriodic(c)
  \/ ClearQueue
  \/ \E c \in Commands, i \in Intervals, t \in PeriodicTimeouts \cup {None}, k \in Capacities :
       RegisterPeriodic(c, i, t, k)

PollStep ==
  \/ BeginPoll \/ ReadNothing \/ ReadAll \/ ReadFull \/ ReadError
  \/ HandleAck \/ HandleNack \/ HandleData \/ HandleNotification
  \/ CheckTimeout \/ PeriodicDue \/ PeriodicNotDue \/ PeriodicDone
  \/ FlushNothing \/ FlushSend \/ FlushFail

LinkStep == DeviceAnswers \/ LinkLoses \/ DeviceNotifies

Next == HostCall \/ PollStep \/ LinkStep \/ Tick

Spec == Init /\ [][Next]_vars

(* The host polls forever, time passes, and a request on the line is answered *)
(* or lost within MaxLatency.  Nothing obliges the device to answer.          *)
Fairness ==
  /\ WF_vars(PollStep)
  /\ SF_vars(Tick)
  /\ WF_vars(DeviceAnswers \/ LinkLoses)

FairSpec == Spec /\ Fairness

-----------------------------------------------------------------------------
Reply(f) == f.kind # "Notification"
Positions(s, i) == {k \in DOMAIN s : s[k].id = i}

(* No request is lost or duplicated: a request is in the queue, exactly once *)
(* and in one level only, iff nothing else has become of it, and it is the   *)
(* pending one iff it was sent and has not ended (push, pop, try_flush,      *)
(* handle_frame, the timeout check and clear_queue together).                *)
Accounting ==
  /\ \A i \in DOMAIN fate :
       Cardinality(Positions(queue.high, i)) + Cardinality(Positions(queue.low, i))
         = (IF fate[i] = "queued" THEN 1 ELSE 0)
  /\ \A i \in DOMAIN fate : fate[i] = "sent" <=> \E p \in pending : p.id = i
  /\ \A m \in Queued(queue) \cup pending : m.id \in DOMAIN fate

\* A request's fate as the application sees it
Seen(f) == CASE f \in {"queued", "sent"} -> "open"
             [] f \in {"answered", "timedout", "failed"} -> "reported"
             [] f = "replaced" -> "replaced"
             [] f = "cleared" -> "dropped"

Ledger == INSTANCE RequestLedger WITH ledger <- [i \in DOMAIN fate |-> Seen(fate[i])]

(* The client keeps the promise of RequestLedger: whatever replies, timeouts, *)
(* errors, coalescing and clear_queue come together, a request ends once, an  *)
(* event of poll() ends one request, a push replaces at most one, and none    *)
(* that ended is ever sent again.                                             *)
ImplementsLedger == Ledger!Spec

(* However long the link stalls, each priority level holds at most one       *)
(* message per coalesce key, so periodic reads never build up a backlog      *)
(* (queue.rs:6-10), also across re-registration.                             *)
OnePerKeyAndLevel ==
  \A l \in Priorities : \A i, j \in DOMAIN queue[l] :
    (queue[l][i].key = queue[l][j].key /\ queue[l][i].key # NoKey) => i = j

(* A frame completes the pending request only if it is the reply to that     *)
(* very request, never a late reply to an earlier one for the same command,  *)
(* provided timeouts exceed the reply latency plus the time a poll lets pass *)
(* between its read and its timeout check, and the transport reports no      *)
(* error for bytes it sent or still holds.                                   *)
OwnReply ==
  [][\A p \in pending :
       (phase \in {"handle", "handle_full"} /\ pending' = {})
         => (Reply(Head(rx)) /\ Head(rx).id = p.id)]_vars

(* Stop-and-wait holds on the line itself: a request is sent only when the   *)
(* device has no earlier request to answer and no earlier reply is on its    *)
(* way, under the conditions of OwnReply.                                    *)
OneInFlight ==
  [][wire' # <<>> /\ Len(wire') > Len(wire) =>
       /\ wire = <<>>
       /\ \A i \in DOMAIN inbox : ~Reply(inbox[i])
       /\ \A i \in DOMAIN rx : ~Reply(rx[i])]_vars

(* The timeout check never gives up on a request whose reply was already     *)
(* with the transport when the poll read it: the read loop drains first.     *)
NoTimeoutOverReply ==
  [][\A p \in pending : (phase = "timeout" /\ pending' = {}) =>
       \A i \in DOMAIN inbox :
         (Reply(inbox[i]) /\ inbox[i].id = p.id) => inbox[i].at >= readAt]_vars

\* The step handles a DATA frame of command c
HandlesDataOf(c) ==
  /\ phase \in {"handle", "handle_full"} /\ rx' # rx
  /\ Head(rx).kind = "Data" /\ Head(rx).cmd = c

(* Every DATA frame of a command with storage is stored exactly once as its  *)
(* newest entry - completing, unsolicited and late ones alike - and nothing  *)
(* else in a poll touches the store (handle_frame has two store calls).      *)
DataStoredOnce ==
  [][phase # "idle" => \A c \in DOMAIN store :
       IF HandlesDataOf(c)
       THEN store'[c].seq = store[c].seq + 1 /\ RB!Latest(store'[c]) = <<Head(rx).id>>
       ELSE store'[c] = store[c]]_vars

Ended(i) == i \in DOMAIN fate /\ fate[i] \notin {"queued", "sent"}

(* Every request the host made comes to an end - answered, timed out, failed *)
(* on the wire, replaced or cleared - even if the device never answers: one  *)
(* silent exchange never blocks the stop-and-wait client for good.           *)
EveryRequestEnds ==
  \A i \in 1..MaxCalls : (i \in DOMAIN fate) ~> Ended(i)
=============================================================================
