------------------------------- MODULE Bridge -------------------------------
(***************************************************************************)
(* The NDJSON stdio bridge of runtime/src/bridge.rs: a thread that reads   *)
(* stdin lines into a channel, and the main loop that handles them, polls  *)
(* the client and writes events to stdout.  The client is abstracted to    *)
(* what it promises (RequestLedger): every request it accepted ends some   *)
(* time after a poll, once; polls may also report unsolicited events.      *)
(* A line is identified by its number; only its kind matters.              *)
(***************************************************************************)
EXTENDS Integers, Sequences, FiniteSets

CONSTANTS
  MaxLines,         \* bound on the lines the host application writes
  MaxUnsolicited,   \* bound on unsolicited events
  Kinds             \* the kinds of lines the host application writes

ToClient == {"read", "read_keyed", "write", "query"}
OtherCommands == {"register_periodic", "register_periodic_zero", "unregister_periodic",
                  "get_stored", "get_stored_since"}
AllKinds == ToClient \cup OtherCommands
            \cup {"connect", "disconnect", "list_ports", "quit", "blank", "invalid"}

ASSUME BridgeBoundsAssumption == MaxLines \in Nat /\ MaxUnsolicited \in Nat
ASSUME KindsAssumption == Kinds \subseteq AllKinds

VARIABLES
  lines,        \* the lines written to stdin so far
  closed,       \* the application closed stdin
  read,         \* number of lines the stdin thread has read
  reader,       \* the stdin thread: "reading" or "ended"
  channel,      \* mpsc channel: numbers of the lines in it
  main,         \* where the main loop is
  client,       \* Option<Client>: the open requests of each client there is
  stdout,       \* "open" or "broken"
  out,          \* events the latest step wrote
  told,         \* history: connection state the events on stdout tell
  fate,         \* history: what became of the lines, by number
  unsolicited   \* number of unsolicited events so far

inputVars == <<lines, closed, read, reader>>
vars == <<inputVars, channel, main, client, stdout, out, told, fate, unsolicited>>

Running == {"drain", "poll", "sleep"}
Ended == {"quit", "failed", "panicked"}
Event == [kind: {"connected", "disconnected", "error", "reply", "timeout", "notification",
                 "data", "ports", "stored"}, line: 0..MaxLines]
Fates == {"unread", "done", "open", "ended", "replaced", "dropped", "refused"}

TypeOK ==
  /\ lines \in Seq(Kinds) /\ closed \in BOOLEAN /\ read \in 0..Len(lines)
  /\ reader \in {"reading", "ended"} /\ channel \in Seq(1..Len(lines))
  /\ main \in Running \cup Ended
  /\ client \subseteq SUBSET (1..Len(lines)) /\ Cardinality(client) <= 1
  /\ stdout \in {"open", "broken"} /\ out \in Seq(Event)
  /\ told \in {"disconnected", "connected", "open_failed"}
  /\ fate \in [1..Len(lines) -> Fates] /\ unsolicited \in 0..MaxUnsolicited

Init ==
  /\ lines = <<>> /\ closed = FALSE /\ read = 0 /\ reader = "reading"
  /\ channel = <<>> /\ main = "drain" /\ client = {} /\ stdout = "open"
  /\ out = <<>> /\ told = "disconnected" /\ fate = <<>> /\ unsolicited = 0

-----------------------------------------------------------------------------
(* The host application.                                                    *)

AppWrites(kind) ==
  /\ ~closed /\ Len(lines) < MaxLines /\ main \in Running
  /\ lines' = Append(lines, kind) /\ fate' = Append(fate, "unread")
  /\ UNCHANGED <<closed, read, reader, channel, main, client, stdout, out, told, unsolicited>>

AppClosesStdin ==
  /\ ~closed
  /\ closed' = TRUE
  /\ UNCHANGED <<lines, read, reader, channel, main, client, stdout, out, told, fate, unsolicited>>

AppClosesStdout ==
  /\ stdout = "open"
  /\ stdout' = "broken"
  /\ UNCHANGED <<inputVars, channel, main, client, out, told, fate, unsolicited>>

-----------------------------------------------------------------------------
(* The stdin thread.                                                         *)

ReaderSends ==
  /\ reader = "reading" /\ main \in Running /\ read < Len(lines)
  /\ read' = read + 1 /\ channel' = Append(channel, read + 1)
  /\ UNCHANGED <<lines, closed, reader, main, client, stdout, out, told, fate, unsolicited>>

\* Fault: Ok(0) is taken for a line like any other
ReaderEofAsLine ==
  /\ reader = "reading" /\ main \in Running /\ read = Len(lines) /\ closed
  /\ read' = read + 1 /\ channel' = Append(channel, read + 1)
  /\ UNCHANGED <<lines, closed, reader, main, client, stdout, out, told, fate, unsolicited>>

\* read_line returns Ok(0); the sender is dropped with the thread
ReaderEof ==
  /\ reader = "reading" /\ main \in Running /\ read = Len(lines) /\ closed
  /\ reader' = "ended"
  /\ UNCHANGED <<lines, closed, read, channel, main, client, stdout, out, told, fate, unsolicited>>

-----------------------------------------------------------------------------
(* handle_request: each branch gives the client, the fate of the line, the   *)
(* events to write and the connection state these tell.                      *)

ev(kind, i) == [kind |-> kind, line |-> i]

\* The requests of a client that goes away get no event
Dropped(f) == [j \in DOMAIN f |-> IF f[j] = "open" THEN "dropped" ELSE f[j]]

\* emit: writes the events, or makes run() return the error
Emit(events, next) ==
  IF stdout = "open" \/ events = <<>>
  THEN out' = events /\ main' = next
  ELSE out' = <<>> /\ main' = "failed"

\* Fault: the old client survives when the new port cannot be opened
ConnectKeepsOld(i) ==
  \/ /\ client' = {{}} /\ told' = "connected"
     /\ fate' = [Dropped(fate) EXCEPT ![i] = "done"]
     /\ Emit(<<ev("connected", i)>>, "drain")
  \/ /\ UNCHANGED client /\ told' = "open_failed"
     /\ fate' = [fate EXCEPT ![i] = "done"]
     /\ Emit(<<ev("error", i)>>, "drain")

Connect(i) ==
  \/ \* opened
     /\ client' = {{}} /\ told' = "connected"
     /\ fate' = [Dropped(fate) EXCEPT ![i] = "done"]
     /\ Emit(<<ev("connected", i)>>, "drain")
  \/ \* could not be opened: the old client is gone all the same
     /\ client' = {} /\ told' = "open_failed"
     /\ fate' = [Dropped(fate) EXCEPT ![i] = "done"]
     /\ Emit(<<ev("error", i)>>, "drain")

\* Fault: the client outlives the disconnect
DisconnectKeepsClient(i) ==
  /\ UNCHANGED client /\ told' = "disconnected"
  /\ fate' = [Dropped(fate) EXCEPT ![i] = "done"]
  /\ Emit(<<ev("disconnected", i)>>, "drain")

Disconnect(i) ==
  /\ client' = {} /\ told' = "disconnected"
  /\ fate' = [Dropped(fate) EXCEPT ![i] = "done"]
  /\ Emit(<<ev("disconnected", i)>>, "drain")

\* Fault: the loop goes on after quit
QuitGoesOn(i) ==
  /\ client' = {} /\ out' = <<>> /\ main' = "drain"
  /\ fate' = [Dropped(fate) EXCEPT ![i] = "done"]
  /\ UNCHANGED told

Quit(i) ==
  /\ client' = {} /\ out' = <<>> /\ main' = "quit"
  /\ fate' = [Dropped(fate) EXCEPT ![i] = "done"]
  /\ UNCHANGED told

\* "Not connected"
Refuse(i) ==
  /\ client = {} /\ fate' = [fate EXCEPT ![i] = "refused"]
  /\ Emit(<<ev("error", i)>>, "drain")
  /\ UNCHANGED <<client, told>>

\* Keyed reads still in the client's queue, which a new one may replace
Replaceable(open, i) ==
  IF lines[i] = "read_keyed" THEN {j \in open : lines[j] = "read_keyed"} ELSE {}

\* Fault: the request is accepted and never queued
ToClientRequestLost(i) ==
  /\ client # {} /\ UNCHANGED client
  /\ fate' = [fate EXCEPT ![i] = "open"]
  /\ out' = <<>> /\ main' = "drain"
  /\ UNCHANGED told

\* client.read, client.write, client.query
ToClientRequest(i) ==
  /\ \E open \in client, gone \in SUBSET (1..Len(lines)) :
       /\ gone \subseteq Replaceable(open, i) /\ Cardinality(gone) <= 1
       /\ client' = {(open \ gone) \cup {i}}
       /\ fate' = [j \in DOMAIN fate |-> IF j = i THEN "open"
                                         ELSE IF j \in gone THEN "replaced" ELSE fate[j]]
  /\ out' = <<>> /\ main' = "drain"
  /\ UNCHANGED told

\* register_periodic; a storage_count of 0 fails the ring buffer's assertion
RegisterPeriodic(i) ==
  /\ client # {} /\ fate' = [fate EXCEPT ![i] = "done"] /\ out' = <<>>
  /\ main' = IF lines[i] = "register_periodic_zero" THEN "panicked" ELSE "drain"
  /\ UNCHANGED <<client, told>>

UnregisterPeriodic(i) ==
  /\ client # {} /\ fate' = [fate EXCEPT ![i] = "done"] /\ out' = <<>> /\ main' = "drain"
  /\ UNCHANGED <<client, told>>

GetStored(i) ==
  /\ client # {} /\ fate' = [fate EXCEPT ![i] = "done"]
  /\ Emit(<<ev("stored", i)>>, "drain")
  /\ UNCHANGED <<client, told>>

\* Answered with the ports or an error, connected or not
ListPorts(i) ==
  /\ fate' = [fate EXCEPT ![i] = "done"]
  /\ \E kind \in {"ports", "error"} : Emit(<<ev(kind, i)>>, "drain")
  /\ UNCHANGED <<client, told>>

\* A line that is no request: skipped when blank, an error otherwise
NoRequest(i) ==
  /\ fate' = [fate EXCEPT ![i] = "done"]
  /\ Emit(IF lines[i] = "blank" THEN <<>> ELSE <<ev("error", i)>>, "drain")
  /\ UNCHANGED <<client, told>>

HandleRequest(i) ==
  \/ lines[i] = "connect" /\ Connect(i)
  \/ lines[i] = "disconnect" /\ Disconnect(i)
  \/ lines[i] = "quit" /\ Quit(i)
  \/ lines[i] \in ToClient \cup OtherCommands /\ Refuse(i)
  \/ lines[i] \in ToClient /\ ToClientRequest(i)
  \/ lines[i] \in {"register_periodic", "register_periodic_zero"} /\ RegisterPeriodic(i)
  \/ lines[i] = "unregister_periodic" /\ UnregisterPeriodic(i)
  \/ lines[i] \in {"get_stored", "get_stored_since"} /\ GetStored(i)
  \/ lines[i] = "list_ports" /\ ListPorts(i)
  \/ lines[i] \in {"blank", "invalid"} /\ NoRequest(i)

-----------------------------------------------------------------------------
(* The main loop.                                                            *)

\* try_recv returned a line
Drain ==
  /\ main = "drain" /\ channel # <<>>
  /\ HandleRequest(Head(channel))
  /\ channel' = Tail(channel)
  /\ UNCHANGED <<inputVars, stdout, unsolicited>>

\* try_recv failed, be it that the channel is empty or that its sender is gone
DrainEnd ==
  /\ main = "drain" /\ channel = <<>>
  /\ main' = "poll" /\ out' = <<>>
  /\ UNCHANGED <<inputVars, channel, client, stdout, told, fate, unsolicited>>

\* poll() has no more events, or there is no client
PollDone ==
  /\ main = "poll"
  /\ main' = "sleep" /\ out' = <<>>
  /\ UNCHANGED <<inputVars, channel, client, stdout, told, fate, unsolicited>>

\* poll() ends a request of this client
PollEnds ==
  /\ main = "poll"
  /\ \E open \in client : \E i \in open, kind \in {"reply", "timeout", "error"} :
       /\ client' = {open \ {i}}
       /\ fate' = [fate EXCEPT ![i] = "ended"]
       /\ Emit(<<ev(kind, i)>>, "poll")
  /\ UNCHANGED <<inputVars, channel, stdout, told, unsolicited>>

\* poll() reports a notification, periodic or late data, or an error
PollUnsolicited ==
  /\ main = "poll" /\ client # {} /\ unsolicited < MaxUnsolicited
  /\ unsolicited' = unsolicited + 1
  /\ \E kind \in {"notification", "data", "error"} : Emit(<<ev(kind, 0)>>, "poll")
  /\ UNCHANGED <<inputVars, channel, client, stdout, told, fate>>

Sleep ==
  /\ main = "sleep"
  /\ main' = "drain" /\ out' = <<>>
  /\ UNCHANGED <<inputVars, channel, client, stdout, told, fate, unsolicited>>

MainStep == Drain \/ DrainEnd \/ PollDone \/ PollEnds \/ PollUnsolicited \/ Sleep
ReaderStep == ReaderSends \/ ReaderEof

Next ==
  \/ \E kind \in Kinds : AppWrites(kind)
  \/ AppClosesStdin \/ AppClosesStdout
  \/ MainStep \/ ReaderStep

Spec == Init /\ [][Next]_vars

(* Both threads keep running, and a client that is polled again and again    *)
(* ends each request, by the device's answer or its timeout (the property    *)
(* EveryRequestEnds of Client).                                              *)
Fairness == WF_vars(MainStep) /\ WF_vars(ReaderStep) /\ SF_vars(PollEnds)

FairSpec == Spec /\ Fairness

-----------------------------------------------------------------------------
\* The latest line that changed the connection, 0 when there is none
LatestConnect(upTo) ==
  LET tries == {j \in 1..upTo : lines[j] \in {"connect", "disconnect"} /\ fate[j] = "done"}
  IN  IF tries = {} THEN 0 ELSE CHOOSE j \in tries : \A k \in tries : k <= j

(* Events of a client reach stdout only while the events before them say     *)
(* "connected", and end only requests made on this very connection: nothing  *)
(* queued for a port that was closed, replaced or failed to reopen is ever   *)
(* sent or reported (handle_request's connect and disconnect).               *)
EventsBelongToConnection ==
  [][(main = "poll" /\ out' # <<>>) =>
       /\ told = "connected"
       /\ \A i \in DOMAIN out' : out'[i].line # 0 =>
            out'[i].line > LatestConnect(Len(lines))]_vars

\* The lines that became requests of a client, and their fate as reported
Accepted == {i \in DOMAIN fate : fate[i] \in {"open", "ended", "replaced", "dropped"}}
Ledger == INSTANCE RequestLedger WITH
            ledger <- [i \in Accepted |-> IF fate[i] = "ended" THEN "reported" ELSE fate[i]]

(* The bridge passes the client's promise on to the application, across      *)
(* clients: one event ends one line, disconnecting, reconnecting and quit    *)
(* drop what is open for good, and nothing that ended is reported again.     *)
ImplementsLedger == Ledger!Spec

Finished(i) == i \in DOMAIN fate /\ fate[i] \notin {"unread", "open"}

\* The process ended for the one reason the code has for that end
EndedWithReason ==
  \/ main = "quit" /\ \E i \in DOMAIN lines : lines[i] = "quit"
  \/ main = "failed" /\ stdout = "broken"
  \/ main = "panicked" /\ \E i \in DOMAIN lines : lines[i] = "register_periodic_zero"

(* Each read, write or query line ends: refused, replaced by its coalesce    *)
(* key, dropped with its client, or reported by an event - also when stdin   *)
(* is closed right behind it.  Otherwise the process has ended, by a quit    *)
(* line, a broken stdout or the assertion on a storage_count of 0.           *)
EveryLineEnds ==
  \A i \in 1..MaxLines :
    (i \in DOMAIN fate) ~> (Finished(i) \/ EndedWithReason)

(* A quit line ends the process, whatever was written before it and however  *)
(* many replies are outstanding.                                             *)
QuitEnds ==
  \A i \in 1..MaxLines : (i \in DOMAIN lines /\ lines[i] = "quit") ~> (main \in Ended)

(* "The loop exits when a "quit" command is received or stdin is closed"     *)
(* (bridge.rs:165).                                                          *)
ExitsWhenStdinCloses == closed ~> (main \in Ended)
=============================================================================
