--------------------------- MODULE MessageTables ----------------------------
(***************************************************************************)
(* The messages of a schema (core/generate.py): the frame that carries a   *)
(* command, the tables that the device's dispatchers and the host's typed  *)
(* facade search, and what validation asks of them.                        *)
(***************************************************************************)
EXTENDS Integers, FiniteSetsExt

\* Optional YAML keys are sets with at most one element
Present(option) == option # {}
Value(option) == CHOOSE x \in option : TRUE

Structs(s) == {n \in DOMAIN s.types : ~s.types[n].union}

HasRequestPayload(m) == Present(m.request) /\ m.request # {"none"}
IsPeriodic(m) == Present(m.period_ms)

\* The frame that carries a command, explicit or derived
CommandFrame(m) ==
  IF ~Present(m.command_id) THEN "none"
  ELSE IF m.command_frame \in {{"read"}, {"write"}} THEN Value(m.command_frame)
  ELSE IF IsPeriodic(m) \/ (Present(m.response) /\ ~HasRequestPayload(m)) THEN "read"
  ELSE "write"

\* The device's table for a frame kind, which its dispatcher searches by command
RuntimeMessages(s, frame) ==
  {i \in DOMAIN s.messages : CommandFrame(s.messages[i]) = frame}
DataMessages(s) ==
  {i \in DOMAIN s.messages : /\ Present(s.messages[i].command_id)
                             /\ Present(s.messages[i].response)}

\* The device answers with DATA in a READ frame and, in a WRITE frame, to what
\* has the semantic "query": a periodic message has not, whatever it responds
RepliesWithData(m) == CommandFrame(m) = "read" \/ ~IsPeriodic(m)

\* The message the device's dispatcher runs for a command in a frame of a kind
Dispatch(s, frame, command) ==
  CHOOSE i \in RuntimeMessages(s, frame) : s.messages[i].command_id = command

\* decode_data: the first arm that matches the command
DecodeData(s, command) ==
  Min({i \in DataMessages(s) : s.messages[i].command_id = command})

-----------------------------------------------------------------------------
\* Validation

\* The messages of S have different command ids
DistinctIds(s, S) ==
  \A i, j \in S : s.messages[i].command_id = s.messages[j].command_id => i = j

ValidMessage(s, m) ==
  /\ ~Present(m.command_id) => Present(m.response) /\ ~IsPeriodic(m)
  /\ IsPeriodic(m) => Value(m.period_ms) > 0
  /\ m.request \subseteq {"bool", "none", "raw", "bytes"} \cup Structs(s)
  /\ m.response \subseteq Structs(s)
  /\ m.command_frame \subseteq {"read", "write"}

\* Fault: DATA frames are not checked for colliding commands
ValidMessagesByFrame(s) ==
  /\ \A i \in DOMAIN s.messages : ValidMessage(s, s.messages[i])
  /\ DistinctIds(s, RuntimeMessages(s, "read"))
  /\ DistinctIds(s, RuntimeMessages(s, "write"))

ValidMessages(s) ==
  /\ \A i \in DOMAIN s.messages : ValidMessage(s, s.messages[i])
  /\ DistinctIds(s, RuntimeMessages(s, "read"))
  /\ DistinctIds(s, RuntimeMessages(s, "write"))
  /\ DistinctIds(s, DataMessages(s))
=============================================================================
