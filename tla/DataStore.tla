------------------------------ MODULE DataStore ------------------------------
(***************************************************************************)
(* The per-command data store of runtime/src/storage.rs together with one  *)
(* host reader per command that follows the documented cursor protocol:    *)
(* pass 0 first, then pass back the sequence number read_since returned.   *)
(* The reader and the storing client interleave freely.                    *)
(***************************************************************************)
EXTENDS RingBuffer, FiniteSets

CONSTANTS
  Commands,      \* command IDs
  Capacities,    \* ring capacities the host registers
  MaxSeq         \* bound on the entries stored in one ring (TLC only)

ASSUME CapacitiesAssumption == Capacities \subseteq Nat \ {0}
ASSUME MaxSeqAssumption == MaxSeq \in Nat

VARIABLES
  buffers,   \* DataStore.buffers: a function on the registered commands
  cursor,    \* the reader's cursor for each command
  batch,     \* the entries the reader's latest read_since returned
  unread,    \* history: payloads stored in the present ring since the last read
  replaced   \* history: commands whose ring was reset since the last read

vars == <<buffers, cursor, batch, unread, replaced>>

TypeOK ==
  /\ DOMAIN buffers \subseteq Commands
  /\ \A c \in DOMAIN buffers : \E cap \in Capacities : buffers[c] \in RingOf(cap)
  /\ cursor \in [Commands -> Nat]
  /\ batch \in [Commands -> Seq(Payloads)]
  /\ unread \in [Commands -> Seq(Payloads)]
  /\ replaced \subseteq Commands

Init ==
  /\ buffers = [c \in {} |-> NewRing(1)]
  /\ cursor = [c \in Commands |-> 0]
  /\ batch = [c \in Commands |-> <<>>]
  /\ unread = [c \in Commands |-> <<>>]
  /\ replaced = {}

\* DataStore::register, called for every (re-)registration of a periodic read
Register(c, cap) ==
  /\ buffers' = RegisterIn(buffers, c, cap)
  /\ unread' = [unread EXCEPT ![c] = <<>>]
  /\ replaced' = replaced \cup {c}
  /\ UNCHANGED <<cursor, batch>>

\* DataStore::store on a command that has storage
Store(c, p) ==
  /\ c \in DOMAIN buffers
  /\ buffers[c].seq < MaxSeq
  /\ buffers' = StoreIn(buffers, c, p)
  /\ unread' = [unread EXCEPT ![c] = Append(unread[c], p)]
  /\ UNCHANGED <<cursor, batch, replaced>>

\* The reader calls DataStore::read_since with its cursor
Fetch(c) ==
  /\ batch' = [batch EXCEPT ![c] = EntriesSince(buffers, c, cursor[c])]
  /\ cursor' = [cursor EXCEPT ![c] = SeqOf(buffers, c)]
  /\ unread' = [unread EXCEPT ![c] = <<>>]
  /\ replaced' = replaced \ {c}
  /\ UNCHANGED buffers

\* DataStore::clear_all
ClearAll ==
  /\ buffers' = ClearAllIn(buffers)
  /\ unread' = [c \in Commands |-> <<>>]
  /\ replaced' = replaced \cup DOMAIN buffers
  /\ UNCHANGED <<cursor, batch>>

Next ==
  \/ \E c \in Commands, cap \in Capacities : Register(c, cap)
  \/ \E c \in Commands, p \in Payloads : Store(c, p)
  \/ \E c \in Commands : Fetch(c)
  \/ ClearAll

Spec == Init /\ [][Next]_vars

-----------------------------------------------------------------------------
\* The last n elements of s, all of s when it is shorter
Suffix(s, n) ==
  LET k == IF n < Len(s) THEN n ELSE Len(s)
  IN  [i \in 1..k |-> s[Len(s) - k + i]]

(* The three ways of reading a ring agree: for every cursor, read_since      *)
(* returns exactly the last min(seq - cursor, len) entries of read_all, the  *)
(* cursor 0 returns all of it, and latest is its last entry - although each  *)
(* of the three computes slot indices with wrap-around arithmetic of its own.*)
ReadsAgree ==
  \A c \in DOMAIN buffers :
    LET r == buffers[c]
    IN  /\ Latest(r) = Suffix(ReadAll(r), 1)
        /\ \A since \in 0..r.seq : ReadSince(r, since) = Suffix(ReadAll(r), r.seq - since)

(* A reader whose ring was not reset since its last read gets, in order,     *)
(* every payload stored since then, or the newest `capacity` of them when    *)
(* the ring has wrapped past its cursor (read_since, storage.rs:5-7).        *)
NoGapWhileRegistered ==
  [][\A c \in Commands :
       (Fetch(c) /\ c \in DOMAIN buffers /\ c \notin replaced)
         => batch'[c] = Suffix(unread[c], buffers[c].capacity)]_vars

(* The same promise for every reader that passes back the returned cursor,   *)
(* as storage.rs:94-97 tells it to, without exempting re-registration and    *)
(* clear_all, which restart the sequence counter below the reader's cursor.  *)
NoGapEver ==
  [][\A c \in Commands :
       (Fetch(c) /\ c \in DOMAIN buffers)
         => batch'[c] = Suffix(unread[c], buffers[c].capacity)]_vars

-----------------------------------------------------------------------------
(* Refinement mapping to the abstract bounded log. *)
Kept == [c \in Commands |-> IF c \in DOMAIN buffers THEN ReadAll(buffers[c]) ELSE <<>>]
Limit == [c \in Commands |-> IF c \in DOMAIN buffers THEN buffers[c].capacity ELSE 0]
Total == [c \in Commands |-> SeqOf(buffers, c)]

Log == INSTANCE SampleLog WITH limit <- Limit, kept <- Kept, total <- Total

(* The rings implement the abstract log: registering, storing, reading and   *)
(* clearing through head/len/seq arithmetic is appending to, truncating and  *)
(* reading the tail of a sequence.                                           *)
ImplementsSampleLog == Log!Spec
=============================================================================
