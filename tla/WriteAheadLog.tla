--------------------------- MODULE WriteAheadLog ---------------------------
(***************************************************************************)
(* wal.InMemoryLogger: an append-only slice of entries, the number of the  *)
(* last entry and the number of the last committed entry.  Every method    *)
(* holds the logger's mutex from its first read to its last write, so each *)
(* is one action.  Replay computes its answer from a header of the slice   *)
(* taken under the mutex; entries are never overwritten in place, so its   *)
(* answer is the one of the moment it held the mutex.                      *)
(***************************************************************************)
EXTENDS Integers, Sequences

CONSTANTS Records,      \* what an entry says: task, target state, data
          MaxSequence   \* bound: the longest log explored

ASSUME MaxSequenceAssumption == MaxSequence \in Nat

VARIABLES entries,      \* the slice of entries
          sequence,     \* the number of the last entry appended
          committed,    \* the number passed to the last Checkpoint
          closed        \* history: Close has been called; no code reads it

walVars == <<entries, sequence, committed, closed>>

Entry == [seq : 1..MaxSequence, rec : Records]

WalTypeOK ==
    /\ entries \in Seq(Entry)
    /\ sequence \in 0..MaxSequence
    /\ committed \in 0..MaxSequence
    /\ closed \in BOOLEAN

WalInit ==
    /\ entries = <<>>
    /\ sequence = 0
    /\ committed = 0
    /\ closed = FALSE

MutantAppendBeforeNumbering(rec) ==
    /\ sequence < MaxSequence
    /\ sequence' = sequence + 1
    /\ entries' = <<[seq |-> sequence + 1, rec |-> rec]>> \o entries
    /\ UNCHANGED <<committed, closed>>

\* Append: number the entry, then add it at the end.  The three checks for
\* empty fields are the callers' guards: Records holds complete entries only.
AppendEntry(rec) ==
    /\ sequence < MaxSequence
    /\ sequence' = sequence + 1
    /\ entries' = Append(entries, [seq |-> sequence', rec |-> rec])
    /\ UNCHANGED <<committed, closed>>

\* Replay: the slice entries[committed:].
Replay ==
    IF committed >= Len(entries)
      THEN <<>>
      ELSE SubSeq(entries, committed + 1, Len(entries))

MutantCheckpointUnchecked(seq) ==
    /\ committed' = seq
    /\ UNCHANGED <<entries, sequence, closed>>

MutantCheckpointNext(seq) ==
    /\ seq <= sequence
    /\ committed' = seq + 1
    /\ UNCHANGED <<entries, sequence, closed>>

\* Checkpoint: refuses a number that was not assigned yet, accepts any other,
\* smaller ones than the last included.
Checkpoint(seq) ==
    /\ seq <= sequence
    /\ committed' = seq
    /\ UNCHANGED <<entries, sequence, closed>>

\* Close: drops the entries and keeps both counters.  It can be called again.
Close ==
    /\ entries' = <<>>
    /\ closed' = TRUE
    /\ UNCHANGED <<sequence, committed>>

\* Callers may pass any number to Checkpoint.
WalNext ==
    \/ \E rec \in Records : AppendEntry(rec)
    \/ \E seq \in 0..MaxSequence : Checkpoint(seq)
    \/ Close

WalSpec == WalInit /\ [][WalNext]_walVars

-----------------------------------------------------------------------------

\* The entries held are numbered without a gap and end with the last number
\* handed out by Append, also after Close dropped the older ones.
SequencesContiguous ==
    \A i \in DOMAIN entries : entries[i].seq = sequence - Len(entries) + i

\* The contract of Checkpoint and Replay ("Replay returns all uncommitted
\* entries in order"): on an open log Replay returns exactly the entries
\* numbered committed + 1 to sequence, in order.  The code finds them by
\* position in the slice, so this relates positions to numbers.
ReplayExact ==
    ~closed =>
      /\ Len(Replay) = sequence - committed
      /\ \A i \in DOMAIN Replay : Replay[i].seq = committed + i
=============================================================================
