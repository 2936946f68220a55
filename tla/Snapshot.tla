------------------------------ MODULE Snapshot ------------------------------
(***************************************************************************)
(* Restoring the store from a Raft snapshot.  A snapshot is the database   *)
(* file behind a header of little-endian words: the raw size, or the       *)
(* sentinel MaxUint64 followed by the size of a gzip stream.               *)
(* BytesFromSnapshot (src/utils/misc.go) decodes it.  It reads the file    *)
(* into a buffer whose capacity exceeds its length, and slices that buffer *)
(* without comparing the header with the length: a slice past the length   *)
(* but within the capacity reads the buffer's zeroed spare bytes, and one  *)
(* past the capacity, or with a negative bound, panics.                    *)
(*                                                                         *)
(* Bytes are 0..Base-1 and a word is W bytes (8 in the code); the sizes    *)
(* near Base^W stand for the sizes near 2^64.                              *)
(***************************************************************************)
EXTENDS Integers, Sequences, SequencesExt

CONSTANTS
    Base,       \* number of byte values
    W,          \* bytes per header word (unsafe.Sizeof(uint64))
    DbVals,     \* the database files the store can hold
    GzMagic,    \* first byte of a gzip member header
    MaxSlack,   \* the most spare capacity ReadAll leaves in its buffer
    MaxFaults   \* how many times the stored snapshot may be damaged

Byte == 0..(Base - 1)

ASSUME SnapshotAssumption ==
    /\ Base \in Nat /\ Base >= 2
    /\ W \in Nat \ {0}
    /\ DbVals \subseteq Seq(Byte)
    /\ GzMagic \in Byte \ {0}
    /\ MaxSlack \in Nat \ {0}
    /\ MaxFaults \in Nat

\* math.MaxUint64, the compression sentinel.
MaxWord == Base^W - 1

\* Mutant: the word read big-endian.
ReadUint64BigEndian(s) == FoldLeft(LAMBDA acc, b : acc * Base + b, 0, s)

\* ReadUint64: the little-endian value of a word.
ReadUint64(s) == FoldRight(LAMBDA b, acc : b + Base * acc, s, 0)

\* Mutant: each byte keeps the high bits of v.
WriteUint64Unmasked(v) == [i \in 1..W |-> v \div Base^(i - 1)]

\* WriteUint64: v as W little-endian bytes.
WriteUint64(v) == [i \in 1..W |-> (v \div Base^(i - 1)) % Base]

\* int64(u) and int64 addition: two's complement over W bytes.
Signed(u) == IF u >= Base^W \div 2 THEN u - Base^W ELSE u
AddInt64(a, b) == Signed((a + b) % Base^W)

\* A gzip member, abstracted: magic, length, data, checksum.  The reader
\* fails on a bad header, a short stream, a checksum mismatch, and on any
\* trailing bytes that do not form another header.
Checksum(d) == FoldSeq(LAMBDA a, b : a + b, 0, d) % Base
Gzip(d) == <<GzMagic, Len(d) % Base>> \o d \o <<Checksum(d)>>
Gunzip(s) ==
    IF /\ Len(s) >= 3
       /\ s[1] = GzMagic
       /\ Len(s) = s[2] + 3
       /\ s[Len(s)] = Checksum(SubSeq(s, 3, Len(s) - 1))
    THEN [res |-> "ok", data |-> SubSeq(s, 3, Len(s) - 1)]
    ELSE [res |-> "error", data |-> << >>]

\* Outcomes of BytesFromSnapshot.
Ok(d) == [res |-> "ok", data |-> d]
Failed == [res |-> "error", data |-> << >>]
Panicked == [res |-> "panic", data |-> << >>]

\* b[lo:hi] on a slice of capacity cap.
SliceOk(cap, lo, hi) == 0 <= lo /\ lo <= hi /\ hi <= cap

\* BytesFromSnapshot on the buffer ReadAll returned: the bytes b read, and
\* zeros up to the capacity cap.
BytesFromSnapshot(b, cap) ==
    LET mem == b \o [i \in 1..(cap - Len(b)) |-> 0]
        Slice(lo, hi) == SubSeq(mem, lo + 1, hi)
        sz0 == ReadUint64(Slice(0, W))
        compressed == sz0 = MaxWord
        offset == IF compressed THEN 2 * W ELSE W
        sz == IF compressed THEN ReadUint64(Slice(W, 2 * W)) ELSE sz0
        hi == AddInt64(offset, Signed(sz))
    IN  CASE ~SliceOk(cap, 0, W) -> Panicked
          [] compressed /\ ~SliceOk(cap, W, 2 * W) -> Panicked
          [] sz = 0 -> Ok(<< >>)
          [] ~SliceOk(cap, offset, hi) -> Panicked
          [] compressed -> Gunzip(Slice(offset, hi))
          [] OTHER -> Ok(Slice(offset, hi))

\* The snapshot the FSM persists (spec 4.1).
Encode(d, compress) ==
    IF compress THEN WriteUint64(MaxWord) \o WriteUint64(Len(Gzip(d))) \o Gzip(d)
                ELSE WriteUint64(Len(d)) \o d

-----------------------------------------------------------------------------
(* The FSM's store, its persisted snapshot, and the last restore.           *)

VARIABLES
    db,        \* the database file
    snap,      \* the persisted snapshot bytes
    taken,     \* the database the snapshot was taken of
    intact,    \* the snapshot is as Persist wrote it
    faults,    \* damages so far
    restored   \* the last restore: its outcome and what it should give

vars == <<db, snap, taken, intact, faults, restored>>

NoRestore == [res |-> "none", data |-> << >>, want |-> << >>, intact |-> TRUE]

TypeOK ==
    /\ db \in Seq(Byte)
    /\ snap \in Seq(Byte)
    /\ taken \in Seq(Byte)
    /\ intact \in BOOLEAN
    /\ faults \in 0..MaxFaults
    /\ restored \in [res : {"none", "ok", "error", "panic"}, data : Seq(Byte),
                     want : Seq(Byte), intact : BOOLEAN]

Init ==
    /\ db \in DbVals
    /\ \E compress \in BOOLEAN : snap = Encode(db, compress)
    /\ taken = db
    /\ intact = TRUE
    /\ faults = 0
    /\ restored = NoRestore

\* The application changes the database.
Write ==
    /\ \E d \in DbVals : db' = d
    /\ UNCHANGED <<snap, taken, intact, faults, restored>>

\* The FSM persists a snapshot, gzipped or not.
Persist ==
    /\ \E compress \in BOOLEAN : snap' = Encode(db, compress)
    /\ taken' = db
    /\ intact' = TRUE
    /\ UNCHANGED <<db, faults, restored>>

\* The stored snapshot is cut short or has a byte overwritten.
Damage ==
    /\ faults < MaxFaults
    /\ \/ \E k \in 0..(Len(snap) - 1) : snap' = SubSeq(snap, 1, k)
       \/ \E p \in 1..Len(snap) : snap' = [snap EXCEPT ![p] = Base - 1]
    /\ faults' = faults + 1
    /\ intact' = FALSE
    /\ UNCHANGED <<db, taken>>
    /\ UNCHANGED restored

\* Restore: ReadAll the snapshot (or fail reading it) and decode it; a
\* decoded database replaces the store.  A panic takes the node down, and
\* it restores again when it restarts.
Restore ==
    /\ \E out \in {Failed} \cup
                  {BytesFromSnapshot(snap, cap) :
                      cap \in (Len(snap) + 1)..(Len(snap) + MaxSlack)} :
          /\ restored' = [res |-> out.res, data |-> out.data, want |-> taken,
                          intact |-> intact]
          /\ db' = IF out.res = "ok" THEN out.data ELSE db
    /\ UNCHANGED <<snap, taken, intact, faults>>

Next == Write \/ Persist \/ Damage \/ Restore

Spec == Init /\ [][Next]_vars

-----------------------------------------------------------------------------
(* Properties.                                                             *)

\* Spec 8, Snapshot(restore(s)) == s: restoring an undamaged snapshot,
\* gzipped or not, whatever spare capacity ReadAll left, gives back exactly
\* the database it was taken of (or the read failed).
RoundTrip ==
    restored.intact /\ restored.res \in {"ok", "panic"} =>
        restored.res = "ok" /\ restored.data = restored.want

=============================================================================
