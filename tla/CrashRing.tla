----------------------------- MODULE CrashRing ------------------------------
(***************************************************************************)
(* One crash-dump data source of crashdump.c: a ring of EntriesCount       *)
(* fixed-size entries in non-paged memory, a snapshot buffer of the same   *)
(* size, and the bug-check callbacks that linearise the ring into the      *)
(* snapshot and, for the secondary dump, encrypt that snapshot in place    *)
(* with the source's key.                                                  *)
(*                                                                         *)
(* Requests and callbacks hold CrashDumpLock.  A request that changes one  *)
(* field is one step, and so is a capture, every prefix of which leaves a  *)
(* whole log; a write passes through states in which the ring is no log,   *)
(* and takes a step per field.  The bug check may come at any step.  It    *)
(* stops every other thread, so a callback that finds the lock held never  *)
(* gets it.                                                                *)
(***************************************************************************)
EXTENDS Naturals, Sequences

CONSTANTS
  Record,     (* what a client writes into an entry                        *)
  Zero,       (* an entry of zeroes                                        *)
  N           (* EntriesCount                                              *)

ASSUME RingAssumption == N \in Nat \ {0} /\ Zero \notin Record

VARIABLES
  ring,       (* RingBufferData                                            *)
  current,    (* CurrentRingBufferIndex                                    *)
  valid,      (* ValidEntryCount                                           *)
  stage,      (* CrashDumpLock: "free", or what the write holding it did   *)
  record,     (* the Buffer of that write                                  *)
  snapshot,   (* BugCheckSnapshotBuffer, deciphered                        *)
  prepared,   (* BugCheckBufferPointer # NULL                              *)
  offered,    (* the system holds the buffer the secondary callback gave it*)
  xored,      (* the snapshot is encrypted                                 *)
  passed,     (* history: it was XORed since a callback last linearised it *)
  crashed,    (* the bug check has begun: nothing but its callbacks runs   *)
  reply,      (* what the last read or capture returned                    *)
  dump,       (* the records in what the last callback gave to the system  *)
  before      (* history: the log when the last write began                *)

ringVars == <<ring, current, valid, stage, record, reply, before>>
bugCheckVars == <<snapshot, prepared, offered, xored, passed, dump>>
vars == <<ringVars, bugCheckVars, crashed>>

Slots == 0 .. N - 1
Stages == {"free", "entry", "index"}

(* The index of the oldest entry when v entries are valid.                 *)
OldestIndex(v) == (current + N - v) % N

(* The entries in the order that successive reads return them.             *)
Contents == [k \in 1 .. valid |-> ring[OldestIndex(valid - (k - 1))]]

(* What the ring holds for its clients: a write counts when it is over.    *)
CommittedLog == IF stage = "free" THEN Contents ELSE before

---------------------------------------------------------------------------
(* CrashDump_DataSourceWriteInternal, ReadInternal and CaptureInternal.    *)

(* The entry is zeroed and filled, ...                                     *)
WriteEntry(r) ==
  /\ ~crashed
  /\ stage = "free"
  /\ ring' = [ring EXCEPT ![current] = r]
  /\ stage' = "entry"
  /\ record' = r
  /\ before' = Contents
  /\ UNCHANGED <<current, valid, reply, bugCheckVars, crashed>>

(* ... the index moves past it, ...                                        *)
WriteIndex ==
  /\ ~crashed
  /\ stage = "entry"
  /\ current' = (current + 1) % N
  /\ stage' = "index"
  /\ UNCHANGED <<ring, valid, record, reply, before, bugCheckVars, crashed>>

(* Defect: entries are counted beyond the capacity.                        *)
WriteCountUncapped ==
  /\ ~crashed
  /\ stage = "index"
  /\ valid' = valid + 1
  /\ stage' = "free"
  /\ UNCHANGED <<ring, current, record, reply, before, bugCheckVars, crashed>>

(* ... and the count grows until the ring is full.                         *)
WriteCount ==
  /\ ~crashed
  /\ stage = "index"
  /\ valid' = IF valid < N THEN valid + 1 ELSE valid
  /\ stage' = "free"
  /\ UNCHANGED <<ring, current, record, reply, before, bugCheckVars, crashed>>

Read ==
  /\ ~crashed
  /\ stage = "free"
  /\ valid # 0
  /\ reply' = <<ring[OldestIndex(valid)]>>
  /\ valid' = valid - 1
  /\ UNCHANGED <<ring, current, stage, record, before, bugCheckVars, crashed>>

(* The caller's buffer holds the whole ring, so every valid entry is read. *)
Capture ==
  /\ ~crashed
  /\ stage = "free"
  /\ reply' = Contents
  /\ valid' = 0
  /\ UNCHANGED <<ring, current, stage, record, before, bugCheckVars, crashed>>

---------------------------------------------------------------------------
(* The bug check.                                                          *)

Crash ==
  /\ ~crashed
  /\ crashed' = TRUE
  /\ UNCHANGED <<ringVars, bugCheckVars>>

(* Defect: the ring is copied as it lies.                                  *)
LinearisedUnrotated == [i \in Slots |-> IF i < valid THEN ring[i] ELSE Zero]

(* CrashDump_PrepareBugCheckSnapshot: the snapshot is zeroed and the valid *)
(* entries are copied to its start, oldest first.                          *)
Linearised ==
  LET oldest == (current + N - valid) % N IN
  [i \in Slots |-> IF i < valid THEN ring[(oldest + i) % N] ELSE Zero]

(* Defect: a snapshot once prepared is taken as it is.                     *)
PrepareOnce ==
  /\ snapshot' = IF prepared THEN snapshot ELSE Linearised
  /\ prepared' = TRUE
  /\ xored' = xored

Prepare ==
  /\ snapshot' = Linearised
  /\ prepared' = TRUE
  /\ xored' = FALSE

(* The records at the start of a linearised buffer.                        *)
RecordsOf(buffer) == [k \in 1 .. valid |-> buffer[k - 1]]

(* Defect: the callback does without the lock.                             *)
SecondaryDumpOfferUnlocked ==
  /\ crashed
  /\ Prepare
  /\ offered' = TRUE
  /\ passed' = FALSE
  /\ dump' = RecordsOf(snapshot')
  /\ UNCHANGED <<ringVars, crashed>>

(* The secondary-dump callback of the source, called without a buffer:     *)
(* it offers the snapshot.                                                 *)
SecondaryDumpOffer ==
  /\ crashed
  /\ stage = "free"
  /\ Prepare
  /\ offered' = TRUE
  /\ passed' = FALSE
  /\ dump' = RecordsOf(snapshot')
  /\ UNCHANGED <<ringVars, crashed>>

(* Called again with a buffer the system was offered, it XORs the prepared *)
(* snapshot in place and offers it once more.  It does not remember having *)
(* done so: every further call is another pass.  (What it would XOR is the *)
(* ring itself if nothing had been prepared; the system, whose calls these *)
(* are, hands back only what it was given.)                                *)
SecondaryDumpEncrypt ==
  /\ crashed
  /\ stage = "free"
  /\ offered
  /\ prepared
  /\ xored' = ~xored
  /\ passed' = TRUE
  /\ UNCHANGED <<ringVars, snapshot, prepared, offered, dump, crashed>>

(* The additional secondary callback and the triage callback linearise the *)
(* same source again, whatever state its snapshot is in.                   *)
AdditionalOrTriageDump ==
  /\ crashed
  /\ stage = "free"
  /\ Prepare
  /\ passed' = FALSE
  /\ dump' = RecordsOf(snapshot')
  /\ UNCHANGED <<ringVars, offered, crashed>>

---------------------------------------------------------------------------
(* CrashDump_DataSourceCreateInternal: both buffers zeroed.                *)
Init ==
  /\ ring = [i \in Slots |-> Zero]
  /\ current = 0
  /\ valid = 0
  /\ stage = "free"
  /\ record = Zero
  /\ snapshot = [i \in Slots |-> Zero]
  /\ prepared = FALSE
  /\ offered = FALSE
  /\ xored = FALSE
  /\ passed = FALSE
  /\ crashed = FALSE
  /\ reply = <<>>
  /\ dump = <<>>
  /\ before = <<>>

Next ==
  \/ \E r \in Record : WriteEntry(r)
  \/ WriteIndex
  \/ WriteCount
  \/ Read
  \/ Capture
  \/ Crash
  \/ SecondaryDumpOffer
  \/ SecondaryDumpEncrypt
  \/ AdditionalOrTriageDump

Spec == Init /\ [][Next]_vars

---------------------------------------------------------------------------
(* The type of every variable, with the bounds that keep an index inside   *)
(* the ring.                                                               *)
TypeOK ==
  /\ ring \in [Slots -> Record \cup {Zero}]
  /\ current \in Slots
  /\ valid \in 0 .. N
  /\ stage \in Stages
  /\ record \in Record \cup {Zero}
  /\ snapshot \in [Slots -> Record \cup {Zero}]
  /\ prepared \in BOOLEAN
  /\ offered \in BOOLEAN
  /\ xored \in BOOLEAN
  /\ passed \in BOOLEAN
  /\ crashed \in BOOLEAN
  /\ reply \in Seq(Record \cup {Zero})
  /\ dump \in Seq(Record \cup {Zero})
  /\ before \in Seq(Record \cup {Zero})

(* The ring implements the bounded log: a write drops the oldest record    *)
(* when full, reads and captures return records in the order written, and  *)
(* the bug check, whenever it comes, gets the records of the completed     *)
(* writes, in order, or nothing.                                           *)
Log == INSTANCE BoundedLog WITH Capacity <- N, log <- CommittedLog
RefinesLog == Log!Spec

(* While the snapshot is plain it is the log followed by zeroes, however   *)
(* often and in whatever order the callbacks ran before.                   *)
SnapshotIsLog ==
  prepared => snapshot = [i \in Slots |-> IF i < valid THEN Contents[i + 1] ELSE Zero]

(* The first pass after any callback linearised the ring leaves cipher:    *)
(* whatever passes went before, and whichever callback of the source ran   *)
(* since, none of them makes that pass undo another.  Nothing in the code  *)
(* says as much of a repeated pass, which turns the snapshot plain again.  *)
FirstPassEncrypts == [][SecondaryDumpEncrypt /\ ~passed => ~xored /\ xored']_vars

---------------------------------------------------------------------------
(* The inductive invariant behind the properties above.                    *)

(* The log a ring, its next index and its count stand for.                 *)
LogOf(rg, c, v) == [k \in 1 .. v |-> rg[(c + N - (v - (k - 1))) % N]]

(* A write that has begun will have added its record when it is over.      *)
WriteInv ==
  LET counted == IF valid < N THEN valid + 1 ELSE valid
      added   == Log!Push(before, record, N)
  IN /\ stage = "entry" => LogOf(ring, (current + 1) % N, counted) = added
     /\ stage = "index" => LogOf(ring, current, counted) = added
     /\ stage # "free" => record \in Record

(* The log holds records only; nothing is prepared before the bug check or *)
(* during a write; what the system may hand back is prepared; and a        *)
(* snapshot is plain until a pass goes over it.                            *)
RingInv ==
  /\ TypeOK
  /\ CommittedLog \in Seq(Record)
  /\ WriteInv
  /\ SnapshotIsLog
  /\ prepared => crashed /\ stage = "free"
  /\ offered => prepared
  /\ ~passed => ~xored
=============================================================================
