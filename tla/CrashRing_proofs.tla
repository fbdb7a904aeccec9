-------------------------- MODULE CrashRing_proofs --------------------------
(***************************************************************************)
(* Proofs about CrashRing for every record set and every capacity: its     *)
(* type, that only written entries are counted, that the snapshot is the   *)
(* log, that the first pass over a snapshot encrypts it, and that the ring *)
(* implements the bounded log.                                             *)
(***************************************************************************)
EXTENDS CrashRing, SequenceTheorems, TLAPS

USE RingAssumption

---------------------------------------------------------------------------
(* Arithmetic of the wrap-around index.                                    *)

LEMMA ModSmall ==
  ASSUME NEW a \in Nat, NEW n \in Nat \ {0}, a < n
  PROVE  a % n = a
OBVIOUS

LEMMA ModWrap ==
  ASSUME NEW a \in Nat, NEW n \in Nat \ {0}, n <= a, a < n + n
  PROVE  a % n = a - n
OBVIOUS

(* v entries back from index c, without the modulus.                       *)
Back(c, v) == IF v <= c THEN c - v ELSE c + N - v

LEMMA IndexBack ==
  ASSUME NEW c \in Slots, NEW v \in 1 .. N
  PROVE  (c + N - v) % N = Back(c, v) /\ Back(c, v) \in Slots
<1>1. c \in Nat /\ v \in Nat /\ N \in Nat /\ c < N /\ v <= N /\ 1 <= v
  BY DEF Slots
<1>2. CASE v <= c
  <2>1. c + N - v \in Nat /\ N <= c + N - v /\ c + N - v < N + N
    BY <1>1, <1>2
  <2>2. (c + N - v) % N = (c + N - v) - N
    BY <2>1, ModWrap, <1>1
  <2> QED
    BY <2>2, <1>1, <1>2 DEF Back, Slots
<1>3. CASE ~(v <= c)
  <2>1. c + N - v \in Nat /\ c + N - v < N
    BY <1>1, <1>3
  <2>2. (c + N - v) % N = c + N - v
    BY <2>1, ModSmall, <1>1
  <2> QED
    BY <2>2, <1>1, <1>3 DEF Back, Slots
<1> QED
  BY <1>2, <1>3

(* The index after c.                                                      *)
LEMMA IndexNext ==
  ASSUME NEW c \in Slots
  PROVE  (c + 1) % N = IF c + 1 = N THEN 0 ELSE c + 1
<1>1. c \in Nat /\ N \in Nat /\ c < N
  BY DEF Slots
<1>2. CASE c + 1 = N
  <2>1. c + 1 \in Nat /\ N <= c + 1 /\ c + 1 < N + N
    BY <1>1, <1>2
  <2>2. (c + 1) % N = (c + 1) - N
    BY <2>1, ModWrap
  <2> QED
    BY <2>2, <1>1, <1>2
<1>3. CASE c + 1 # N
  BY <1>1, <1>3, ModSmall
<1> QED
  BY <1>2, <1>3

(* Seen from the next index everything is one entry further back.          *)
LEMMA BackFromNext ==
  ASSUME NEW c \in Slots, NEW v \in 1 .. N, NEW d, d = (c + 1) % N
  PROVE  /\ d \in Slots
         /\ v = 1 => Back(d, v) = c
         /\ v > 1 => Back(d, v) = Back(c, v - 1) /\ Back(d, v) # c
BY IndexNext DEF Slots, Back

(* Going forward again from the oldest of v entries.                       *)
LEMMA ForwardFromOldest ==
  ASSUME NEW c \in Slots, NEW v \in 1 .. N, NEW i \in 0 .. v - 1
  PROVE  (((c + N - v) % N) + i) % N = Back(c, v - i)
<1> DEFINE b == Back(c, v)
<1>1. (c + N - v) % N = b /\ b \in Slots
  BY IndexBack
<1>2. b \in Nat /\ N \in Nat /\ c \in Nat /\ v \in Nat /\ i \in Nat
      /\ b < N /\ i < v /\ v <= N /\ c < N /\ b + i \in Nat
  BY <1>1 DEF Slots
<1>3. CASE b + i < N
  <2>1. (b + i) % N = b + i
    BY <1>2, <1>3, ModSmall
  <2> QED
    BY <2>1, <1>1, <1>2, <1>3 DEF Back
<1>4. CASE N <= b + i
  <2>1. b + i < N + N
    BY <1>2
  <2>2. (b + i) % N = (b + i) - N
    BY <1>2, <1>4, <2>1, ModWrap
  <2> QED
    BY <2>2, <1>1, <1>2, <1>4 DEF Back
<1> QED
  BY <1>2, <1>3, <1>4

---------------------------------------------------------------------------
(* The log a ring holds.                                                   *)

LEMMA LogAt ==
  ASSUME NEW rg \in [Slots -> Record \cup {Zero}], NEW c \in Slots, NEW v \in 0 .. N
  PROVE  /\ LogOf(rg, c, v) = [k \in 1 .. v |-> rg[Back(c, v - (k - 1))]]
         /\ LogOf(rg, c, v) \in Seq(Record \cup {Zero})
         /\ Len(LogOf(rg, c, v)) = v
<1>1. v \in Nat /\ v <= N /\ N \in Nat
  OBVIOUS
<1>2. ASSUME NEW k \in 1 .. v
      PROVE  /\ (c + N - (v - (k - 1))) % N = Back(c, v - (k - 1))
             /\ Back(c, v - (k - 1)) \in Slots
  <2>1. v - (k - 1) \in 1 .. N
    BY <1>1
  <2> QED
    BY <2>1, IndexBack
<1>3. LogOf(rg, c, v) = [k \in 1 .. v |-> rg[Back(c, v - (k - 1))]]
  BY <1>2 DEF LogOf
<1>4. LogOf(rg, c, v) \in [1 .. v -> Record \cup {Zero}]
  BY <1>2, <1>3
<1>5. LogOf(rg, c, v) \in Seq(Record \cup {Zero})
  BY <1>1, <1>4, SeqDef
<1>6. DOMAIN LogOf(rg, c, v) = 1 .. v
  BY <1>4
<1>7. Len(LogOf(rg, c, v)) = v
  BY <1>1, <1>5, <1>6, LenProperties, SMT
<1> QED
  BY <1>3, <1>5, <1>7

LEMMA ContentsIsLogOf ==
  /\ Contents = LogOf(ring, current, valid)
  /\ Contents' = LogOf(ring', current', valid')
BY DEF Contents, OldestIndex, LogOf

LEMMA ContentsAt ==
  ASSUME TypeOK
  PROVE  /\ Contents = [k \in 1 .. valid |-> ring[Back(current, valid - (k - 1))]]
         /\ Contents \in Seq(Record \cup {Zero})
         /\ Len(Contents) = valid
<1>1. ring \in [Slots -> Record \cup {Zero}] /\ current \in Slots /\ valid \in 0 .. N
  BY DEF TypeOK
<1> DEFINE l == LogOf(ring, current, valid)
<1>2. /\ l = [k \in 1 .. valid |-> ring[Back(current, valid - (k - 1))]]
      /\ l \in Seq(Record \cup {Zero})
      /\ Len(l) = valid
  BY <1>1, LogAt
<1> QED
  BY <1>2, ContentsIsLogOf

LEMMA AppendIs ==
  ASSUME NEW S, NEW q \in Seq(S), NEW e \in S
  PROVE  Append(q, e) = [k \in 1 .. Len(q) + 1 |-> IF k = Len(q) + 1 THEN e ELSE q[k]]
<1> DEFINE a == Append(q, e)
<1>1. /\ a \in Seq(S) /\ Len(a) = Len(q) + 1
      /\ \A i \in 1 .. Len(q) : a[i] = q[i]
      /\ a[Len(q) + 1] = e
      /\ Len(q) \in Nat
  BY AppendProperties, LenProperties
<1>2. a = [k \in 1 .. Len(a) |-> a[k]]
  BY <1>1, LenProperties
<1> HIDE DEF a
<1>3. a = [k \in 1 .. Len(q) + 1 |-> IF k = Len(q) + 1 THEN e ELSE q[k]]
  BY <1>1, <1>2
<1> QED
  BY <1>3 DEF a

---------------------------------------------------------------------------
(* What each operation does to the log.                                    *)

(* Filling the next entry and moving the index and the count is a push.    *)
LEMMA WritePushes ==
  ASSUME NEW rg \in [Slots -> Record \cup {Zero}], NEW c \in Slots, NEW n \in 0 .. N,
         NEW r \in Record
  PROVE  LogOf([rg EXCEPT ![c] = r], (c + 1) % N, IF n < N THEN n + 1 ELSE n)
           = Log!Push(LogOf(rg, c, n), r, N)
<1> DEFINE C == LogOf(rg, c, n)
           m == IF n < N THEN n + 1 ELSE n
           d == (c + 1) % N
           filled == [rg EXCEPT ![c] = r]
           after == LogOf(filled, d, m)
<1>1. /\ n \in 0 .. N /\ N \in Nat
      /\ C = [k \in 1 .. n |-> rg[Back(c, n - (k - 1))]]
      /\ C \in Seq(Record \cup {Zero}) /\ Len(C) = n
  BY LogAt
<1>2. m \in 1 .. N /\ d \in Slots /\ filled \in [Slots -> Record \cup {Zero}]
  BY <1>1, IndexNext DEF Slots
<1>3. after = [k \in 1 .. m |-> filled[Back(d, m - (k - 1))]]
  <2> HIDE DEF m, d, filled
  <2> QED
    BY <1>2, LogAt
<1>4. /\ filled = [rg EXCEPT ![c] = r]
      /\ d = (c + 1) % N
      /\ m = IF n < N THEN n + 1 ELSE n
  OBVIOUS
<1> SUFFICES after = Log!Push(C, r, N)
  OBVIOUS
<1> HIDE DEF C, m, d, filled, after
<1>5. m \in 1 .. N
  BY <1>1, <1>4
<1>6. filled[Back(d, 1)] = r
  BY <1>1, <1>4, BackFromNext
<1>7. ASSUME NEW v \in 2 .. m
      PROVE  filled[Back(d, v)] = rg[Back(c, v - 1)]
  <2>1. v \in 1 .. N /\ v - 1 \in 1 .. N /\ v > 1
    BY <1>5, <1>1
  <2>2. Back(d, v) = Back(c, v - 1) /\ Back(d, v) # c
    BY <2>1, <1>1, <1>4, BackFromNext
  <2>3. Back(c, v - 1) \in Slots
    BY <2>1, <1>1, IndexBack
  <2> QED
    BY <2>2, <2>3, <1>4
<1>8. CASE n < N
  <2>1. m = n + 1
    BY <1>4, <1>8
  <2>2. Append(C, r) = [k \in 1 .. n + 1 |-> IF k = n + 1 THEN r ELSE C[k]]
    BY <1>1, AppendIs
  <2>3. ASSUME NEW k \in 1 .. n + 1
        PROVE  filled[Back(d, m - (k - 1))] = IF k = n + 1 THEN r ELSE C[k]
    <3>1. CASE k = n + 1
      <4>1. m - (k - 1) = 1
        BY <3>1, <2>1, <1>1
      <4> QED
        BY <3>1, <4>1, <1>6
    <3>2. CASE k # n + 1
      <4>1. k \in 1 .. n /\ m - (k - 1) \in 2 .. m
        BY <3>2, <2>1, <1>1
      <4>2. (m - (k - 1)) - 1 = n - (k - 1)
        BY <2>1, <1>1, <4>1
      <4>3. filled[Back(d, m - (k - 1))] = rg[Back(c, n - (k - 1))]
        BY <4>1, <4>2, <1>7
      <4>4. C[k] = rg[Back(c, n - (k - 1))]
        BY <1>1, <4>1
      <4> QED
        BY <4>3, <4>4, <3>2
    <3> QED
      BY <3>1, <3>2
  <2>4. after = Append(C, r)
    BY <1>3, <2>1, <2>2, <2>3
  <2> QED
    BY <2>4, <1>1, <1>8 DEF Log!Push
<1>9. CASE ~(n < N)
  <2>1. m = n /\ n = N /\ N \in Nat \ {0}
    BY <1>1, <1>4, <1>9
  <2>2. C # <<>>
    BY <1>1, <2>1
  <2>3. /\ Tail(C) \in Seq(Record \cup {Zero})
        /\ Len(Tail(C)) = n - 1
        /\ \A k \in 1 .. n - 1 : Tail(C)[k] = C[k + 1]
    BY <1>1, <2>1, <2>2, HeadTailProperties
  <2>4. Append(Tail(C), r) = [k \in 1 .. n |-> IF k = n THEN r ELSE Tail(C)[k]]
    <3>1. (n - 1) + 1 = n
      BY <2>1
    <3>2. Append(Tail(C), r)
            = [k \in 1 .. Len(Tail(C)) + 1 |->
                 IF k = Len(Tail(C)) + 1 THEN r ELSE Tail(C)[k]]
      <4> DEFINE q == Tail(C)
      <4>1. q \in Seq(Record \cup {Zero})
        BY <2>3
      <4> HIDE DEF q
      <4>2. Append(q, r) = [k \in 1 .. Len(q) + 1 |-> IF k = Len(q) + 1 THEN r ELSE q[k]]
        BY <4>1, AppendIs
      <4> QED
        BY <4>2 DEF q
    <3> QED
      BY <2>3, <3>1, <3>2
  <2>5. ASSUME NEW k \in 1 .. n
        PROVE  filled[Back(d, m - (k - 1))] = IF k = n THEN r ELSE Tail(C)[k]
    <3>1. CASE k = n
      BY <3>1, <2>1, <1>1, <1>6
    <3>2. CASE k # n
      <4>1. k \in 1 .. n - 1 /\ k + 1 \in 1 .. n /\ m - (k - 1) \in 2 .. m
        BY <3>2, <2>1
      <4>2. (m - (k - 1)) - 1 = n - ((k + 1) - 1)
        BY <2>1, <4>1
      <4>3. filled[Back(d, m - (k - 1))] = rg[Back(c, n - ((k + 1) - 1))]
        BY <4>1, <4>2, <1>7
      <4>4. Tail(C)[k] = rg[Back(c, n - ((k + 1) - 1))]
        BY <1>1, <4>1, <2>3
      <4> QED
        BY <4>3, <4>4, <3>2
    <3> QED
      BY <3>1, <3>2
  <2>6. after = Append(Tail(C), r)
    BY <1>3, <2>1, <2>4, <2>5
  <2> QED
    BY <2>6, <1>1, <1>9 DEF Log!Push
<1> QED
  BY <1>8, <1>9

LEMMA ReadPops ==
  ASSUME TypeOK, Read
  PROVE  /\ TypeOK'
         /\ Contents # <<>>
         /\ reply' = <<Head(Contents)>>
         /\ Contents' = Tail(Contents)
<1> DEFINE C == Contents
           n == valid
<1>1. /\ n \in 1 .. N /\ N \in Nat /\ current \in Slots
      /\ ring \in [Slots -> Record \cup {Zero}]
      /\ C = [k \in 1 .. n |-> ring[Back(current, n - (k - 1))]]
      /\ C \in Seq(Record \cup {Zero}) /\ Len(C) = n
  BY ContentsAt DEF TypeOK, Read
<1>2. valid' = n - 1 /\ current' = current /\ ring' = ring
  BY DEF Read
<1>3. C # <<>> /\ Head(C) = C[1] /\ C[1] \in Record \cup {Zero}
  <2>1. C # <<>>
    BY <1>1
  <2>2. Head(C) = C[1]
    BY <1>1, <2>1
  <2>3. C[1] \in Record \cup {Zero}
    <3>1. C \in [1 .. n -> Record \cup {Zero}] /\ 1 \in 1 .. n
      BY <1>1, LenProperties
    <3> HIDE DEF C
    <3> QED
      BY <3>1
  <2> QED
    BY <2>1, <2>2, <2>3
<1>4. reply' = <<C[1]>>
  <2>1. OldestIndex(n) = Back(current, n) /\ n - (1 - 1) = n
    BY <1>1, IndexBack DEF OldestIndex
  <2>2. C[1] = ring[Back(current, n)]
    BY <2>1, <1>1
  <2> QED
    BY <2>1, <2>2 DEF Read
<1>5. TypeOK'
  <2>1. valid' \in 0 .. N
    BY <1>1, <1>2
  <2>2. reply' \in Seq(Record \cup {Zero})
    BY <1>3, <1>4
  <2> QED
    BY <2>1, <2>2, <1>2 DEF TypeOK, Read, bugCheckVars
<1>6. Contents' = [k \in 1 .. n - 1 |-> ring[Back(current, (n - 1) - (k - 1))]]
  <2>1. Contents' = LogOf(ring, current, n - 1)
    BY <1>2, ContentsIsLogOf
  <2>2. n - 1 \in 0 .. N
    BY <1>1
  <2> QED
    BY <2>1, <2>2, <1>1, LogAt
<1>7. ASSUME NEW k \in 1 .. n - 1
      PROVE  ring[Back(current, (n - 1) - (k - 1))] = Tail(C)[k]
  <2>1. Tail(C)[k] = C[k + 1] /\ k + 1 \in 1 .. n
    BY <1>1, <1>3, HeadTailProperties
  <2>2. (n - 1) - (k - 1) = n - ((k + 1) - 1)
    BY <1>1
  <2> QED
    BY <2>1, <2>2, <1>1
<1>8. Tail(C) \in Seq(Record \cup {Zero}) /\ Len(Tail(C)) = n - 1
  BY <1>1, <1>3, HeadTailProperties
<1>9. Tail(C) = [k \in 1 .. n - 1 |-> Tail(C)[k]]
  BY <1>1, <1>8, LenProperties
<1>10. Contents' = Tail(C)
  BY <1>6, <1>7, <1>9
<1> QED
  BY <1>3, <1>4, <1>5, <1>10

LEMMA CaptureEmpties ==
  ASSUME TypeOK, Capture
  PROVE  TypeOK' /\ Contents' = <<>>
<1>1. Contents \in Seq(Record \cup {Zero})
  BY ContentsAt
<1>2. TypeOK'
  BY <1>1 DEF TypeOK, Capture, bugCheckVars
<1>3. Contents' \in Seq(Record \cup {Zero}) /\ Len(Contents') = 0
  BY <1>2, LogAt, ContentsIsLogOf DEF TypeOK, Capture
<1> QED
  BY <1>2, <1>3, EmptySeq

LEMMA LinearisedIsLog ==
  ASSUME TypeOK
  PROVE  /\ Linearised = [i \in Slots |-> IF i < valid THEN Contents[i + 1] ELSE Zero]
         /\ Linearised \in [Slots -> Record \cup {Zero}]
<1>1. /\ valid \in 0 .. N /\ N \in Nat /\ current \in Slots
      /\ ring \in [Slots -> Record \cup {Zero}]
      /\ Contents = [k \in 1 .. valid |-> ring[Back(current, valid - (k - 1))]]
  BY ContentsAt DEF TypeOK
<1>2. ASSUME NEW i \in Slots, i < valid
      PROVE  /\ ring[(((current + N - valid) % N) + i) % N] = Contents[i + 1]
             /\ Contents[i + 1] \in Record \cup {Zero}
  <2>1. /\ i \in 0 .. valid - 1 /\ i + 1 \in 1 .. valid /\ valid \in 1 .. N
        /\ valid - i \in 1 .. N /\ valid - ((i + 1) - 1) = valid - i
    BY <1>1, <1>2 DEF Slots
  <2>2. (((current + N - valid) % N) + i) % N = Back(current, valid - i)
    BY <1>1, <2>1, ForwardFromOldest
  <2>3. Back(current, valid - i) \in Slots
    BY <1>1, <2>1, IndexBack
  <2> QED
    BY <1>1, <2>1, <2>2, <2>3
<1> QED
  BY <1>2 DEF Linearised

(* What a callback gives the system is the log.                            *)
LEMMA PreparedDump ==
  ASSUME TypeOK, Prepare, UNCHANGED ringVars, dump' = RecordsOf(snapshot')
  PROVE  /\ dump' = Contents
         /\ Contents' = Contents
         /\ snapshot' = [i \in Slots |-> IF i < valid THEN Contents[i + 1] ELSE Zero]
         /\ snapshot' \in [Slots -> Record \cup {Zero}]
         /\ dump' \in Seq(Record \cup {Zero})
<1>1. snapshot' = Linearised
  BY DEF Prepare
<1>2. /\ Contents \in Seq(Record \cup {Zero})
      /\ Contents = [k \in 1 .. valid |-> Contents[k]]
      /\ valid \in 0 .. N /\ N \in Nat
  BY ContentsAt, LenProperties DEF TypeOK
<1>3. ASSUME NEW k \in 1 .. valid
      PROVE  snapshot'[k - 1] = Contents[k]
  <2>1. k - 1 \in Slots /\ k - 1 < valid /\ (k - 1) + 1 = k
    BY <1>2 DEF Slots
  <2> QED
    BY <1>1, <2>1, LinearisedIsLog
<1>4. dump' = Contents
  BY <1>2, <1>3 DEF RecordsOf
<1>5. Contents' = Contents
  BY DEF Contents, OldestIndex, ringVars
<1> QED
  BY <1>1, <1>2, <1>4, <1>5, LinearisedIsLog

(* The steps of a write leave the log what it was, and its last step adds  *)
(* the record.                                                             *)
LEMMA WriteSteps ==
  ASSUME RingInv
  PROVE  /\ \A r \in Record : WriteEntry(r) => CommittedLog' = CommittedLog
         /\ WriteIndex => CommittedLog' = CommittedLog
         /\ WriteCount => CommittedLog' = Log!Push(CommittedLog, record, N)
<1>1. ASSUME NEW r \in Record, WriteEntry(r) PROVE CommittedLog' = CommittedLog
  <2>1. CommittedLog = Contents
    BY <1>1 DEF WriteEntry, CommittedLog
  <2>2. stage' = "entry" /\ before' = Contents
    BY <1>1 DEF WriteEntry
  <2> QED
    BY <2>1, <2>2 DEF CommittedLog
<1>2. ASSUME WriteIndex PROVE CommittedLog' = CommittedLog
  BY <1>2 DEF WriteIndex, CommittedLog
<1>3. ASSUME WriteCount PROVE CommittedLog' = Log!Push(CommittedLog, record, N)
  <2>1. /\ stage = "index" /\ stage' = "free"
        /\ ring' = ring /\ current' = current
        /\ valid' = IF valid < N THEN valid + 1 ELSE valid
    BY <1>3 DEF WriteCount
  <2>2. CommittedLog = before
    BY <2>1 DEF CommittedLog
  <2>3. Contents' = LogOf(ring, current, IF valid < N THEN valid + 1 ELSE valid)
    BY <2>1, ContentsIsLogOf
  <2>4. CommittedLog' = Contents'
    BY <2>1 DEF CommittedLog
  <2> QED
    BY <2>1, <2>2, <2>3, <2>4 DEF RingInv, WriteInv
<1> QED
  BY <1>1, <1>2, <1>3

---------------------------------------------------------------------------
(* The invariant.                                                          *)

LEMMA PushKeepsRecords ==
  ASSUME NEW l \in Seq(Record), NEW r \in Record
  PROVE  Log!Push(l, r, N) \in Seq(Record)
<1>1. Append(l, r) \in Seq(Record)
  BY AppendProperties
<1>2. CASE l = <<>>
  BY <1>1, <1>2, EmptySeq DEF Log!Push
<1>3. CASE l # <<>>
  <2>1. Tail(l) \in Seq(Record)
    BY <1>3, HeadTailProperties
  <2>2. Append(Tail(l), r) \in Seq(Record)
    BY <2>1, AppendProperties
  <2> QED
    BY <1>1, <2>2 DEF Log!Push
<1> QED
  BY <1>2, <1>3

LEMMA RingInvInit == Init => RingInv /\ CommittedLog = <<>>
<1> SUFFICES ASSUME Init PROVE RingInv /\ CommittedLog = <<>>
  OBVIOUS
<1>1. TypeOK
  <2>1. current \in Slots /\ valid \in 0 .. N /\ stage \in Stages
    BY DEF Init, Slots, Stages
  <2>2. /\ reply \in Seq(Record \cup {Zero})
        /\ dump \in Seq(Record \cup {Zero})
        /\ before \in Seq(Record \cup {Zero})
    BY EmptySeq DEF Init
  <2>3. ring \in [Slots -> Record \cup {Zero}] /\ snapshot \in [Slots -> Record \cup {Zero}]
    BY DEF Init
  <2> QED
    BY <2>1, <2>2, <2>3 DEF TypeOK, Init
<1>2. CommittedLog = <<>>
  BY <1>1, ContentsAt, EmptySeq DEF Init, CommittedLog
<1>3. CommittedLog \in Seq(Record)
  BY <1>2, EmptySeq
<1>4. WriteInv
  BY DEF Init, WriteInv
<1> QED
  BY <1>1, <1>2, <1>3, <1>4 DEF RingInv, Init, SnapshotIsLog

LEMMA RingInvStep == RingInv /\ [Next]_vars => RingInv'
<1> SUFFICES ASSUME RingInv, [Next]_vars PROVE RingInv'
  OBVIOUS
<1>1. /\ TypeOK /\ CommittedLog \in Seq(Record) /\ WriteInv /\ SnapshotIsLog
      /\ prepared => crashed /\ stage = "free"
      /\ offered => prepared
      /\ ~passed => ~xored
  BY DEF RingInv
<1>2. ASSUME NEW r \in Record, WriteEntry(r) PROVE RingInv'
  <2>1. Contents \in Seq(Record \cup {Zero}) /\ Contents = LogOf(ring, current, valid)
    BY <1>1, ContentsAt, ContentsIsLogOf
  <2>2. TypeOK'
    <3>1. stage' \in Stages /\ record' \in Record \cup {Zero} /\ before' \in Seq(Record \cup {Zero})
      BY <1>2, <2>1 DEF WriteEntry, Stages
    <3>2. ring' \in [Slots -> Record \cup {Zero}]
      BY <1>1, <1>2 DEF WriteEntry, TypeOK
    <3> QED
      BY <1>1, <1>2, <3>1, <3>2 DEF WriteEntry, TypeOK, bugCheckVars
  <2>3. CommittedLog' \in Seq(Record)
    BY <1>1, <1>2, WriteSteps
  <2>4. WriteInv'
    <3>1. /\ ring' = [ring EXCEPT ![current] = r] /\ current' = current
          /\ valid' = valid /\ record' = r /\ before' = LogOf(ring, current, valid)
          /\ stage' = "entry"
      BY <1>2, <2>1 DEF WriteEntry
    <3>2. ring \in [Slots -> Record \cup {Zero}] /\ current \in Slots /\ valid \in 0 .. N
      BY <1>1 DEF TypeOK
    <3>3. LogOf(ring', (current + 1) % N, IF valid < N THEN valid + 1 ELSE valid)
            = Log!Push(before', record', N)
      BY <3>1, <3>2, WritePushes
    <3> QED
      BY <3>1, <3>3 DEF WriteInv
  <2>5. ~prepared' /\ ~offered' /\ (~passed' => ~xored')
    BY <1>1, <1>2 DEF WriteEntry, bugCheckVars
  <2> QED
    BY <2>2, <2>3, <2>4, <2>5 DEF RingInv, SnapshotIsLog
<1>3. CASE WriteIndex
  <2>1. TypeOK'
    <3>1. current' \in Slots /\ stage' \in Stages
      BY <1>1, <1>3, BackFromNext, IndexNext DEF WriteIndex, TypeOK, Stages, Slots
    <3> QED
      BY <1>1, <1>3, <3>1 DEF WriteIndex, TypeOK, bugCheckVars
  <2>2. CommittedLog' \in Seq(Record)
    BY <1>1, <1>3, WriteSteps
  <2>3. WriteInv'
    BY <1>1, <1>3 DEF WriteInv, WriteIndex
  <2>4. ~prepared' /\ ~offered' /\ (~passed' => ~xored')
    BY <1>1, <1>3 DEF WriteIndex, bugCheckVars
  <2> QED
    BY <2>1, <2>2, <2>3, <2>4 DEF RingInv, SnapshotIsLog
<1>4. CASE WriteCount
  <2>1. TypeOK'
    <3>1. valid' \in 0 .. N /\ stage' \in Stages
      BY <1>1, <1>4 DEF WriteCount, TypeOK, Stages
    <3> QED
      BY <1>1, <1>4, <3>1 DEF WriteCount, TypeOK, bugCheckVars
  <2>2. CommittedLog' \in Seq(Record)
    <3>1. record \in Record
      BY <1>1, <1>4 DEF WriteInv, WriteCount
    <3> QED
      BY <1>1, <1>4, <3>1, WriteSteps, PushKeepsRecords
  <2>3. WriteInv'
    BY <1>4 DEF WriteInv, WriteCount
  <2>4. ~prepared' /\ ~offered' /\ (~passed' => ~xored')
    BY <1>1, <1>4 DEF WriteCount, bugCheckVars
  <2> QED
    BY <2>1, <2>2, <2>3, <2>4 DEF RingInv, SnapshotIsLog
<1>5. CASE Read
  <2>1. TypeOK' /\ Contents # <<>> /\ Contents' = Tail(Contents)
    BY <1>1, <1>5, ReadPops
  <2>2. CommittedLog = Contents /\ CommittedLog' = Contents'
    BY <1>5 DEF Read, CommittedLog
  <2>3. CommittedLog' \in Seq(Record)
    BY <1>1, <2>1, <2>2, HeadTailProperties
  <2>4. WriteInv'
    BY <1>5 DEF Read, WriteInv
  <2>5. ~prepared' /\ ~offered' /\ (~passed' => ~xored')
    BY <1>1, <1>5 DEF Read, bugCheckVars
  <2> QED
    BY <2>1, <2>3, <2>4, <2>5 DEF RingInv, SnapshotIsLog
<1>6. CASE Capture
  <2>1. TypeOK' /\ Contents' = <<>>
    BY <1>1, <1>6, CaptureEmpties
  <2>2. CommittedLog' = <<>>
    BY <1>6, <2>1 DEF Capture, CommittedLog
  <2>3. CommittedLog' \in Seq(Record)
    BY <2>2, EmptySeq
  <2>4. WriteInv'
    BY <1>6 DEF Capture, WriteInv
  <2>5. ~prepared' /\ ~offered' /\ (~passed' => ~xored')
    BY <1>1, <1>6 DEF Capture, bugCheckVars
  <2> QED
    BY <2>1, <2>3, <2>4, <2>5 DEF RingInv, SnapshotIsLog
<1>7. CASE Crash
  <2>1. TypeOK'
    BY <1>1, <1>7 DEF TypeOK, Crash, ringVars, bugCheckVars
  <2>2. CommittedLog' = CommittedLog /\ Contents' = Contents
    BY <1>7 DEF Crash, ringVars, CommittedLog, Contents, OldestIndex
  <2>3. WriteInv'
    BY <1>1, <1>7 DEF Crash, ringVars, WriteInv
  <2>4. SnapshotIsLog'
    BY <1>1, <1>7, <2>2 DEF Crash, ringVars, bugCheckVars, SnapshotIsLog
  <2> QED
    BY <1>1, <1>7, <2>1, <2>2, <2>3, <2>4 DEF RingInv, Crash, ringVars, bugCheckVars
<1>8. ASSUME Prepare, UNCHANGED ringVars, dump' = RecordsOf(snapshot')
      PROVE  /\ CommittedLog' \in Seq(Record)
             /\ WriteInv'
             /\ SnapshotIsLog'
             /\ snapshot' \in [Slots -> Record \cup {Zero}]
             /\ dump' \in Seq(Record \cup {Zero})
  <2>1. /\ Contents' = Contents
        /\ snapshot' = [i \in Slots |-> IF i < valid THEN Contents[i + 1] ELSE Zero]
        /\ snapshot' \in [Slots -> Record \cup {Zero}]
        /\ dump' \in Seq(Record \cup {Zero})
    BY <1>1, <1>8, PreparedDump
  <2>2. valid' = valid /\ stage' = stage /\ before' = before
    BY <1>8 DEF ringVars
  <2>3. CommittedLog' \in Seq(Record)
    BY <1>1, <2>1, <2>2 DEF CommittedLog
  <2>4. WriteInv'
    BY <1>1, <1>8 DEF WriteInv, ringVars
  <2> QED
    BY <2>1, <2>2, <2>3, <2>4 DEF SnapshotIsLog
<1>9. CASE SecondaryDumpOffer
  <2>1. /\ Prepare /\ UNCHANGED ringVars /\ dump' = RecordsOf(snapshot') /\ offered' = TRUE
        /\ passed' = FALSE
        /\ crashed' = crashed /\ crashed /\ stage = "free"
    BY <1>9 DEF SecondaryDumpOffer
  <2>2. TypeOK'
    BY <1>1, <1>8, <2>1 DEF TypeOK, Prepare, ringVars
  <2> QED
    BY <1>1, <1>8, <2>1, <2>2 DEF RingInv, Prepare, ringVars
<1>10. CASE SecondaryDumpEncrypt
  <2>1. TypeOK'
    BY <1>1, <1>10 DEF TypeOK, SecondaryDumpEncrypt, ringVars
  <2>2. CommittedLog' = CommittedLog /\ Contents' = Contents /\ valid' = valid
    BY <1>10 DEF SecondaryDumpEncrypt, ringVars, CommittedLog, Contents, OldestIndex
  <2>3. SnapshotIsLog'
    BY <1>1, <1>10, <2>2 DEF SnapshotIsLog, SecondaryDumpEncrypt
  <2>4. WriteInv'
    BY <1>1, <1>10 DEF WriteInv, SecondaryDumpEncrypt, ringVars
  <2> QED
    BY <1>1, <1>10, <2>1, <2>2, <2>3, <2>4 DEF RingInv, SecondaryDumpEncrypt, ringVars
<1>11. CASE AdditionalOrTriageDump
  <2>1. /\ Prepare /\ UNCHANGED ringVars /\ dump' = RecordsOf(snapshot') /\ offered' = offered
        /\ passed' = FALSE
        /\ crashed' = crashed /\ crashed /\ stage = "free"
    BY <1>11 DEF AdditionalOrTriageDump
  <2>2. TypeOK'
    BY <1>1, <1>8, <2>1 DEF TypeOK, Prepare, ringVars
  <2> QED
    BY <1>1, <1>8, <2>1, <2>2 DEF RingInv, Prepare, ringVars
<1>12. CASE UNCHANGED vars
  <2>1. TypeOK' /\ WriteInv'
    BY <1>1, <1>12 DEF TypeOK, WriteInv, vars, ringVars, bugCheckVars
  <2>2. CommittedLog' = CommittedLog /\ Contents' = Contents
    BY <1>12 DEF vars, ringVars, CommittedLog, Contents, OldestIndex
  <2>3. SnapshotIsLog'
    BY <1>1, <1>12, <2>2 DEF SnapshotIsLog, vars, ringVars, bugCheckVars
  <2> QED
    BY <1>1, <1>12, <2>1, <2>2, <2>3 DEF RingInv, vars, ringVars, bugCheckVars
<1> QED
  BY <1>2, <1>3, <1>4, <1>5, <1>6, <1>7, <1>9, <1>10, <1>11, <1>12 DEF Next

LEMMA RingInvariant == Spec => []RingInv
<1>1. Init => RingInv
  BY RingInvInit
<1> QED
  BY <1>1, RingInvStep, PTL DEF Spec

---------------------------------------------------------------------------
(* What a reader should know of the ring.                                  *)

(* Every index stays inside the ring and the count inside the capacity:    *)
(* the arithmetic of WriteInternal, ReadInternal and CaptureInternal.      *)
THEOREM TypeCorrect == Spec => []TypeOK
<1>1. RingInv => TypeOK
  BY DEF RingInv
<1> QED
  BY <1>1, RingInvariant, PTL

(* Whatever step of CrashDump_DataSourceWriteInternal a write has reached, *)
(* the steps it has left make the ring the old log with its record added.  *)
THEOREM WriteCorrect == Spec => []WriteInv
<1>1. RingInv => WriteInv
  BY DEF RingInv
<1> QED
  BY <1>1, RingInvariant, PTL

(* The snapshot CrashDump_PrepareBugCheckSnapshot leaves is the log in the *)
(* order of reading, then zeroes, for as long as the bug check lasts.      *)
THEOREM SnapshotCorrect == Spec => []SnapshotIsLog
<1>1. RingInv => SnapshotIsLog
  BY DEF RingInv
<1> QED
  BY <1>1, RingInvariant, PTL

(* The first pass of CrashDump_RingBufferElementsXor over a snapshot that  *)
(* a callback linearised finds it plain, however many passes went over the *)
(* snapshots before it, and leaves it encrypted.                           *)
THEOREM FirstPassCorrect == Spec => FirstPassEncrypts
<1>1. RingInv /\ [Next]_vars => [SecondaryDumpEncrypt /\ ~passed => ~xored /\ xored']_vars
  <2> SUFFICES ASSUME RingInv, SecondaryDumpEncrypt, ~passed PROVE ~xored /\ xored'
    OBVIOUS
  <2>1. xored' = ~xored
    BY DEF SecondaryDumpEncrypt
  <2>2. ~xored
    BY DEF RingInv
  <2> QED
    BY <2>1, <2>2
<1> QED
  BY <1>1, RingInvariant, PTL DEF Spec, FirstPassEncrypts

(* The ring implements the bounded log of BoundedLog: every step of a      *)
(* write but the last is a stutter, and every other operation is the       *)
(* operation of the log.                                                   *)
THEOREM Refinement == Spec => RefinesLog
<1>1. Init => Log!Init
  BY RingInvInit DEF Init, Log!Init
<1>2. RingInv /\ [Next]_vars => [Log!Next]_Log!vars
  <2> SUFFICES ASSUME RingInv, [Next]_vars PROVE [Log!Next]_Log!vars
    OBVIOUS
  <2>1. TypeOK /\ WriteInv
    BY DEF RingInv
  <2>2. ASSUME NEW r \in Record, WriteEntry(r) PROVE UNCHANGED Log!vars
    <3>1. CommittedLog' = CommittedLog
      BY <2>2, WriteSteps
    <3> QED
      BY <2>2, <3>1 DEF WriteEntry, bugCheckVars, Log!vars
  <2>3. CASE WriteIndex
    <3>1. CommittedLog' = CommittedLog
      BY <2>3, WriteSteps
    <3> QED
      BY <2>3, <3>1 DEF WriteIndex, bugCheckVars, Log!vars
  <2>4. CASE WriteCount
    <3>1. CommittedLog' = Log!Push(CommittedLog, record, N)
      BY <2>4, WriteSteps
    <3>2. record \in Record /\ UNCHANGED <<reply, dump>>
      BY <2>1, <2>4 DEF WriteInv, WriteCount, bugCheckVars
    <3> QED
      BY <3>1, <3>2 DEF Log!Next, Log!Write
  <2>5. CASE Read
    <3>1. Contents # <<>> /\ reply' = <<Head(Contents)>> /\ Contents' = Tail(Contents)
      BY <2>1, <2>5, ReadPops
    <3>2. UNCHANGED dump /\ CommittedLog = Contents /\ CommittedLog' = Contents'
      BY <2>5 DEF Read, bugCheckVars, CommittedLog
    <3> QED
      BY <3>1, <3>2 DEF Log!Next, Log!Read
  <2>6. CASE Capture
    <3>1. Contents' = <<>>
      BY <2>1, <2>6, CaptureEmpties
    <3>2. /\ reply' = Contents /\ UNCHANGED dump
          /\ CommittedLog = Contents /\ CommittedLog' = Contents'
      BY <2>6 DEF Capture, bugCheckVars, CommittedLog
    <3> QED
      BY <3>1, <3>2 DEF Log!Next, Log!Capture
  <2>7. CASE SecondaryDumpOffer \/ AdditionalOrTriageDump
    <3>1. /\ Prepare /\ UNCHANGED ringVars /\ dump' = RecordsOf(snapshot')
          /\ stage = "free"
      BY <2>7 DEF SecondaryDumpOffer, AdditionalOrTriageDump
    <3>2. dump' = Contents /\ Contents' = Contents
      BY <2>1, <3>1, PreparedDump
    <3>3. CommittedLog = Contents /\ CommittedLog' = Contents' /\ reply' = reply
      BY <3>1 DEF CommittedLog, ringVars
    <3> QED
      BY <3>2, <3>3 DEF Log!Next, Log!Dump
  <2>8. CASE SecondaryDumpEncrypt
    BY <2>8 DEF SecondaryDumpEncrypt, ringVars, CommittedLog, Contents, OldestIndex, Log!vars
  <2>9. CASE Crash
    BY <2>9 DEF Crash, ringVars, bugCheckVars, CommittedLog, Contents, OldestIndex, Log!vars
  <2>10. CASE UNCHANGED vars
    BY <2>10 DEF vars, ringVars, bugCheckVars, CommittedLog, Contents, OldestIndex, Log!vars
  <2> QED
    BY <2>2, <2>3, <2>4, <2>5, <2>6, <2>7, <2>8, <2>9, <2>10 DEF Next
<1>3. Spec => Log!Spec
  BY <1>1, <1>2, RingInvariant, PTL DEF Spec, Log!Spec
<1> QED
  BY <1>3 DEF RefinesLog
=============================================================================
