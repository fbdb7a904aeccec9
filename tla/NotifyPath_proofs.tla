-------------------------- MODULE NotifyPath_proofs --------------------------
(***************************************************************************)
(* What NotifyPath checks on small instances, for any set of deferred      *)
(* opcodes, any number of concurrent work items and of packets.            *)
(***************************************************************************)
EXTENDS NotifyPath, TLAPS

(* The packet an empty slot holds is no packet.                            *)
LEMMA NoPacketIsNone == NoPacket \notin Packets
<1>1. Packets \subseteq [id : Nat, read : BOOLEAN, clearing : SUBSET Workers]
  BY DEF Packets
<1> QED BY <1>1, NotifyAssumption

(* The outcomes of a creation are well typed.                              *)
LEMMA CreateTyped ==
  ASSUME TypeOK, CreateWorkItem
  PROVE  items' \in Nat /\ failed' \in BOOLEAN /\ rxEvent' \in BOOLEAN
<1>1. items' = items + 1 \/ items' = items
  BY DEF CreateWorkItem
<1>2. items' \in Nat
  BY <1>1 DEF TypeOK
<1>3. failed' \in BOOLEAN /\ rxEvent' \in BOOLEAN
  BY Zenon DEF TypeOK, CreateWorkItem
<1> QED BY <1>2, <1>3

(* A reader empties no slot and changes no more of a packet than its mark. *)
LEMMA MarkedSlot ==
  ASSUME NEW sl \in [Ops -> Packets \cup {NoPacket}], NEW o \in Ops,
         sl[o] # NoPacket,
         NEW sm, sm = [sl EXCEPT ![o].read = TRUE]
  PROVE  /\ sm \in [Ops -> Packets \cup {NoPacket}]
         /\ \A p \in Ops : p # o => sm[p] = sl[p]
         /\ sm[o].id = sl[o].id /\ sm[o].read /\ sm[o].clearing = sl[o].clearing
<1>1. sl[o] \in Packets
  OBVIOUS
<1>2. sm[o] = [sl[o] EXCEPT !.read = TRUE]
  OBVIOUS
<1>3. /\ sm[o] \in Packets
      /\ sm[o].id = sl[o].id /\ sm[o].read = TRUE /\ sm[o].clearing = sl[o].clearing
  BY <1>1, <1>2 DEF Packets
<1>4. \A p \in Ops : p # o => sm[p] = sl[p]
  OBVIOUS
<1>5. sm \in [Ops -> Packets \cup {NoPacket}]
  <2>1. sm = [p \in Ops |-> IF p = o THEN [sl[o] EXCEPT !.read = TRUE] ELSE sl[p]]
    OBVIOUS
  <2> QED BY <2>1, <1>2, <1>3
<1> QED BY <1>3, <1>4, <1>5

---------------------------------------------------------------------------
(* Type correctness.                                                       *)

LEMMA TypeInit == Init => TypeOK
<1> SUFFICES ASSUME Init PROVE TypeOK
  OBVIOUS
<1> USE NotifyAssumption DEF Init
<1>1. slot \in [Ops -> Packets \cup {NoPacket}] /\ rxCb \in Ops \cup {NoOp}
  OBVIOUS
<1>2. items \in Nat /\ arrived \in 0 .. MaxPackets
  OBVIOUS
<1>3. /\ at \in [Workers -> Places] /\ wop \in [Workers -> Ops]
      /\ got \in [Workers -> 0 .. MaxPackets]
  BY DEF Places
<1>4. sender \in SendPlaces /\ sop \in Replies
  BY DEF SendPlaces
<1>5. rxEvent \in BOOLEAN /\ failed \in BOOLEAN
  BY Zenon
<1>6. announced \subseteq 0 .. MaxPackets
  OBVIOUS
<1> QED BY <1>1, <1>2, <1>3, <1>4, <1>5, <1>6 DEF TypeOK

LEMMA TypeNext == TypeOK /\ [Next]_vars => TypeOK'
<1> SUFFICES ASSUME TypeOK, [Next]_vars PROVE TypeOK'
  OBVIOUS
<1> USE NotifyAssumption
<1>1. ASSUME NEW o \in Ops, RxStore(o) PROVE TypeOK'
  <2>1. arrived + 1 \in 1 .. MaxPackets
    BY <1>1 DEF RxStore, TypeOK
  <2>2. [id |-> arrived + 1, read |-> FALSE,
         clearing |-> {w \in Workers : at[w] \in {"zero", "clear"} /\ wop[w] = o}]
          \in Packets
    BY <2>1 DEF Packets
  <2>3. slot' \in [Ops -> Packets \cup {NoPacket}]
    BY <1>1, <2>2 DEF RxStore, TypeOK
  <2> QED BY <1>1, <2>1, <2>3 DEF RxStore, TypeOK, workVars, sendVars
<1>2. CASE RxDefer
  BY <1>2, CreateTyped DEF RxDefer, TypeOK, workVars, sendVars
<1>3. ASSUME NEW w \in Workers, WorkStep(w) PROVE TypeOK'
  <2>1. CASE Begin(w)
    BY <2>1 DEF Begin, Goto, TypeOK, Places, sendVars
  <2>2. CASE Look(w)
    BY <2>2 DEF Look, Goto, TypeOK, Places, sendVars
  <2>3. CASE Check(w)
    BY <2>3 DEF Check, Goto, TypeOK, Places, sendVars
  <2>4. CASE Retrieve(w)
    <3>1. wop[w] \in Ops
      BY DEF TypeOK
    <3>2. CASE ~Pending(wop[w])
      BY <2>4, <3>2 DEF Retrieve, Goto, TypeOK, Places, sendVars
    <3>3. CASE Pending(wop[w])
      <4>1. slot' = [slot EXCEPT ![wop[w]].read = TRUE]
        BY <2>4, <3>3 DEF Retrieve
      <4>2. slot' \in [Ops -> Packets \cup {NoPacket}]
        BY <4>1, <3>1, <3>3, MarkedSlot DEF TypeOK, Pending
      <4>3. slot[wop[w]].id \in 0 .. MaxPackets
        BY <3>1, <3>3 DEF TypeOK, Pending, Packets
      <4>4. /\ got' \in [Workers -> 0 .. MaxPackets]
            /\ at' \in [Workers -> Places]
        BY <2>4, <3>3, <4>3 DEF Retrieve, Goto, TypeOK, Places
      <4> QED BY <2>4, <4>2, <4>4 DEF Retrieve, TypeOK, sendVars
    <3> QED BY <3>2, <3>3
  <2>5. CASE Zero(w)
    BY <2>5 DEF Zero, Erase, Goto, TypeOK, Places, sendVars
  <2>6. CASE Clear(w)
    BY <2>6 DEF Clear, Erase, Goto, TypeOK, Places, sendVars
  <2>7. CASE Signal(w)
    <3>1. got[w] \in 0 .. MaxPackets
      BY DEF TypeOK
    <3>2. announced' \subseteq 0 .. MaxPackets
      BY <2>7, <3>1 DEF Signal, TypeOK
    <3>3. got' \in [Workers -> 0 .. MaxPackets] /\ at' \in [Workers -> Places]
      BY <2>7 DEF Signal, Goto, TypeOK, Places
    <3> QED BY <2>7, <3>2, <3>3 DEF Signal, TypeOK, sendVars
  <2>8. CASE Recheck(w)
    <3>1. items' \in Nat /\ failed' \in BOOLEAN /\ rxEvent' \in BOOLEAN
      BY <2>8, CreateTyped DEF Recheck, TypeOK
    <3> QED BY <2>8, <3>1 DEF Recheck, Goto, TypeOK, Places, sendVars
  <2> QED BY <1>3, <2>1, <2>2, <2>3, <2>4, <2>5, <2>6, <2>7, <2>8 DEF WorkStep
<1>4. CASE SendStep
  <2>1. CASE SendBegin
    BY <2>1 DEF SendBegin, TypeOK, SendPlaces, workVars
  <2>2. CASE SendClear
    BY <2>2 DEF SendClear, Erase, TypeOK, SendPlaces, workVars
  <2>3. CASE SendWake
    BY <2>3 DEF SendWake, TypeOK, SendPlaces, workVars
  <2>4. CASE SendTake
    <3>1. slot' \in [Ops -> Packets \cup {NoPacket}]
      BY <2>4, MarkedSlot DEF SendTake, TypeOK, Pending
    <3> QED BY <2>4, <3>1 DEF SendTake, TypeOK, SendPlaces, workVars
  <2>5. CASE SendZero
    BY <2>5 DEF SendZero, Erase, TypeOK, SendPlaces, workVars
  <2>6. CASE SendTimeout
    BY <2>6 DEF SendTimeout, TypeOK, SendPlaces, workVars
  <2> QED BY <1>4, <2>1, <2>2, <2>3, <2>4, <2>5, <2>6 DEF SendStep
<1>5. CASE UNCHANGED vars
  BY <1>5 DEF vars, workVars, sendVars, TypeOK
<1>6. ASSUME NEW o \in Ops, RxStoreFails(o) PROVE TypeOK'
  BY <1>6 DEF RxStoreFails, Erase, TypeOK, workVars, sendVars
<1>7. CASE ResetCommDataSlots
  BY <1>7 DEF ResetCommDataSlots, TypeOK, workVars, sendVars
<1> QED BY <1>1, <1>2, <1>3, <1>4, <1>5, <1>6, <1>7 DEF Next

(* Every variable keeps its type.                                          *)
THEOREM TypeCorrect == Spec => []TypeOK
<1> QED BY TypeInit, TypeNext, PTL DEF Spec

---------------------------------------------------------------------------
(* Pending packets are covered.                                            *)

(* What a step that is no store may do to a slot: empty it, or mark its    *)
(* packet as read.                                                         *)
Kept(p) ==
  Pending(p)' =>
    /\ Pending(p)
    /\ slot'[p].id = slot[p].id
    /\ slot'[p].clearing = slot[p].clearing
    /\ slot[p].read => slot'[p].read

LEMMA OnlyStorePends ==
  ASSUME TypeOK, [Next]_vars, \A o \in Ops : ~RxStore(o)
  PROVE  \A p \in Ops : Kept(p)
<1> SUFFICES ASSUME NEW p \in Ops PROVE Kept(p)
  OBVIOUS
<1>1. CASE slot' = slot
  BY <1>1 DEF Pending, Kept
<1>2. ASSUME NEW o \in Ops, Erase(o) PROVE Kept(p)
  <2>1. p = o => slot'[p] = NoPacket
    BY <1>2 DEF Erase, TypeOK
  <2>2. p # o => slot'[p] = slot[p]
    BY <1>2 DEF Erase, TypeOK
  <2> QED BY <2>1, <2>2 DEF Pending, Kept
<1>3. ASSUME NEW o \in Ops, slot' = [slot EXCEPT ![o].read = TRUE], Pending(o)
      PROVE Kept(p)
  <2>1. slot \in [Ops -> Packets \cup {NoPacket}] /\ slot[o] # NoPacket
    BY <1>3 DEF TypeOK, Pending
  <2>2. /\ slot'[o].id = slot[o].id /\ slot'[o].read
        /\ slot'[o].clearing = slot[o].clearing
        /\ \A q \in Ops : q # o => slot'[q] = slot[q]
    BY <1>3, <2>1, MarkedSlot
  <2>3. CASE p = o
    BY <1>3, <2>2, <2>3 DEF Kept, Pending
  <2>4. CASE p # o
    BY <2>2, <2>4 DEF Kept, Pending
  <2> QED BY <2>3, <2>4
<1>4. ASSUME NEW w \in Workers, WorkStep(w) PROVE Kept(p)
  <2>1. wop[w] \in Ops
    BY DEF TypeOK
  <2>2. \/ slot' = slot \/ Erase(wop[w])
        \/ slot' = [slot EXCEPT ![wop[w]].read = TRUE] /\ Pending(wop[w])
    BY <1>4 DEF WorkStep, Begin, Look, Check, Retrieve, Zero, Clear, Signal, Recheck
  <2> QED BY <1>1, <1>2, <1>3, <2>1, <2>2
<1>5. CASE SendStep
  <2>1. sop \in Ops
    BY NotifyAssumption DEF TypeOK
  <2>2. \/ slot' = slot \/ Erase(sop)
        \/ slot' = [slot EXCEPT ![sop].read = TRUE] /\ Pending(sop)
    BY <1>5 DEF SendStep, SendBegin, SendClear, SendWake, SendTake, SendZero, SendTimeout
  <2> QED BY <1>1, <1>2, <1>3, <2>1, <2>2
<1>6. CASE RxDefer
  BY <1>1, <1>6 DEF RxDefer
<1>7. CASE UNCHANGED vars
  BY <1>1, <1>7 DEF vars
<1>8. ASSUME NEW o \in Ops, RxStoreFails(o) PROVE Kept(p)
  BY <1>2, <1>8 DEF RxStoreFails
<1>9. CASE ResetCommDataSlots
  BY <1>9 DEF ResetCommDataSlots, Pending, Kept
<1> QED BY <1>4, <1>5, <1>6, <1>7, <1>8, <1>9 DEF Next

LEMMA PendingNext == TypeOK /\ PendingIsCovered /\ [Next]_vars => PendingIsCovered'
<1> SUFFICES ASSUME TypeOK, PendingIsCovered, [Next]_vars, \E o \in Ops : Pending(o)'
    PROVE  \/ rxCb' # NoOp \/ items' > 0 \/ (\E w \in Workers : at'[w] # "idle") \/ failed'
  BY DEF PendingIsCovered, Pending
<1>1. ASSUME NEW o \in Ops, RxStore(o) PROVE rxCb' # NoOp
  BY <1>1, NotifyAssumption DEF RxStore
<1>2. ASSUME \A o \in Ops : ~RxStore(o)
      PROVE  \/ rxCb' # NoOp \/ items' > 0 \/ (\E w \in Workers : at'[w] # "idle") \/ failed'
  <2>1. PICK p \in Ops : Pending(p)
    BY <1>2, OnlyStorePends DEF Kept
  <2>2. \/ rxCb # NoOp \/ items > 0 \/ (\E w \in Workers : at[w] # "idle") \/ failed
    BY <2>1 DEF PendingIsCovered
  <2>3. ASSUME CreateWorkItem PROVE items' > 0 \/ failed'
    <3>1. items' = items + 1 \/ failed'
      BY <2>3 DEF CreateWorkItem
    <3> QED BY <3>1 DEF TypeOK
  <2>4. CASE RxDefer
    BY <2>3, <2>4 DEF RxDefer
  <2>5. CASE SendStep
    <3>1. UNCHANGED <<rxCb, items, at, failed>>
      BY <2>5 DEF SendStep, SendBegin, SendClear, SendWake, SendTake, SendZero,
                  SendTimeout, workVars
    <3> QED BY <2>2, <3>1
  <2>6. ASSUME NEW w \in Workers, WorkStep(w)
        PROVE  \/ items' > 0 \/ at'[w] # "idle" \/ failed'
    <3>1. CASE Begin(w) \/ Check(w) \/ Retrieve(w) \/ Zero(w) \/ Clear(w) \/ Signal(w)
      BY <3>1 DEF Begin, Check, Retrieve, Zero, Clear, Signal, Goto, TypeOK
    <3>2. CASE Look(w)
      BY <2>1, <3>2 DEF Look, Goto, TypeOK
    <3>3. CASE Recheck(w)
      BY <2>1, <2>3, <3>3 DEF Recheck
    <3> QED BY <2>6, <3>1, <3>2, <3>3 DEF WorkStep
  <2>7. CASE UNCHANGED vars
    BY <2>2, <2>7 DEF vars, workVars
  <2>8. CASE ResetCommDataSlots \/ \E o \in Ops : RxStoreFails(o)
    BY <2>2, <2>8 DEF ResetCommDataSlots, RxStoreFails, workVars
  <2> QED BY <1>2, <2>4, <2>5, <2>6, <2>7, <2>8 DEF Next
<1> QED BY <1>1, <1>2

(* A pending packet always has somebody to look for it.                    *)
THEOREM PendingCorrect == Spec => []PendingIsCovered
<1>1. Init => PendingIsCovered
  BY DEF Init, PendingIsCovered, Pending
<1> QED BY <1>1, TypeInit, TypeNext, PendingNext, PTL DEF Spec

---------------------------------------------------------------------------
(* Announced packets are gone.                                             *)

(* The packet of a store has a number of its own.                          *)
LEMMA StoreNumbers ==
  ASSUME TypeOK, NumberedInv, NEW o \in Ops, RxStore(o)
  PROVE  NumberedInv'
<1> USE DEF NumberedInv
<1>1. arrived \in Nat /\ arrived' = arrived + 1
  BY NotifyAssumption DEF TypeOK, RxStore
<1>2. slot'[o].id = arrived + 1 /\ \A p \in Ops : p # o => slot'[p] = slot[p]
  BY DEF RxStore, TypeOK
<1>3. UNCHANGED <<at, wop, got, announced>>
  BY DEF RxStore, workVars
<1>4. /\ \A w \in Workers : got[w] \in Nat
      /\ \A n \in announced : n \in Nat
      /\ \A p \in Ops : Pending(p) => slot[p].id \in Nat
  BY NotifyAssumption DEF TypeOK, Packets, Pending
<1>5. NumberInv'
  <2>1. \A p \in Ops : Pending(p)' => slot'[p].id <= arrived'
    BY <1>1, <1>2, <1>4 DEF NumberInv, Pending
  <2>2. \A p \in Ops : p # o /\ Pending(p)' => slot'[p].id # slot'[o].id
    BY <1>1, <1>2, <1>4 DEF NumberInv, Pending
  <2>3. \A p, q \in Ops : Pending(p)' /\ Pending(q)' /\ slot'[p].id = slot'[q].id => p = q
    BY <1>2, <2>2 DEF NumberInv, Pending
  <2>4. \A w \in Workers : got'[w] <= arrived'
    BY <1>1, <1>3, <1>4 DEF NumberInv
  <2>5. \A n \in announced' : n <= arrived'
    BY <1>1, <1>3, <1>4 DEF NumberInv
  <2> QED BY <2>1, <2>3, <2>4, <2>5 DEF NumberInv, Pending
<1>6. RetrievedInv'
  <2> SUFFICES ASSUME NEW w \in Workers, got[w] # 0
      PROVE  /\ at[w] \in {"zero", "clear", "signal"}
             /\ \A p \in Ops : Pending(p)' /\ slot'[p].id = got[w]
                                => wop[w] = p /\ at[w] # "signal"
    BY <1>3 DEF RetrievedInv, Pending
  <2>1. slot'[o].id # got[w]
    BY <1>1, <1>2, <1>4 DEF NumberInv
  <2> QED BY <1>2, <2>1 DEF RetrievedInv, Pending
<1>7. AnnouncedAfterErased'
  <2>1. slot'[o].id \notin announced
    BY <1>1, <1>2, <1>4 DEF NumberInv
  <2> QED BY <1>2, <1>3, <2>1 DEF AnnouncedAfterErased, Pending
<1> QED BY <1>5, <1>6, <1>7

(* What the invariant says of one worker after a step.                     *)
HoldsItsOwn(w) ==
  /\ at'[w] \in {"zero", "clear", "signal"}
  /\ \A p \in Ops :
       Pending(p)' /\ slot'[p].id = got'[w] => wop'[w] = p /\ at'[w] # "signal"

(* A step that only keeps or erases packets preserves it, if every worker  *)
(* stays as it was, holds nothing, or holds its own.                       *)
LEMMA KeptNumbers ==
  ASSUME TypeOK, NumberedInv, \A p \in Ops : Kept(p), UNCHANGED arrived,
         \A n \in announced' : n <= arrived,
         \A o \in Ops : Pending(o)' => slot'[o].id \notin announced' \ announced,
         \A w \in Workers :
           \/ got'[w] = got[w] /\ at'[w] = at[w] /\ wop'[w] = wop[w]
           \/ got'[w] = 0
           \/ got'[w] <= arrived /\ HoldsItsOwn(w)
  PROVE  NumberedInv'
<1>1. NumberInv'
  <2>1. \A w \in Workers : got'[w] <= arrived'
    <3>1. arrived \in Nat /\ arrived' = arrived
      BY NotifyAssumption DEF TypeOK
    <3> QED BY <3>1 DEF NumberedInv, NumberInv
  <2>2. \A p \in Ops : Pending(p)' => slot'[p].id <= arrived'
    BY DEF NumberedInv, NumberInv, Kept
  <2>3. \A p, q \in Ops : Pending(p)' /\ Pending(q)' /\ slot'[p].id = slot'[q].id => p = q
    BY DEF NumberedInv, NumberInv, Kept
  <2>4. \A n \in announced' : n <= arrived'
    OBVIOUS
  <2> QED BY <2>1, <2>2, <2>3, <2>4 DEF NumberInv, Pending
<1>2. RetrievedInv'
  <2> SUFFICES ASSUME NEW w \in Workers, got'[w] # 0 PROVE HoldsItsOwn(w)
    BY DEF RetrievedInv, HoldsItsOwn, Pending
  <2>1. CASE got'[w] = got[w] /\ at'[w] = at[w] /\ wop'[w] = wop[w]
    BY <2>1 DEF NumberedInv, RetrievedInv, Kept, HoldsItsOwn
  <2> QED BY <2>1
<1>3. AnnouncedAfterErased'
  BY DEF NumberedInv, AnnouncedAfterErased, Kept, Pending
<1> QED BY <1>1, <1>2, <1>3 DEF NumberedInv

LEMMA NumberedNext == TypeOK /\ NumberedInv /\ [Next]_vars => NumberedInv'
<1> SUFFICES ASSUME TypeOK, NumberedInv, [Next]_vars PROVE NumberedInv'
  OBVIOUS
<1>1. ASSUME NEW o \in Ops, RxStore(o) PROVE NumberedInv'
  BY <1>1, StoreNumbers
<1>2. ASSUME \A o \in Ops : ~RxStore(o) PROVE NumberedInv'
  <2>1. \A p \in Ops : Kept(p)
    BY <1>2, OnlyStorePends
  <2>2. ASSUME UNCHANGED <<at, wop, got, arrived, announced>> PROVE NumberedInv'
    <3>1. \A n \in announced' : n <= arrived
      BY <2>2 DEF NumberedInv, NumberInv
    <3>2. announced' \ announced = {}
      BY <2>2
    <3>3. \A w \in Workers : got'[w] = got[w] /\ at'[w] = at[w] /\ wop'[w] = wop[w]
      BY <2>2
    <3> QED BY <2>1, <2>2, <3>1, <3>2, <3>3, KeptNumbers
  <2>3. CASE RxDefer
    BY <2>2, <2>3 DEF RxDefer, workVars
  <2>4. CASE SendStep
    BY <2>2, <2>4 DEF SendStep, SendBegin, SendClear, SendWake, SendTake, SendZero,
                      SendTimeout, workVars
  <2>5. CASE UNCHANGED vars
    BY <2>2, <2>5 DEF vars, workVars
  <2>6. CASE ResetCommDataSlots \/ \E o \in Ops : RxStoreFails(o)
    BY <2>2, <2>6 DEF ResetCommDataSlots, RxStoreFails, workVars
  <2>7. ASSUME NEW w \in Workers, WorkStep(w) PROVE NumberedInv'
    <3>1. arrived' = arrived /\ wop[w] \in Ops
      BY <2>7 DEF WorkStep, Begin, Look, Check, Retrieve, Zero, Clear, Signal, Recheck, TypeOK
    <3>2. \A v \in Workers : v # w =>
            got'[v] = got[v] /\ at'[v] = at[v] /\ wop'[v] = wop[v]
      BY <2>7 DEF WorkStep, Begin, Look, Check, Retrieve, Zero, Clear, Signal, Recheck,
                  Goto, TypeOK
    <3>3. ASSUME announced' = announced,
                 got'[w] = 0 \/ (got'[w] <= arrived /\ HoldsItsOwn(w))
          PROVE  NumberedInv'
      <4>1. \A n \in announced' : n <= arrived
        BY <3>3 DEF NumberedInv, NumberInv
      <4>2. announced' \ announced = {}
        BY <3>3
      <4> QED BY <2>1, <3>1, <3>2, <3>3, <4>1, <4>2, KeptNumbers
    <3>4. CASE Begin(w) \/ Look(w) \/ Check(w) \/ Recheck(w)
      <4>1. at[w] \in {"idle", "look", "check", "recheck"} /\ got' = got /\ announced' = announced
        BY <3>4 DEF Begin, Look, Check, Recheck
      <4>2. got[w] = 0
        BY <4>1 DEF NumberedInv, RetrievedInv
      <4> QED BY <3>3, <4>1, <4>2
    <3>5. CASE Retrieve(w)
      <4>1. at[w] = "retrieve" /\ announced' = announced /\ wop' = wop
        BY <3>5 DEF Retrieve
      <4>2. got[w] = 0
        BY <4>1 DEF NumberedInv, RetrievedInv
      <4>3. CASE got' = got
        BY <3>3, <4>1, <4>2, <4>3
      <4>4. CASE got' # got
        <5>1. /\ Pending(wop[w])
              /\ got' = [got EXCEPT ![w] = slot[wop[w]].id]
              /\ Goto(w, "zero")
          BY <3>5, <4>4 DEF Retrieve
        <5>2. got'[w] = slot[wop[w]].id /\ at'[w] = "zero"
          BY <5>1 DEF Goto, TypeOK
        <5>3. got'[w] <= arrived
          BY <3>1, <5>1, <5>2 DEF NumberedInv, NumberInv
        <5>4. HoldsItsOwn(w)
          BY <2>1, <3>1, <4>1, <5>1, <5>2 DEF HoldsItsOwn, Kept, NumberedInv, NumberInv
        <5> QED BY <3>3, <4>1, <5>3, <5>4
      <4> QED BY <4>3, <4>4
    <3>6. CASE Zero(w)
      <4>1. at[w] = "zero" /\ at'[w] = "clear" /\ UNCHANGED <<wop, got, announced>>
        BY <3>6 DEF Zero, Goto, TypeOK
      <4>2. got'[w] = 0 \/ (got'[w] <= arrived /\ HoldsItsOwn(w))
        BY <2>1, <4>1 DEF HoldsItsOwn, Kept, NumberedInv, NumberInv, RetrievedInv
      <4> QED BY <3>3, <4>1, <4>2
    <3>7. CASE Clear(w)
      <4>1. at[w] = "clear" /\ UNCHANGED <<wop, got, announced>> /\ slot'[wop[w]] = NoPacket
        BY <3>1, <3>7 DEF Clear, Erase, TypeOK
      <4>2. got[w] # 0 => at'[w] = "signal"
        BY <3>7 DEF Clear, Goto, TypeOK
      <4>3. got'[w] = 0 \/ (got'[w] <= arrived /\ HoldsItsOwn(w))
        BY <2>1, <4>1, <4>2
           DEF HoldsItsOwn, Kept, Pending, NumberedInv, NumberInv, RetrievedInv
      <4> QED BY <3>3, <4>1, <4>3
    <3>8. CASE Signal(w)
      <4>1. /\ at[w] = "signal" /\ slot' = slot
            /\ announced' = announced \cup {got[w]} /\ got'[w] = 0
        BY <3>8 DEF Signal, TypeOK
      <4>2. \A n \in announced' : n <= arrived
        BY <4>1 DEF NumberedInv, NumberInv
      <4>3. \A o \in Ops : Pending(o)' => slot'[o].id # got[w]
        <5>1. \A o \in Ops : Pending(o) => slot[o].id # 0
          BY DEF TypeOK, Packets, Pending
        <5> QED BY <4>1, <5>1 DEF NumberedInv, RetrievedInv, Pending
      <4> QED BY <2>1, <3>1, <3>2, <4>1, <4>2, <4>3, KeptNumbers
    <3> QED BY <2>7, <3>4, <3>5, <3>6, <3>7, <3>8 DEF WorkStep
  <2> QED BY <1>2, <2>3, <2>4, <2>5, <2>7, <2>6 DEF Next
<1> QED BY <1>1, <1>2

(* The event a worker sets for a reply comes after the reply is gone.      *)
THEOREM AnnouncedCorrect == Spec => []AnnouncedAfterErased
<1>1. Init => NumberedInv
  <2>1. Init => 0 <= arrived
    BY DEF Init
  <2> QED BY <2>1 DEF Init, NumberedInv, NumberInv, RetrievedInv, AnnouncedAfterErased, Pending
<1>2. NumberedInv => AnnouncedAfterErased
  BY DEF NumberedInv
<1> QED BY <1>1, <1>2, TypeInit, TypeNext, NumberedNext, PTL DEF Spec

---------------------------------------------------------------------------
(* Unread packets are lost to overlapping readers only.                    *)

LEMMA ReadNext == TypeOK /\ ReadInv /\ [Next]_vars => ReadInv'
<1> SUFFICES ASSUME TypeOK, ReadInv, [Next]_vars,
                    NEW w \in Workers, NEW o \in Ops,
                    at'[w] \in {"zero", "clear"}, wop'[w] = o, Pending(o)'
    PROVE  slot'[o].read \/ w \in slot'[o].clearing
  BY DEF ReadInv, Pending
<1>1. ASSUME NEW p \in Ops, RxStore(p) PROVE slot'[o].read \/ w \in slot'[o].clearing
  <2>1. UNCHANGED <<at, wop>>
    BY <1>1 DEF RxStore, workVars
  <2>2. CASE p = o
    BY <1>1, <2>1, <2>2 DEF RxStore, TypeOK
  <2>3. CASE p # o
    <3>1. slot'[o] = slot[o]
      BY <1>1, <2>3 DEF RxStore, TypeOK
    <3> QED BY <2>1, <3>1 DEF ReadInv, Pending
  <2> QED BY <2>2, <2>3
<1>2. ASSUME \A p \in Ops : ~RxStore(p) PROVE slot'[o].read \/ w \in slot'[o].clearing
  <2>1. Kept(o)
    BY <1>2, OnlyStorePends
  <2>2. ASSUME at[w] \in {"zero", "clear"}, wop[w] = o
        PROVE  slot'[o].read \/ w \in slot'[o].clearing
    BY <2>1, <2>2 DEF Kept, ReadInv
  <2>3. ASSUME at' = at, wop' = wop PROVE slot'[o].read \/ w \in slot'[o].clearing
    BY <2>2, <2>3
  <2>4. CASE RxDefer
    BY <2>3, <2>4 DEF RxDefer, workVars
  <2>5. CASE SendStep
    BY <2>3, <2>5 DEF SendStep, SendBegin, SendClear, SendWake, SendTake, SendZero,
                      SendTimeout, workVars
  <2>6. CASE UNCHANGED vars \/ ResetCommDataSlots \/ \E p \in Ops : RxStoreFails(p)
    BY <2>3, <2>6 DEF vars, workVars, ResetCommDataSlots, RxStoreFails
  <2>7. ASSUME NEW v \in Workers, WorkStep(v)
        PROVE  slot'[o].read \/ w \in slot'[o].clearing
    <3>1. CASE v # w
      <4>1. at'[w] = at[w] /\ wop'[w] = wop[w]
        BY <2>7, <3>1 DEF WorkStep, Begin, Look, Check, Retrieve, Zero, Clear, Signal,
                          Recheck, Goto, TypeOK
      <4> QED BY <2>2, <4>1
    <3>2. CASE v = w
      <4>1. CASE Retrieve(w)
        <5>1. wop[w] = o
          BY <4>1 DEF Retrieve
        <5>2. Pending(o)
          BY <2>1 DEF Kept
        <5>3. slot' = [slot EXCEPT ![o].read = TRUE]
          BY <4>1, <5>1, <5>2 DEF Retrieve
        <5>4. slot \in [Ops -> Packets \cup {NoPacket}] /\ slot[o] # NoPacket
          BY <5>2 DEF TypeOK, Pending
        <5> QED BY <5>3, <5>4, MarkedSlot
      <4>2. CASE Zero(w)
        BY <2>2, <4>2 DEF Zero
      <4>3. CASE Begin(w) \/ Look(w) \/ Check(w) \/ Clear(w) \/ Signal(w) \/ Recheck(w)
        <5>1. at'[w] \notin {"zero", "clear"}
          BY <4>3 DEF Begin, Look, Check, Clear, Signal, Recheck, Goto, TypeOK
        <5> QED BY <5>1
      <4> QED BY <2>7, <3>2, <4>1, <4>2, <4>3 DEF WorkStep
    <3> QED BY <3>1, <3>2
  <2> QED BY <1>2, <2>4, <2>5, <2>6, <2>7 DEF Next
<1> QED BY <1>1, <1>2

LEMMA MarkErasesNothing ==
  ASSUME TypeOK, NEW p \in Ops, Pending(p), slot' = [slot EXCEPT ![p].read = TRUE],
         NEW o \in Ops, Pending(o)
  PROVE  slot'[o] # NoPacket
<1>1. slot \in [Ops -> Packets \cup {NoPacket}] /\ slot[p] # NoPacket
  BY DEF TypeOK, Pending
<1>2. \A q \in Ops : q # p => slot'[q] = slot[q]
  BY <1>1
<1>3. slot'[p] = [slot[p] EXCEPT !.read = TRUE]
  BY <1>1
<1>4. slot'[p] \in Packets
  BY <1>1, <1>3 DEF Packets
<1> QED BY <1>2, <1>4, NoPacketIsNone DEF Pending

LEMMA LossStep ==
  ASSUME TypeOK, ReadInv, [Next]_vars, NEW o \in Ops
  PROVE  ErasedRightly(o)
<1> SUFFICES ASSUME Pending(o), ~slot[o].read, slot'[o] = NoPacket
    PROVE  \/ \E w \in slot[o].clearing : wop[w] = o /\ at'[w] # at[w]
           \/ sop = o /\ sender \in {"clear", "zero"} /\ sender' # sender
           \/ RxStoreFails(o) \/ ResetCommDataSlots
  BY DEF ErasedRightly
<1>1. slot' # slot
  BY DEF Pending
<1>2. ASSUME NEW p \in Ops, slot' = [slot EXCEPT ![p].read = TRUE], Pending(p) PROVE FALSE
  BY <1>2, MarkErasesNothing
<1>3. ASSUME NEW p \in Ops, Erase(p) PROVE p = o
  BY <1>3 DEF Erase, Pending, TypeOK
<1>4. ASSUME NEW p \in Ops, RxStore(p) PROVE FALSE
  <2>1. arrived + 1 \in 1 .. MaxPackets
    BY <1>4, NotifyAssumption DEF RxStore, TypeOK
  <2>2. [id |-> arrived + 1, read |-> FALSE,
         clearing |-> {w \in Workers : at[w] \in {"zero", "clear"} /\ wop[w] = p}]
          \in Packets
    BY <2>1 DEF Packets
  <2>3. slot'[p] # NoPacket
    BY <1>4, <2>2, NoPacketIsNone DEF RxStore, TypeOK
  <2>4. p # o => slot'[o] = slot[o]
    BY <1>4 DEF RxStore, TypeOK
  <2> QED BY <2>3, <2>4 DEF Pending
<1>5. ASSUME NEW w \in Workers, WorkStep(w)
      PROVE  \E v \in slot[o].clearing : wop[v] = o /\ at'[v] # at[v]
  <2>1. wop[w] \in Ops
    BY DEF TypeOK
  <2>2. Zero(w) \/ Clear(w)
    <3>1. ~Begin(w) /\ ~Look(w) /\ ~Check(w) /\ ~Signal(w) /\ ~Recheck(w)
      BY <1>1 DEF Begin, Look, Check, Signal, Recheck
    <3>2. ~Retrieve(w)
      BY <1>1, <1>2, <2>1 DEF Retrieve
    <3> QED BY <1>5, <3>1, <3>2 DEF WorkStep
  <2>3. Erase(wop[w]) /\ at[w] \in {"zero", "clear"}
    BY <2>2 DEF Zero, Clear
  <2>4. wop[w] = o
    BY <1>3, <2>1, <2>3
  <2>5. w \in slot[o].clearing
    BY <2>3, <2>4 DEF ReadInv
  <2>6. at'[w] # at[w]
    BY <2>2 DEF Zero, Clear, Goto, TypeOK
  <2> QED BY <2>4, <2>5, <2>6
<1>6. CASE SendStep
  <2>1. sop \in Ops
    BY NotifyAssumption DEF TypeOK
  <2>2. SendClear \/ SendZero
    BY <1>1, <1>2, <1>6, <2>1 DEF SendStep, SendBegin, SendTake, SendWake, SendTimeout
  <2>3. Erase(sop) /\ sender \in {"clear", "zero"} /\ sender' # sender
    BY <2>2 DEF SendClear, SendZero
  <2> QED BY <1>3, <2>1, <2>3
<1>7. CASE RxDefer
  BY <1>1, <1>7 DEF RxDefer
<1>8. CASE UNCHANGED vars
  BY <1>1, <1>8 DEF vars
<1>9. ASSUME NEW p \in Ops, RxStoreFails(p) PROVE RxStoreFails(o)
  BY <1>3, <1>9 DEF RxStoreFails
<1> QED BY <1>4, <1>5, <1>6, <1>7, <1>8, <1>9 DEF Next

(* An unread packet is erased only by a reader that overlapped its store,  *)
(* by a sender of its opcode, by a failed store, or by leaving D0.         *)
THEOREM LossCorrect == Spec => LossNeedsOverlap
<1>1. Init => ReadInv
  BY DEF Init, ReadInv
<1>2. TypeOK /\ ReadInv /\ [Next]_vars => (\A o \in Ops : ErasedRightly(o))
  BY LossStep
<1> QED BY <1>1, <1>2, TypeInit, TypeNext, ReadNext, PTL
     DEF Spec, LossNeedsOverlap
=============================================================================
