------------------------ MODULE CrashSources_proofs -------------------------
(***************************************************************************)
(* Proofs about CrashSources for any number of files, GUIDs and sources:   *)
(* its type, that sources are whole or absent, that files have roles only  *)
(* in sources they named, and that closed files leave nothing behind.      *)
(***************************************************************************)
EXTENDS CrashSources, TLAPS

USE SourcesAssumption

---------------------------------------------------------------------------
(* The type.                                                               *)

LEMMA TypeInit == Init => TypeOK
<1> SUFFICES ASSUME Init PROVE TypeOK
  OBVIOUS
<1>1. entries \in [Sources -> 0 .. Capacity]
  <2>1. 0 \in 0 .. Capacity
    OBVIOUS
  <2> QED
    BY <2>1 DEF Init
<1> QED
  BY <1>1 DEF Init, TypeOK

LEMMA TypeStep == TypeOK /\ [Next]_vars => TypeOK'
<1> SUFFICES ASSUME TypeOK, [Next]_vars PROVE TypeOK'
  OBVIOUS
<1> USE DEF TypeOK
<1>0. 0 \in 0 .. Capacity
  OBVIOUS
<1>1. ASSUME NEW f \in File, NEW g \in Guid, Adopt(f, g) PROVE TypeOK'
  BY <1>1 DEF Adopt, ringVars
<1>2. ASSUME NEW f \in File, NEW g \in Guid, Create(f, g) PROVE TypeOK'
  BY <1>0, <1>2 DEF Create
<1>3. ASSUME NEW f \in File, NEW g \in Guid, CreateFails(f, g) PROVE TypeOK'
  BY <1>0, <1>3 DEF CreateFails, fileVars
<1>4. ASSUME NEW f \in File, NEW g \in Guid, Query(f, g) PROVE TypeOK'
  BY <1>4 DEF Query, ringVars
<1>5. ASSUME NEW f \in File, Write(f) PROVE TypeOK'
  <2>1. entries' \in [Sources -> 0 .. Capacity]
    <3>1. PICK i \in Sources :
            entries' = [entries EXCEPT ![i] = IF @ < Capacity THEN @ + 1 ELSE @]
      BY <1>5 DEF Write
    <3>2. (IF entries[i] < Capacity THEN entries[i] + 1 ELSE entries[i]) \in 0 .. Capacity
      OBVIOUS
    <3> QED
      BY <3>1, <3>2
  <2> QED
    BY <1>5, <2>1 DEF Write, roleVars, fileVars
<1>6. ASSUME NEW f \in File, Read(f) PROVE TypeOK'
  <2>1. entries' \in [Sources -> 0 .. Capacity]
    <3>1. PICK i \in Sources : entries[i] # 0 /\ entries' = [entries EXCEPT ![i] = @ - 1]
      BY <1>6 DEF Read
    <3>2. entries[i] - 1 \in 0 .. Capacity
      BY <3>1
    <3> QED
      BY <3>1, <3>2
  <2> QED
    BY <1>6, <2>1 DEF Read, roleVars, fileVars
<1>7. ASSUME NEW f \in File, Capture(f) PROVE TypeOK'
  BY <1>0, <1>7 DEF Capture, roleVars, fileVars
<1>8. ASSUME NEW f \in File, Destroy(f) PROVE TypeOK'
  BY <1>0, <1>8 DEF Destroy, fileVars
<1>9. ASSUME NEW f \in File, Open(f) PROVE TypeOK'
  BY <1>9 DEF Open, roleVars, ringVars
<1>10. ASSUME NEW f \in File, Close(f) PROVE TypeOK'
  BY <1>10 DEF Close, LetGo, roleVars, ringVars
<1>11. CASE UNCHANGED vars
  BY <1>11 DEF vars, roleVars, ringVars, fileVars
<1> QED
  BY <1>1, <1>2, <1>3, <1>4, <1>5, <1>6, <1>7, <1>8, <1>9, <1>10, <1>11
  DEF Next, Request

---------------------------------------------------------------------------
(* Sources are whole or absent.                                            *)

LEMMA WholeStep == TypeOK /\ WholeOrAbsent /\ [Next]_vars => WholeOrAbsent'
<1> SUFFICES ASSUME TypeOK, WholeOrAbsent, [Next]_vars PROVE WholeOrAbsent'
  OBVIOUS
<1> USE DEF WholeOrAbsent, TypeOK
<1>1. ASSUME NEW f \in File, NEW g \in Guid, Adopt(f, g) PROVE WholeOrAbsent'
  (* A source with a GUID other than zero has a ring.                      *)
  <2>1. PICK i \in Sources : /\ g # ZeroGuid /\ guid[i] = g
                             /\ owner' = [owner EXCEPT ![i] = f]
    BY <1>1 DEF Adopt, Adoptable, First
  <2>2. ring[i]
    BY <2>1
  <2> QED
    BY <1>1, <2>1, <2>2 DEF Adopt, ringVars
<1>2. ASSUME NEW f \in File, NEW g \in Guid, Create(f, g) PROVE WholeOrAbsent'
  BY <1>2 DEF Create
<1>3. ASSUME NEW f \in File, NEW g \in Guid, CreateFails(f, g) PROVE WholeOrAbsent'
  BY <1>3 DEF CreateFails, Free, First
<1>4. ASSUME NEW f \in File, NEW g \in Guid, Query(f, g) PROVE WholeOrAbsent'
  BY <1>4 DEF Query, First, ringVars
<1>5. ASSUME NEW f \in File, Write(f) PROVE WholeOrAbsent'
  BY <1>5 DEF Write, roleVars
<1>6. ASSUME NEW f \in File, Read(f) PROVE WholeOrAbsent'
  BY <1>6 DEF Read, roleVars
<1>7. ASSUME NEW f \in File, Capture(f) PROVE WholeOrAbsent'
  BY <1>7 DEF Capture, roleVars
<1>8. ASSUME NEW f \in File, Destroy(f) PROVE WholeOrAbsent'
  BY <1>8 DEF Destroy
<1>9. ASSUME NEW f \in File, Open(f) PROVE WholeOrAbsent'
  BY <1>9 DEF Open, roleVars, ringVars
<1>10. ASSUME NEW f \in File, Close(f) PROVE WholeOrAbsent'
  (* The owner that closes is replaced by the stale mark, not by NULL.     *)
  <2>1. \A i \in Sources : owner'[i] = NoFile <=> owner[i] = NoFile
    BY <1>10 DEF Close, LetGo, First, HeldBy, OwnedBy, ReadBy, roleVars
  <2>2. \A i \in Sources : reader[i] = NoFile => reader'[i] = NoFile
    BY <1>10 DEF Close, LetGo, First, HeldBy, OwnedBy, ReadBy, roleVars
  <2> QED
    BY <1>10, <2>1, <2>2 DEF Close, ringVars
<1>11. CASE UNCHANGED vars
  BY <1>11 DEF vars, roleVars, ringVars
<1> QED
  BY <1>1, <1>2, <1>3, <1>4, <1>5, <1>6, <1>7, <1>8, <1>9, <1>10, <1>11
  DEF Next, Request

---------------------------------------------------------------------------
(* Roles.                                                                  *)

(* The two properties of roles hold together: a file that is opened has no *)
(* roles because the one of that address before it left none.              *)
RoleInv == TypeOK /\ WholeOrAbsent /\ OnlyNamedSources /\ ClosedFilesLetGo

LEMMA RoleInit == Init => RoleInv
<1> SUFFICES ASSUME Init PROVE RoleInv
  OBVIOUS
<1>1. \A f \in File : HeldBy(f) = {}
  BY DEF Init, HeldBy, OwnedBy, ReadBy
<1>2. WholeOrAbsent
  BY DEF Init, WholeOrAbsent
<1> QED
  BY <1>1, <1>2, TypeInit DEF Init, RoleInv, OnlyNamedSources, ClosedFilesLetGo

(* What a step must do to the roles and GUIDs for the role properties to   *)
(* survive: a role new to f is that of an open file in a source it named,  *)
(* and a source whose GUID changes has no other roles.                     *)
LEMMA RolesFollow ==
  ASSUME OnlyNamedSources, ClosedFilesLetGo, TypeOK,
         UNCHANGED <<open, multi>>,
         \A f \in File : asked[f] \subseteq asked'[f],
         \A f \in File, i \in Sources :
           i \in HeldBy(f)' => \/ f \in open /\ guid'[i] \in asked'[f]
                               \/ i \in HeldBy(f) /\ guid'[i] = guid[i]
  PROVE  OnlyNamedSources' /\ ClosedFilesLetGo'
<1>1. ASSUME NEW f \in open' \ multi', NEW i \in HeldBy(f)' PROVE guid'[i] \in asked'[f]
  <2>1. f \in File /\ f \in open \ multi /\ i \in Sources
    BY DEF TypeOK, HeldBy, OwnedBy, ReadBy
  <2>2. CASE i \in HeldBy(f) /\ guid'[i] = guid[i]
    BY <2>1, <2>2 DEF OnlyNamedSources
  <2> QED
    BY <2>1, <2>2
<1>2. ASSUME NEW f \in File \ open', f \notin multi' PROVE HeldBy(f)' = {}
  <2>1. HeldBy(f) = {}
    BY <1>2 DEF ClosedFilesLetGo
  <2>2. HeldBy(f)' \subseteq Sources
    BY DEF HeldBy, OwnedBy, ReadBy, Sources
  <2> QED
    BY <1>2, <2>1, <2>2
<1> QED
  BY <1>1, <1>2 DEF OnlyNamedSources, ClosedFilesLetGo

LEMMA RoleStep == RoleInv /\ [Next]_vars => RoleInv'
<1> SUFFICES ASSUME RoleInv, [Next]_vars PROVE RoleInv'
  OBVIOUS
<1>0. TypeOK /\ WholeOrAbsent /\ OnlyNamedSources /\ ClosedFilesLetGo
  BY DEF RoleInv
<1>t. TypeOK' /\ WholeOrAbsent'
  BY <1>0, TypeStep, WholeStep
<1> DEFINE Goal == OnlyNamedSources' /\ ClosedFilesLetGo'
<1>1. ASSUME NEW f \in File, NEW g \in Guid, Adopt(f, g) PROVE Goal
  <2>1. \A h \in File, i \in Sources :
          i \in HeldBy(h)' => \/ h \in open /\ guid'[i] \in asked'[h]
                              \/ i \in HeldBy(h) /\ guid'[i] = guid[i]
    BY <1>0, <1>1 DEF TypeOK, Adopt, Adoptable, First, HeldBy, OwnedBy, ReadBy, ringVars
  <2>2. \A h \in File : asked[h] \subseteq asked'[h]
    BY <1>0, <1>1 DEF TypeOK, Adopt
  <2> QED
    BY <1>0, <1>1, <2>1, <2>2, RolesFollow DEF Adopt
<1>2. ASSUME NEW f \in File, NEW g \in Guid, Create(f, g) PROVE Goal
  <2>1. PICK i \in Sources :
          /\ First(i, Free)
          /\ owner' = [owner EXCEPT ![i] = f]
          /\ guid' = [guid EXCEPT ![i] = g]
    BY <1>2 DEF Create
  <2>2. reader[i] = NoFile /\ asked' = [asked EXCEPT ![f] = @ \cup {g}] /\ reader' = reader
    BY <1>0, <1>2, <2>1 DEF Create, First, Free, WholeOrAbsent
  <2>3. \A h \in File, j \in Sources :
          j \in HeldBy(h)' => \/ h \in open /\ guid'[j] \in asked'[h]
                              \/ j \in HeldBy(h) /\ guid'[j] = guid[j]
    BY <1>0, <1>2, <2>1, <2>2 DEF TypeOK, Create, HeldBy, OwnedBy, ReadBy
  <2>4. \A h \in File : asked[h] \subseteq asked'[h]
    BY <1>0, <2>2 DEF TypeOK
  <2> QED
    BY <1>0, <1>2, <2>3, <2>4, RolesFollow DEF Create
<1>3. ASSUME NEW f \in File, NEW g \in Guid, CreateFails(f, g) PROVE Goal
  <2>1. PICK i \in Sources :
          /\ First(i, Free)
          /\ owner' = [owner EXCEPT ![i] = NoFile]
          /\ guid' = [guid EXCEPT ![i] = ZeroGuid]
    BY <1>3 DEF CreateFails
  <2>2. reader[i] = NoFile /\ asked' = asked /\ reader' = reader
    BY <1>0, <1>3, <2>1 DEF CreateFails, First, Free, WholeOrAbsent, fileVars
  <2>3. \A h \in File, j \in Sources :
          j \in HeldBy(h)' => j \in HeldBy(h) /\ guid'[j] = guid[j]
    BY <1>0, <2>1, <2>2 DEF TypeOK, HeldBy, OwnedBy, ReadBy
  <2> QED
    BY <1>0, <1>3, <2>2, <2>3, RolesFollow DEF CreateFails, fileVars
<1>4. ASSUME NEW f \in File, NEW g \in Guid, Query(f, g) PROVE Goal
  <2>1. \A h \in File, i \in Sources :
          i \in HeldBy(h)' => \/ h \in open /\ guid'[i] \in asked'[h]
                              \/ i \in HeldBy(h) /\ guid'[i] = guid[i]
    BY <1>0, <1>4 DEF TypeOK, Query, First, HeldBy, OwnedBy, ReadBy, ringVars
  <2>2. \A h \in File : asked[h] \subseteq asked'[h]
    BY <1>0, <1>4 DEF TypeOK, Query
  <2> QED
    BY <1>0, <1>4, <2>1, <2>2, RolesFollow DEF Query
<1>5. ASSUME UNCHANGED <<owner, reader, guid, open, asked, multi>> PROVE Goal
  BY <1>0, <1>5 DEF OnlyNamedSources, ClosedFilesLetGo, HeldBy, OwnedBy, ReadBy
<1>6. ASSUME NEW f \in File, Destroy(f) PROVE Goal
  <2>1. PICK i \in Sources :
          /\ owner' = [owner EXCEPT ![i] = NoFile]
          /\ reader' = [reader EXCEPT ![i] = NoFile]
          /\ guid' = [guid EXCEPT ![i] = ZeroGuid]
    BY <1>6 DEF Destroy
  <2>2. \A h \in File, j \in Sources :
          j \in HeldBy(h)' => j \in HeldBy(h) /\ guid'[j] = guid[j]
    BY <1>0, <2>1 DEF TypeOK, HeldBy, OwnedBy, ReadBy
  <2> QED
    BY <1>0, <1>6, <2>2, RolesFollow DEF Destroy, fileVars
<1>7. ASSUME NEW f \in File, Open(f) PROVE Goal
  <2>1. \A h \in File : HeldBy(h)' = HeldBy(h)
    BY <1>7 DEF Open, HeldBy, OwnedBy, ReadBy, roleVars
  <2>2. ASSUME NEW h \in open' \ multi', NEW i \in HeldBy(h)' PROVE guid'[i] \in asked'[h]
    <3>1. h \in File
      BY <1>t DEF TypeOK
    <3>2. CASE h = f
      <4>1. HeldBy(f) = {}
        BY <1>0, <1>7, <2>2, <3>2 DEF Open, ClosedFilesLetGo
      <4> QED
        BY <2>1, <2>2, <3>2, <4>1
    <3>3. CASE h # f
      <4>1. h \in open \ multi /\ i \in HeldBy(h)
        BY <1>7, <2>1, <2>2, <3>1, <3>3 DEF Open
      <4> QED
        BY <1>0, <1>7, <3>1, <3>3, <4>1 DEF Open, TypeOK, OnlyNamedSources, ringVars
    <3> QED
      BY <3>2, <3>3
  <2>3. ClosedFilesLetGo'
    BY <1>0, <1>7, <2>1 DEF Open, ClosedFilesLetGo
  <2> QED
    BY <2>2, <2>3 DEF OnlyNamedSources
<1>8. ASSUME NEW f \in File, Close(f) PROVE Goal
  <2>1. ASSUME NEW h \in File PROVE HeldBy(h)' \subseteq HeldBy(h)
    BY <1>0, <1>8 DEF TypeOK, Close, LetGo, First, HeldBy, OwnedBy, ReadBy, roleVars
  <2>2. OnlyNamedSources'
    BY <1>0, <1>8, <2>1 DEF TypeOK, Close, OnlyNamedSources, ringVars
  <2>3. ASSUME ~SeveralRoles(f) PROVE HeldBy(f)' = {}
    <3>1. CASE HeldBy(f) = {}
      BY <2>1, <3>1
    <3>2. CASE HeldBy(f) # {}
      <4>1. PICK i \in HeldBy(f) :
              \/ reader[i] = f /\ reader' = [reader EXCEPT ![i] = NoFile] /\ owner' = owner
              \/ /\ reader[i] # f
                 /\ owner' = [owner EXCEPT ![i] = Stale] /\ reader' = reader
        BY <1>8, <3>2 DEF Close, LetGo, First
      <4>2. ASSUME NEW j \in HeldBy(f)' PROVE FALSE
        <5>1. i \in Sources /\ j \in Sources
          BY <4>1, <4>2, <2>1 DEF HeldBy, OwnedBy, ReadBy
        <5>2. CASE reader[i] = f
          <6>1. <<i, "reader">> \in RolesOf(f)
            BY <5>1, <5>2 DEF RolesOf, ReadBy
          <6>2. owner[j] = f \/ (j # i /\ reader[j] = f)
            BY <1>0, <4>1, <4>2, <5>1, <5>2 DEF TypeOK, HeldBy, OwnedBy, ReadBy
          <6>3. <<j, "owner">> \in RolesOf(f) \/ (j # i /\ <<j, "reader">> \in RolesOf(f))
            BY <5>1, <6>2 DEF RolesOf, OwnedBy, ReadBy
          <6> QED
            BY <2>3, <6>1, <6>3 DEF SeveralRoles
        <5>3. CASE reader[i] # f
          <6>1. <<i, "owner">> \in RolesOf(f)
            BY <4>1, <5>1, <5>3 DEF RolesOf, HeldBy, OwnedBy, ReadBy
          <6>2. reader[j] = f \/ (j # i /\ owner[j] = f)
            BY <1>0, <4>1, <4>2, <5>1, <5>3 DEF TypeOK, HeldBy, OwnedBy, ReadBy
          <6>3. <<j, "reader">> \in RolesOf(f) \/ (j # i /\ <<j, "owner">> \in RolesOf(f))
            BY <5>1, <6>2 DEF RolesOf, OwnedBy, ReadBy
          <6> QED
            BY <2>3, <6>1, <6>3 DEF SeveralRoles
        <5> QED
          BY <5>2, <5>3
      <4> QED
        BY <4>2
    <3> QED
      BY <3>1, <3>2
  <2>4. ClosedFilesLetGo'
    BY <1>0, <1>8, <2>1, <2>3 DEF Close, ClosedFilesLetGo
  <2> QED
    BY <2>2, <2>4
<1>9. Goal
  BY <1>1, <1>2, <1>3, <1>4, <1>5, <1>6, <1>7, <1>8
  DEF Next, Request, Write, Read, Capture, vars, roleVars, ringVars, fileVars
<1> QED
  BY <1>t, <1>9 DEF RoleInv

LEMMA RoleInvariant == Spec => []RoleInv
BY RoleInit, RoleStep, PTL DEF Spec

---------------------------------------------------------------------------
(* What a reader should know of the table.                                 *)

(* Roles, GUIDs and counts of HandleCrashDumpRequest stay in their types.  *)
THEOREM TypeCorrect == Spec => []TypeOK
<1>1. RoleInv => TypeOK
  BY DEF RoleInv
<1> QED
  BY <1>1, RoleInvariant, PTL

(* No path of create, adopt, destroy and close leaves half a source, so    *)
(* HandleCrashDumpRequest may adopt by GUID without looking at the ring.   *)
THEOREM WholeOrAbsentCorrect == Spec => []WholeOrAbsent
<1>1. RoleInv => WholeOrAbsent
  BY DEF RoleInv
<1> QED
  BY <1>1, RoleInvariant, PTL

(* No sequence of requests of any clients gives a file a role in a source  *)
(* it has not named.                                                       *)
THEOREM OnlyNamedSourcesCorrect == Spec => []OnlyNamedSources
<1>1. RoleInv => OnlyNamedSources
  BY DEF RoleInv
<1> QED
  BY <1>1, RoleInvariant, PTL

(* PmicGlinkEvtFileClose takes the only role of a file away.               *)
THEOREM ClosedFilesLetGoCorrect == Spec => []ClosedFilesLetGo
<1>1. RoleInv => ClosedFilesLetGo
  BY DEF RoleInv
<1> QED
  BY <1>1, RoleInvariant, PTL
=============================================================================
