---------------------------- MODULE CrashSources ----------------------------
(***************************************************************************)
(* The table of crash-dump data sources: which open file owns which source *)
(* (FileObject[1]) or reads it (FileObject[2]), in HandleCrashDumpRequest  *)
(* (crashdump.c) and PmicGlinkEvtFileClose (device.c).  Every request runs *)
(* under CrashDumpLock and is one step.  Of a source's ring only the       *)
(* number of entries is kept; what is in them is in CrashRing.             *)
(*                                                                         *)
(* The driver tells files apart by the address of their file object, so a  *)
(* file opened after another has been closed may be the same file to it.   *)
(* Requests that fail and change nothing are left out.                     *)
(***************************************************************************)
EXTENDS Naturals

CONSTANTS
  File,        (* addresses of file objects                                *)
  NoFile,      (* NULL                                                     *)
  Stale,       (* PMICGLINK_CRASHDUMP_STALE_FILE_OBJECT                    *)
  Guid,        (* the GUIDs a client may ask for, ...                      *)
  ZeroGuid,    (* ... the zero GUID too                                    *)
  SourceCount, (* data sources, without the unused index 0: 15             *)
  Capacity     (* EntriesCount of every ring                               *)

ASSUME SourcesAssumption ==
  /\ NoFile \notin File /\ Stale \notin File /\ NoFile # Stale
  /\ ZeroGuid \in Guid
  /\ SourceCount \in Nat
  /\ Capacity \in Nat \ {0}

VARIABLES
  owner,       (* FileObject[1] of each source                             *)
  reader,      (* FileObject[2]                                            *)
  guid,        (* RingBufferGuid                                           *)
  ring,        (* RingBufferData # NULL                                    *)
  entries,     (* ValidEntryCount                                          *)
  callback,    (* BugCheckCallbackRegistered                               *)
  open,        (* the files that are open                                  *)
  asked,       (* history: GUIDs each file asked for since it was opened   *)
  multi        (* history: files that held two roles or more when closed   *)

roleVars == <<owner, reader>>
ringVars == <<guid, ring, entries, callback>>
fileVars == <<open, asked, multi>>
vars == <<roleVars, ringVars, fileVars>>

Sources == 1 .. SourceCount

(* i is the first source of S, which the driver's loops stop at.           *)
First(i, S) == i \in S /\ \A j \in S : i <= j

OwnedBy(f) == {i \in Sources : owner[i] = f}
ReadBy(f)  == {i \in Sources : reader[i] = f}
HeldBy(f)  == OwnedBy(f) \cup ReadBy(f)

---------------------------------------------------------------------------
(* IOCTL_CRASHDUMP_DATA_SOURCE_CREATE.                                     *)

(* Defect, for the mutation of Adoptable: the zero GUID is not excluded.   *)
AdoptableUnchecked(g) ==
  {i \in Sources : guid[i] = g /\ owner[i] \in {NoFile, Stale}}

(* The sources of that GUID that nobody owns any more.                     *)
Adoptable(g) ==
  {i \in Sources : g # ZeroGuid /\ guid[i] = g /\ owner[i] \in {NoFile, Stale}}

Free == {i \in Sources : owner[i] = NoFile /\ ~ring[i]}

Adopt(f, g) ==
  /\ f \in open
  /\ \E i \in Sources :
       /\ First(i, Adoptable(g))
       /\ owner' = [owner EXCEPT ![i] = f]
  /\ asked' = [asked EXCEPT ![f] = @ \cup {g}]
  /\ UNCHANGED <<reader, ringVars, open, multi>>

(* CrashDump_DataSourceCreateInternal on the first free source.            *)
Create(f, g) ==
  /\ f \in open
  /\ Adoptable(g) = {}
  /\ OwnedBy(f) = {}
  /\ \E i \in Sources :
       /\ First(i, Free)
       /\ owner' = [owner EXCEPT ![i] = f]
       /\ ring' = [ring EXCEPT ![i] = TRUE]
       /\ entries' = [entries EXCEPT ![i] = 0]
       /\ guid' = [guid EXCEPT ![i] = g]
       /\ callback' = [callback EXCEPT ![i] = TRUE]
  /\ asked' = [asked EXCEPT ![f] = @ \cup {g}]
  /\ UNCHANGED <<reader, open, multi>>

(* Its callback cannot be registered: CrashDump_DmfDestroy_RingBuffer      *)
(* undoes what was set up, and the file does not get the source.           *)
CreateFails(f, g) ==
  /\ f \in open
  /\ Adoptable(g) = {}
  /\ OwnedBy(f) = {}
  /\ \E i \in Sources :
       /\ First(i, Free)
       /\ owner' = [owner EXCEPT ![i] = NoFile]
       /\ ring' = [ring EXCEPT ![i] = FALSE]
       /\ entries' = [entries EXCEPT ![i] = 0]
       /\ guid' = [guid EXCEPT ![i] = ZeroGuid]
       /\ callback' = [callback EXCEPT ![i] = FALSE]
  /\ UNCHANGED <<reader, fileVars>>

---------------------------------------------------------------------------
(* The other requests.                                                     *)

(* IOCTL_CRASHDUMP_DATA_SOURCE_QUERY: whoever asks last reads.             *)
Query(f, g) ==
  /\ f \in open
  /\ g # ZeroGuid
  /\ \E i \in Sources :
       /\ First(i, {j \in Sources : guid[j] = g})
       /\ reader' = [reader EXCEPT ![i] = f]
  /\ asked' = [asked EXCEPT ![f] = @ \cup {g}]
  /\ UNCHANGED <<owner, ringVars, open, multi>>

(* Defect: entries are counted beyond the capacity.                        *)
WriteUncapped(f) ==
  /\ f \in open
  /\ \E i \in Sources :
       /\ First(i, OwnedBy(f))
       /\ entries' = [entries EXCEPT ![i] = @ + 1]
  /\ UNCHANGED <<roleVars, guid, ring, callback, fileVars>>

(* IOCTL_CRASHDUMP_DATA_SOURCE_WRITE goes to the first source of the file. *)
Write(f) ==
  /\ f \in open
  /\ \E i \in Sources :
       /\ First(i, OwnedBy(f))
       /\ ring[i]
       /\ entries' = [entries EXCEPT ![i] = IF @ < Capacity THEN @ + 1 ELSE @]
  /\ UNCHANGED <<roleVars, guid, ring, callback, fileVars>>

(* IOCTL_CRASHDUMP_DATA_SOURCE_READ.                                       *)
Read(f) ==
  /\ f \in open
  /\ \E i \in Sources :
       /\ First(i, ReadBy(f))
       /\ ring[i]
       /\ entries[i] # 0
       /\ entries' = [entries EXCEPT ![i] = @ - 1]
  /\ UNCHANGED <<roleVars, guid, ring, callback, fileVars>>

(* IOCTL_CRASHDUMP_DATA_SOURCE_CAPTURE.                                    *)
Capture(f) ==
  /\ f \in open
  /\ \E i \in Sources :
       /\ First(i, ReadBy(f))
       /\ ring[i]
       /\ entries' = [entries EXCEPT ![i] = 0]
  /\ UNCHANGED <<roleVars, guid, ring, callback, fileVars>>

(* Defect: the reader keeps its place in a source that is gone.            *)
DestroyKeepingReader(f) ==
  /\ f \in open
  /\ \E i \in Sources :
       /\ First(i, HeldBy(f))
       /\ callback' = [callback EXCEPT ![i] = FALSE]
       /\ ring' = [ring EXCEPT ![i] = FALSE]
       /\ entries' = [entries EXCEPT ![i] = 0]
       /\ guid' = [guid EXCEPT ![i] = ZeroGuid]
       /\ owner' = [owner EXCEPT ![i] = NoFile]
  /\ UNCHANGED <<reader, fileVars>>

(* IOCTL_CRASHDUMP_DATA_SOURCE_DESTROY: the first source in which the file *)
(* has a role is destroyed, even if it only reads it.                      *)
Destroy(f) ==
  /\ f \in open
  /\ \E i \in Sources :
       /\ First(i, HeldBy(f))
       /\ callback' = [callback EXCEPT ![i] = FALSE]
       /\ ring' = [ring EXCEPT ![i] = FALSE]
       /\ entries' = [entries EXCEPT ![i] = 0]
       /\ guid' = [guid EXCEPT ![i] = ZeroGuid]
       /\ owner' = [owner EXCEPT ![i] = NoFile]
       /\ reader' = [reader EXCEPT ![i] = NoFile]
  /\ UNCHANGED fileVars

---------------------------------------------------------------------------
(* Files.                                                                  *)

(* The framework opens the file.                                           *)
Open(f) ==
  /\ f \notin open
  /\ open' = open \cup {f}
  /\ asked' = [asked EXCEPT ![f] = {}]
  /\ UNCHANGED <<roleVars, ringVars, multi>>

(* The roles of a file, as pairs of a source and a role.                   *)
RolesOf(f) == (OwnedBy(f) \X {"owner"}) \cup (ReadBy(f) \X {"reader"})
SeveralRoles(f) == \E a, b \in RolesOf(f) : a # b

(* Defect, for the mutation of LetGo: the reader's role is forgotten.      *)
LetGoOwnerOnly(f) ==
  /\ owner' = [i \in Sources |-> IF i \in OwnedBy(f) THEN Stale ELSE owner[i]]
  /\ UNCHANGED reader

(* One role of the first source in which the file has any is given up: the *)
(* reader's first.                                                         *)
LetGo(f) ==
  \/ HeldBy(f) = {} /\ UNCHANGED roleVars
  \/ \E i \in Sources :
       /\ First(i, HeldBy(f))
       /\ \/ /\ reader[i] = f
             /\ reader' = [reader EXCEPT ![i] = NoFile]
             /\ UNCHANGED owner
          \/ /\ reader[i] # f
             /\ owner' = [owner EXCEPT ![i] = Stale]
             /\ UNCHANGED reader

(* PmicGlinkEvtFileClose.                                                  *)
Close(f) ==
  /\ f \in open
  /\ open' = open \ {f}
  /\ LetGo(f)
  /\ multi' = IF SeveralRoles(f) THEN multi \cup {f} ELSE multi
  /\ UNCHANGED <<ringVars, asked>>

---------------------------------------------------------------------------
Init ==
  /\ owner = [i \in Sources |-> NoFile]
  /\ reader = [i \in Sources |-> NoFile]
  /\ guid = [i \in Sources |-> ZeroGuid]
  /\ ring = [i \in Sources |-> FALSE]
  /\ entries = [i \in Sources |-> 0]
  /\ callback = [i \in Sources |-> FALSE]
  /\ open = {}
  /\ asked = [f \in File |-> {}]
  /\ multi = {}

Request(f) ==
  \/ \E g \in Guid : Adopt(f, g) \/ Create(f, g) \/ CreateFails(f, g) \/ Query(f, g)
  \/ Write(f) \/ Read(f) \/ Capture(f) \/ Destroy(f)

Next ==
  \E f \in File : Open(f) \/ Request(f) \/ Close(f)

Spec == Init /\ [][Next]_vars

---------------------------------------------------------------------------
(* The type of every variable.                                             *)
TypeOK ==
  /\ owner \in [Sources -> File \cup {NoFile, Stale}]
  /\ reader \in [Sources -> File \cup {NoFile}]
  /\ guid \in [Sources -> Guid]
  /\ ring \in [Sources -> BOOLEAN]
  /\ entries \in [Sources -> 0 .. Capacity]
  /\ callback \in [Sources -> BOOLEAN]
  /\ open \subseteq File
  /\ asked \in [File -> SUBSET Guid]
  /\ multi \subseteq File

(* A source is whole or absent: it has an owner, or had one that closed,   *)
(* exactly as long as it has a ring and a bug-check callback; an absent    *)
(* one has no GUID by which it could be adopted or queried, no reader and  *)
(* no entries.  HandleCrashDumpRequest relies on it: it gives a source of  *)
(* a matching GUID away without looking at the ring.                       *)
WholeOrAbsent ==
  \A i \in Sources :
    /\ ring[i] <=> owner[i] # NoFile
    /\ callback[i] <=> ring[i]
    /\ ~ring[i] => guid[i] = ZeroGuid /\ reader[i] = NoFile /\ entries[i] = 0

(* An open file has a role only in sources whose GUID it has asked for     *)
(* since it was opened: whatever the other clients create, adopt, destroy  *)
(* or create again in the same slot, nobody writes into or reads out of a  *)
(* source he never named.  Files that were closed with several roles are   *)
(* an exception, since the close gives up one of them only.                *)
OnlyNamedSources ==
  \A f \in open \ multi : \A i \in HeldBy(f) : guid[i] \in asked[f]

(* A closed file leaves nothing behind, again with that exception: no      *)
(* source is kept from adoption by a file that cannot use it any more.     *)
ClosedFilesLetGo == \A f \in File \ open : HeldBy(f) = {} \/ f \in multi
=============================================================================
