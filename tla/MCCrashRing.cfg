SPECIFICATION Spec
CONSTANTS
  Record = {r1, r2, r3}
  Zero = Zero
  N = 3
(* A bug check during a write leaves the callbacks waiting for the lock.   *)
CHECK_DEADLOCK FALSE
INVARIANTS
  TypeOK
  SnapshotIsLog
PROPERTIES
  RefinesLog
  FirstPassEncrypts
