----------------------------- MODULE CairnProofs -----------------------------
(***************************************************************************)
(* Proofs about Cairn, for any number of namespaces, slots and effects.    *)
(***************************************************************************)
EXTENDS Cairn, TLAPS

-----------------------------------------------------------------------------
(* Where the daemon is determines what it serves. *)

Control ==
  /\ pc = "check" => req.op \in {"commit", "rollback"}
  /\ pc = "record" => req.op = "commit" /\ base.next < COMMIT_SLOTS
  /\ pc = "walk" => req.op = "rollback" /\ cur # NONE
  /\ pc \in {"scan", "retract", "compensate"} => req.op = "sfar_rollback"
  /\ pc = "compensate" => cur # NONE /\ nextFree < COMMIT_SLOTS
  /\ pc = "publish" => /\ req.op \in {"commit", "rollback", "ns_revoke", "ns_grant",
                                      "sfar_rollback"}
                       /\ req.op = "commit" => base.next < COMMIT_SLOTS

\* The fields a request has depend on its operation.
LEMMA RequestFields ==
  ASSUME NEW r \in Request \cup {NoRequest}
  PROVE  /\ r.op = "commit" => r.ns \in NS /\ r.effect \in Effects
         /\ r.op = "rollback" => r.ns \in NS /\ r.steps \in Steps
         /\ r.op \in {"ns_revoke", "ns_grant"} => r.ns \in NS
         /\ r.op = "sfar_rollback" => r.ahd \in Missions /\ r.holds \in Holdings
<1>1. CASE r \in [op : {"init"}]
  BY <1>1
<1>2. CASE r \in [op : {"commit"}, ns : NS, effect : Effects]
  BY <1>2
<1>3. CASE r \in [op : {"rollback"}, ns : NS, steps : Steps]
  BY <1>3
<1>4. CASE r \in [op : {"ns_revoke", "ns_grant"}, ns : NS]
  BY <1>4
<1>5. CASE r \in [op : {"sfar_rollback"}, ahd : Missions, holds : Holdings]
  BY <1>5
<1>6. CASE r = NoRequest
  BY <1>6 DEF NoRequest
<1> QED
  BY <1>1, <1>2, <1>3, <1>4, <1>5, <1>6 DEF Request

\* The superblocks of a blank and of a formatted disk are well formed.
LEMMA BlankTypes ==
  /\ BlankSuper \in Super
  /\ FreshSuper \in Super
  /\ BlankSuper.head \in [NS -> Slot \cup {NONE}]
  /\ BlankSuper.count \in [NS -> Nat]
  /\ BlankRecord \in Record
<1>1. 0 \in NS /\ 0 \in 0 .. COMMIT_SLOTS
  BY CairnAssumption DEF NS
<1> QED
  BY <1>1 DEF BlankSuper, FreshSuper, BlankRecord, Super, Record, NONE, Class

\* The end of a request leaves the daemon in its types if it leaves the disk in its.
LEMMA ClearedTypes ==
  ASSUME Cleared, super' \in Super, record' \in [Slot -> Record]
  PROVE  TypeOK' /\ Control'
<1>1. 0 \in NS /\ 0 \in 0 .. COMMIT_SLOTS
  BY CairnAssumption DEF NS
<1> QED
  BY <1>1, BlankTypes DEF Cleared, TypeOK, Control

\* The superblock of a revocation, field by field.
LEMMA RevocationSuperFields ==
  ASSUME super \in Super
  PROVE  RevocationSuper =
           [magic |-> super.magic, next |-> super.next, head |-> super.head,
            count |-> super.count,
            revoked |-> IF req.op = "ns_revoke" THEN super.revoked \cup {req.ns}
                        ELSE super.revoked \ {req.ns}]
BY DEF RevocationSuper, Super

\* cairn_load_super() formats a disk to a superblock.
LEMMA FormattedType ==
  ASSUME super \in Super
  PROVE  Formatted \in Super
BY BlankTypes DEF Formatted

\* saturating_sub() of naturals is a natural.
LEMMA SaturatingSubType ==
  ASSUME NEW a \in Nat, NEW b \in Nat
  PROVE  SaturatingSub(a, b) \in Nat
BY DEF SaturatingSub

\* A superblock with new refs is a superblock.
LEMMA SuperWithType ==
  ASSUME super \in Super,
         NEW next \in 0 .. COMMIT_SLOTS,
         NEW head \in [NS -> Slot \cup {NONE}],
         NEW count \in [NS -> Nat]
  PROVE  SuperWith(next, head, count) \in Super
BY DEF SuperWith, Super

\* The types of the fields of a superblock.
LEMMA SuperParts ==
  ASSUME NEW s \in Super
  PROVE  /\ s.next \in 0 .. COMMIT_SLOTS
         /\ s.head \in [NS -> Slot \cup {NONE}]
         /\ s.count \in [NS -> Nat]
         /\ s.revoked \in SUBSET NS
BY DEF Super

\* The types of the fields of a commit record.
LEMMA RecordParts ==
  ASSUME NEW r \in Record
  PROVE  /\ r.parent \in Slot \cup {NONE}
         /\ r.ns \in NS
         /\ r.intent \in Nat
         /\ r.generation \in Nat
BY DEF Record

\* What the handlers are about to write is a superblock.
LEMMA NewSuperType ==
  ASSUME TypeOK, Control, pc = "publish"
  PROVE  NewSuper \in Super
<1>1. super \in Super /\ base \in Super
  BY DEF TypeOK
<1>2. CASE req.op = "commit"
  <2>1. req.ns \in NS /\ base.next + 1 \in 0 .. COMMIT_SLOTS /\ base.next \in Slot
    BY <1>1, <1>2, RequestFields, SuperParts, CairnAssumption DEF TypeOK, Control, Slot
  <2>2. base.count[req.ns] + 1 \in Nat
    BY <1>1, <2>1, SuperParts
  <2>3. [super.head EXCEPT ![req.ns] = base.next] \in [NS -> Slot \cup {NONE}]
    BY <1>1, <2>1, SuperParts
  <2>4. [super.count EXCEPT ![req.ns] = base.count[req.ns] + 1] \in [NS -> Nat]
    BY <1>1, <2>1, <2>2, SuperParts
  <2>5. CommitSuper \in Super
    BY <1>1, <2>1, <2>3, <2>4, SuperWithType DEF CommitSuper
  <2> QED
    BY <1>2, <2>5 DEF NewSuper
<1>3. CASE req.op = "rollback"
  <2>1. req.ns \in NS /\ cur \in Slot \cup {NONE}
    BY <1>3, RequestFields DEF TypeOK
  <2>2. SaturatingSub(base.count[req.ns], walked) \in Nat
    BY <1>1, <2>1, SuperParts, SaturatingSubType DEF TypeOK
  <2>3. [super.head EXCEPT ![req.ns] = cur] \in [NS -> Slot \cup {NONE}]
    BY <1>1, <2>1, SuperParts
  <2>4. [super.count EXCEPT ![req.ns] = SaturatingSub(base.count[req.ns], walked)]
          \in [NS -> Nat]
    BY <1>1, <2>1, <2>2, SuperParts
  <2>5. RollbackSuper \in Super
    BY <1>1, <2>3, <2>4, SuperParts, SuperWithType DEF RollbackSuper
  <2> QED
    BY <1>3, <2>5 DEF NewSuper
<1>4. CASE req.op = "sfar_rollback"
  <2>1. ASSUME NEW n \in NS
        PROVE  SaturatingSub(base.count[n], undone[n]) \in Nat /\ MissionCount(n) \in Nat
    <3>1. base.count[n] \in Nat /\ undone[n] \in Nat
      BY <1>1, <2>1, SuperParts DEF TypeOK
    <3>2. SaturatingSub(base.count[n], undone[n]) \in Nat
      BY <3>1, SaturatingSubType
    <3> QED
      BY <3>2 DEF MissionCount
  <2>2. [n \in NS |-> IF Moved(n) THEN newHead[n] ELSE super.head[n]]
          \in [NS -> Slot \cup {NONE}]
    BY <1>1, SuperParts DEF TypeOK
  <2>3. [n \in NS |-> IF Moved(n) THEN MissionCount(n) ELSE super.count[n]] \in [NS -> Nat]
    BY <1>1, <2>1, SuperParts
  <2>4. MissionSuper \in Super
    BY <1>1, <2>2, <2>3, SuperWithType DEF MissionSuper, TypeOK
  <2> QED
    BY <1>4, <2>4 DEF NewSuper
<1>5. CASE req.op \in {"ns_revoke", "ns_grant"}
  <2>1. req.ns \in NS
    BY <1>5, RequestFields DEF TypeOK
  <2>2. RevocationSuper \in Super
    BY <1>1, <2>1, RevocationSuperFields DEF Super
  <2> QED
    BY <1>5, <2>2 DEF NewSuper
<1> QED
  BY <1>2, <1>3, <1>4, <1>5 DEF Control

\* Reading the superblock leaves one on the disk.
LEMMA LoadTypes ==
  ASSUME TypeOK, LoadSuper \/ LoadSuperFails
  PROVE  super' \in Super
BY FormattedType DEF TypeOK, LoadSuper, LoadSuperFails

\* Taking a request keeps the types.
LEMMA AcceptTypes ==
  ASSUME TypeOK, Control, NEW r \in Request, Accept(r)
  PROVE  TypeOK' /\ Control'
BY DEF TypeOK, Control, Accept, disk, walk, staged

\* cairn_ns_revoked() keeps the types.
LEMMA CheckTypes ==
  ASSUME TypeOK, Control, Check
  PROVE  TypeOK' /\ Control'
<1>1. super' \in Super /\ record' \in [Slot -> Record]
  BY LoadTypes DEF Check, TypeOK
<1>2. CASE Cleared
  BY <1>1, <1>2, ClearedTypes
<1>3. CASE pc' = "load" /\ UNCHANGED <<req, base, walk, staged>>
  BY <1>1, <1>3 DEF TypeOK, Control, walk, staged
<1> QED
  BY <1>2, <1>3 DEF Check

\* A failed superblock read keeps the types.
LEMMA LoadFailsTypes ==
  ASSUME TypeOK, Control, LoadFails
  PROVE  TypeOK' /\ Control'
<1>1. super' \in Super /\ record' \in [Slot -> Record]
  BY LoadTypes DEF LoadFails, TypeOK
<1> QED
  BY <1>1, ClearedTypes DEF LoadFails

\* A successful superblock read keeps the types of the disk.
LEMMA LoadsTypes ==
  ASSUME TypeOK, NEW op, Loads(op)
  PROVE  /\ super' \in Super /\ record' \in [Slot -> Record]
         /\ pc = "load" /\ req.op \in op
BY LoadTypes DEF Loads, TypeOK

\* The first part of every handler keeps the types.
LEMMA BeginTypes ==
  ASSUME TypeOK, Control,
         BeginInit \/ BeginCommit \/ BeginRollback \/ BeginRevocation \/ BeginMission
  PROVE  TypeOK' /\ Control'
<1>1. super' \in Super /\ record' \in [Slot -> Record] /\ pc = "load"
  BY LoadsTypes DEF BeginInit, BeginCommit, BeginRollback, BeginRevocation, BeginMission
<1>2. CASE Cleared
  BY <1>1, <1>2, ClearedTypes
<1>3. CASE BeginCommit /\ ~Cleared
  <2>1. req.op = "commit"
    BY <1>3, LoadsTypes DEF BeginCommit
  <2>2. /\ base' = super' /\ pc' = "record" /\ base'.next < COMMIT_SLOTS
        /\ UNCHANGED <<req, walk, staged>>
    BY <1>3 DEF BeginCommit, SlotAvailable
  <2> QED
    BY <1>1, <2>1, <2>2 DEF TypeOK, Control, walk, staged
<1>4. CASE BeginRollback /\ ~Cleared
  <2>1. req.op = "rollback" /\ req.ns \in NS
    BY <1>4, LoadsTypes, RequestFields DEF BeginRollback, TypeOK
  <2>2. /\ base' = super' /\ pc' = "walk" /\ cur' = super'.head[req.ns] /\ cur' # NONE
        /\ UNCHANGED <<req, walked, at, touched, staged>>
    BY <1>4 DEF BeginRollback
  <2>3. cur' \in Slot \cup {NONE}
    BY <1>1, <2>1, <2>2, SuperParts
  <2> QED
    BY <1>1, <2>1, <2>2, <2>3 DEF TypeOK, Control, staged
<1>5. CASE BeginRevocation
  <2>1. req.op \in {"ns_revoke", "ns_grant"}
    BY <1>5, LoadsTypes DEF BeginRevocation
  <2>2. base' = super' /\ pc' = "publish" /\ UNCHANGED <<req, walk, staged>>
    BY <1>5 DEF BeginRevocation
  <2> QED
    BY <1>1, <2>1, <2>2 DEF TypeOK, Control, walk, staged
<1>6. CASE BeginMission
  <2>1. req.op = "sfar_rollback"
    BY <1>6, LoadsTypes DEF BeginMission
  <2>2. /\ base' = super' /\ pc' = "scan" /\ cur' = super'.head[0]
        /\ newHead' = super'.head /\ nextFree' = super'.next
        /\ UNCHANGED <<req, walked, at, touched, undone, appended>>
    BY <1>6 DEF BeginMission
  <2>3. /\ cur' \in Slot \cup {NONE}
        /\ newHead' \in [NS -> Slot \cup {NONE}]
        /\ nextFree' \in 0 .. COMMIT_SLOTS
    BY <1>1, <2>2, SuperParts, CairnAssumption DEF NS
  <2> QED
    BY <1>1, <2>1, <2>2, <2>3 DEF TypeOK, Control
<1> QED
  BY <1>2, <1>3, <1>4, <1>5, <1>6 DEF BeginInit

\* The record that cairn_commit() builds.
NewCommit ==
  [magic |-> TRUE, parent |-> base.head[req.ns], ns |-> req.ns,
   intent |-> req.effect.intent, cls |-> req.effect.cls, comp |-> req.effect.comp,
   status |-> "committed", generation |-> base.count[req.ns] + 1]

\* The record that sfar_rollback() appends.
NewCompensation ==
  [magic |-> TRUE, parent |-> cur, ns |-> at, intent |-> req.ahd,
   cls |-> "reversible", comp |-> FALSE, status |-> "compensation",
   generation |-> SaturatingSub(base.count[at], undone[at]) + 1]

\* cairn_commit() builds a record, for a slot that exists.
LEMMA NewCommitType ==
  ASSUME TypeOK, Control, pc = "record"
  PROVE  NewCommit \in Record /\ base.next \in Slot /\ req.ns \in NS
<1>1. req.op = "commit" /\ base.next < COMMIT_SLOTS /\ base \in Super
  BY DEF Control, TypeOK
<1>2. req.ns \in NS /\ req.effect \in Effect
  BY <1>1, RequestFields, CairnAssumption DEF TypeOK
<1>3. /\ base.head[req.ns] \in Slot \cup {NONE}
      /\ base.count[req.ns] + 1 \in Nat
  BY <1>1, <1>2, SuperParts
<1>4. /\ req.effect.intent \in Nat /\ req.effect.cls \in Class
      /\ req.effect.comp \in BOOLEAN
  BY <1>2 DEF Effect
<1>5. base.next \in Slot
  BY <1>1, SuperParts, CairnAssumption DEF Slot
<1> QED
  BY <1>2, <1>3, <1>4, <1>5 DEF NewCommit, Record

\* sfar_rollback() builds a record, for a slot that exists.
LEMMA NewCompensationType ==
  ASSUME TypeOK, Control, pc = "compensate"
  PROVE  NewCompensation \in Record /\ nextFree \in Slot
<1>1. req.op = "sfar_rollback" /\ nextFree < COMMIT_SLOTS /\ base \in Super /\ at \in NS
  BY DEF Control, TypeOK
<1>2. req.ahd \in Nat
  BY <1>1, RequestFields, CairnAssumption DEF TypeOK
<1>3. base.count[at] \in Nat /\ undone[at] \in Nat
  BY <1>1, SuperParts DEF TypeOK
<1>4. SaturatingSub(base.count[at], undone[at]) \in Nat
  BY <1>3, SaturatingSubType
<1>5. nextFree \in Slot
  BY <1>1, CairnAssumption DEF Slot, TypeOK
<1> QED
  BY <1>1, <1>2, <1>4, <1>5 DEF NewCompensation, Record, TypeOK, Class

\* The record write of cairn_commit() keeps the types.
LEMMA WriteCommitTypes ==
  ASSUME TypeOK, Control, WriteCommit
  PROVE  TypeOK' /\ Control'
<1>1. pc = "record" /\ CommitRecord(base.next, NewCommit) /\ UNCHANGED super
  BY DEF WriteCommit, NewCommit
<1>2. NewCommit \in Record /\ base.next \in Slot
  BY <1>1, NewCommitType
<1>3. record' \in {record, [record EXCEPT ![base.next] = NewCommit]}
  BY <1>1 DEF CommitRecord, WriteRecord, WriteRecordFails
<1>4. super' \in Super /\ record' \in [Slot -> Record]
  BY <1>1, <1>2, <1>3 DEF TypeOK
<1>5. CASE Cleared
  BY <1>4, <1>5, ClearedTypes
<1>6. CASE pc' = "publish" /\ UNCHANGED <<req, base, walk, staged>>
  BY <1>1, <1>4, <1>6 DEF TypeOK, Control, walk, staged
<1> QED
  BY <1>1, <1>5, <1>6 DEF CommitRecord

\* A step of cairn_rollback() keeps the types.
LEMMA WalkCommitTypes ==
  ASSUME TypeOK, Control, WalkCommit
  PROVE  TypeOK' /\ Control'
<1>1. pc = "walk" /\ req.op = "rollback" /\ UNCHANGED disk /\ cur \in Slot
  BY DEF WalkCommit, Control, TypeOK
<1>2. super' \in Super /\ record' \in [Slot -> Record]
  BY <1>1 DEF TypeOK, disk
<1>3. CASE Cleared
  BY <1>2, <1>3, ClearedTypes
<1>4. CASE /\ cur' = Parent(cur) /\ walked' = walked + 1
           /\ pc' = IF walked' < req.steps /\ cur' # NONE THEN "walk" ELSE "publish"
           /\ UNCHANGED <<req, base, at, touched, staged>>
  <2>1. cur' \in Slot \cup {NONE} /\ walked' \in Nat
    BY <1>1, <1>4, RecordParts DEF Parent, TypeOK
  <2>2. pc' \in {"walk", "publish"} /\ (pc' = "walk" => cur' # NONE)
    BY <1>4
  <2> QED
    BY <1>1, <1>2, <1>4, <2>1, <2>2 DEF TypeOK, Control, staged
<1> QED
  BY <1>3, <1>4 DEF WalkCommit

\* sfar_touched_ns(), sfar_authorized() and the loops over namespaces keep the types.
LEMMA ScanTypes ==
  ASSUME TypeOK, Control,
         ScanCommit \/ NextNamespace("scan") \/ NextNamespace("retract") \/ Authorize \/ Staged
  PROVE  TypeOK' /\ Control'
<1>1. super' \in Super /\ record' \in [Slot -> Record]
  BY DEF ScanCommit, NextNamespace, Authorize, Staged, TypeOK, disk
<1>2. CASE ScanCommit
  <2>1. /\ pc = "scan" /\ cur \in Slot /\ cur' \in {Parent(cur), NONE}
        /\ touched' \in {touched, touched \cup {at}}
        /\ UNCHANGED <<req, pc, base, walked, at, staged>>
    BY <1>2 DEF ScanCommit, TypeOK
  <2>2. cur' \in Slot \cup {NONE}
    BY <2>1, RecordParts DEF Parent, TypeOK
  <2> QED
    BY <1>1, <2>1, <2>2 DEF TypeOK, Control, staged
<1>3. ASSUME NEW phase \in {"scan", "retract"}, NextNamespace(phase)
      PROVE  TypeOK' /\ Control'
  <2>1. /\ pc = phase /\ at' \in NS /\ cur' = base.head[at'] /\ base \in Super
        /\ UNCHANGED <<req, pc, base, walked, touched, staged>>
    BY <1>3, CairnAssumption DEF NextNamespace, NS, TypeOK
  <2>2. cur' \in Slot \cup {NONE}
    BY <2>1, SuperParts
  <2> QED
    BY <1>1, <2>1, <2>2 DEF TypeOK, Control, staged
<1>4. CASE Authorize /\ ~Cleared
  <2>1. /\ pc = "scan" /\ pc' = "retract" /\ at' = 0 /\ cur' = base.head[0]
        /\ UNCHANGED <<req, base, walked, touched, staged>>
    BY <1>4 DEF Authorize
  <2>2. at' \in NS /\ cur' \in Slot \cup {NONE}
    BY <2>1, SuperParts, CairnAssumption DEF NS, TypeOK
  <2> QED
    BY <1>1, <2>1, <2>2 DEF TypeOK, Control, staged
<1>5. CASE Staged
  BY <1>1, <1>5 DEF Staged, TypeOK, Control, walk, staged
<1>6. CASE Cleared
  BY <1>1, <1>6, ClearedTypes
<1> QED
  BY <1>2, <1>3, <1>4, <1>5, <1>6

\* A step of the retraction in sfar_rollback() keeps the types.
LEMMA RetractTypes ==
  ASSUME TypeOK, Control, RetractCommit
  PROVE  TypeOK' /\ Control'
<1>1. /\ pc = "retract" /\ cur \in Slot /\ at \in NS
      /\ UNCHANGED <<disk, req, base, walked, at, touched, appended, nextFree>>
  BY DEF RetractCommit, TypeOK
<1>2. Parent(cur) \in Slot \cup {NONE}
  BY <1>1, RecordParts DEF Parent, TypeOK
<1>3. CASE /\ cur' = Parent(cur) /\ newHead' = [newHead EXCEPT ![at] = Parent(cur)]
           /\ undone' = [undone EXCEPT ![at] = @ + 1] /\ UNCHANGED pc
  <2>1. newHead' \in [NS -> Slot \cup {NONE}]
    BY <1>1, <1>2, <1>3 DEF TypeOK
  <2>2. undone' \in [NS -> Nat]
    BY <1>1, <1>3 DEF TypeOK
  <2> QED
    BY <1>1, <1>2, <1>3, <2>1, <2>2 DEF TypeOK, Control, disk
<1>4. CASE /\ Compensatable(record[cur])
           /\ pc' = "compensate" /\ UNCHANGED <<cur, newHead, undone>>
  <2>1. nextFree < COMMIT_SLOTS
    BY <1>4 DEF Compensatable, SlotAvailable
  <2>2. cur # NONE
    BY DEF RetractCommit
  <2> QED
    BY <1>1, <1>4, <2>1, <2>2 DEF TypeOK, Control, disk
<1>5. CASE cur' = NONE /\ UNCHANGED <<pc, newHead, undone>>
  BY <1>1, <1>5 DEF TypeOK, Control, disk
<1> QED
  BY <1>3, <1>4, <1>5 DEF RetractCommit

\* append_commit_raw() keeps the types.
LEMMA CompensateTypes ==
  ASSUME TypeOK, Control, Compensate
  PROVE  TypeOK' /\ Control'
<1>1. pc = "compensate" /\ at \in NS /\ UNCHANGED super
  BY DEF Compensate, TypeOK
<1>2. NewCompensation \in Record /\ nextFree \in Slot
  BY <1>1, NewCompensationType
<1>3. record' \in {record, [record EXCEPT ![nextFree] = NewCompensation]}
  BY DEF Compensate, NewCompensation, WriteRecord, WriteRecordFails
<1>4. super' \in Super /\ record' \in [Slot -> Record]
  BY <1>1, <1>2, <1>3 DEF TypeOK
<1>5. CASE Cleared
  BY <1>4, <1>5, ClearedTypes
<1>6. CASE /\ newHead' = [newHead EXCEPT ![at] = nextFree]
           /\ appended' = appended \cup {at}
           /\ nextFree' = nextFree + 1
           /\ cur' = NONE
           /\ pc' = "retract"
           /\ UNCHANGED <<req, base, walked, at, touched, undone>>
  <2>1. newHead' \in [NS -> Slot \cup {NONE}]
    BY <1>1, <1>2, <1>6 DEF TypeOK
  <2>2. appended' \in SUBSET NS
    BY <1>1, <1>6 DEF TypeOK
  <2>3. nextFree' \in 0 .. COMMIT_SLOTS
    BY <1>2, <1>6, CairnAssumption DEF Slot
  <2> QED
    BY <1>1, <1>4, <1>6, <2>1, <2>2, <2>3 DEF TypeOK, Control
<1> QED
  BY <1>5, <1>6 DEF Compensate

\* The superblock write, and a crash, keep the types.
LEMMA PublishTypes ==
  ASSUME TypeOK, Control, Publish \/ Crash
  PROVE  TypeOK' /\ Control'
<1>1. CASE Publish
  <2>1. NewSuper \in Super
    BY <1>1, NewSuperType DEF Publish
  <2>2. super' \in {super, NewSuper} /\ UNCHANGED record /\ Cleared
    BY <1>1 DEF Publish, WriteSuper, WriteSuperFails
  <2> QED
    BY <2>1, <2>2, ClearedTypes DEF TypeOK
<1>2. CASE Crash
  BY <1>2, ClearedTypes DEF Crash, TypeOK, disk
<1> QED
  BY <1>1, <1>2

\* A stutter keeps the types.
LEMMA StutterTypes ==
  ASSUME TypeOK, Control, UNCHANGED vars
  PROVE  TypeOK' /\ Control'
BY DEF TypeOK, Control, vars, disk, walk, staged

\* A blank disk and an idle daemon are in their types.
LEMMA InitTypes ==
  ASSUME Init
  PROVE  TypeOK /\ Control
<1>1. 0 \in NS /\ 0 \in 0 .. COMMIT_SLOTS /\ pc = "idle"
  BY CairnAssumption DEF NS, Init
<1>2. super \in Super /\ record \in [Slot -> Record] /\ base \in Super
  BY BlankTypes DEF Init
<1>3. newHead \in [NS -> Slot \cup {NONE}] /\ undone \in [NS -> Nat]
  BY BlankTypes DEF Init
<1>4. TypeOK
  BY <1>1, <1>2, <1>3 DEF Init, TypeOK
<1> QED
  BY <1>1, <1>4 DEF Control

\* Every step keeps the types.
LEMMA TypeStep ==
  ASSUME TypeOK, Control, [Next]_vars
  PROVE  TypeOK' /\ Control'
BY AcceptTypes, CheckTypes, LoadFailsTypes, BeginTypes, WriteCommitTypes, WalkCommitTypes,
   ScanTypes, RetractTypes, CompensateTypes, PublishTypes, StutterTypes
   DEF Next, Serve

\* Every sector access keeps the disk and the daemon's memory in their types, so
\* no slot, ref or count leaves its range.
THEOREM TypeCorrect == Spec => []TypeOK
<1>1. Init => TypeOK /\ Control
  BY InitTypes
<1>2. TypeOK /\ Control /\ [Next]_vars => TypeOK' /\ Control'
  BY TypeStep
<1> QED
  BY <1>1, <1>2, PTL DEF Spec

-----------------------------------------------------------------------------
(* Chains of records.  These operators take the records as a parameter, so    *)
(* that the lemmas compare the sectors before and after a write.              *)

DepthIn(rec, s) == IF s = NONE THEN 0 ELSE rec[s].generation

\* The record in slot s is written and sits on top of an older one.
LinkedIn(rec, s) ==
  /\ rec[s].magic
  /\ rec[s].parent < s
  /\ rec[s].parent # NONE => rec[rec[s].parent].ns = rec[s].ns
  /\ rec[s].generation = DepthIn(rec, rec[s].parent) + 1

Sound(rec, k) == \A s \in Slot : s < k => LinkedIn(rec, s)

\* h is a ref of namespace n to a chain of d commits below slot k.
Ref(rec, h, n, k, d) ==
  /\ h < k
  /\ h # NONE => rec[h].ns = n
  /\ DepthIn(rec, h) = d

Same(rec, new, k) == \A s \in Slot : s < k => new[s] = rec[s]

\* A ref stays a ref while the slots below its bound stay as they are.
LEMMA FrameRef ==
  ASSUME NEW rec, NEW new, NEW k \in 0 .. COMMIT_SLOTS, Same(rec, new, k),
         NEW h \in Slot \cup {NONE}, NEW n, NEW d, Ref(rec, h, n, k, d)
  PROVE  Ref(new, h, n, k, d)
BY DEF Ref, Same, DepthIn

\* Chains stay sound while their slots stay as they are.
LEMMA FrameSound ==
  ASSUME NEW rec \in [Slot -> Record], NEW new, NEW k \in 0 .. COMMIT_SLOTS,
         Same(rec, new, k), Sound(rec, k)
  PROVE  Sound(new, k)
<1> SUFFICES ASSUME NEW s \in Slot, s < k
             PROVE  LinkedIn(new, s)
  BY DEF Sound
<1>1. LinkedIn(rec, s) /\ new[s] = rec[s] /\ rec[s].parent \in Slot \cup {NONE}
  BY RecordParts DEF Sound, Same
<1>2. rec[s].parent # NONE => new[rec[s].parent] = rec[rec[s].parent]
  <2>1. rec[s].parent < k
    BY <1>1, CairnAssumption DEF LinkedIn, Slot, NONE
  <2> QED
    BY <1>1, <2>1 DEF Same
<1>3. DepthIn(new, rec[s].parent) = DepthIn(rec, rec[s].parent)
  BY <1>2 DEF DepthIn
<1> QED
  BY <1>1, <1>2, <1>3 DEF LinkedIn

\* A write to slot s leaves the slots below it as they are.
LEMMA WriteFrame ==
  ASSUME NEW rec \in [Slot -> Record], NEW s \in Slot, NEW r,
         NEW k \in 0 .. COMMIT_SLOTS, k <= s
  PROVE  Same(rec, [rec EXCEPT ![s] = r], k)
BY DEF Same, Slot

\* A ref stays a ref when more slots are in use.
LEMMA RefMono ==
  ASSUME NEW rec, NEW h \in Slot \cup {NONE}, NEW n, NEW d,
         NEW k \in 0 .. COMMIT_SLOTS, NEW l \in 0 .. COMMIT_SLOTS, k <= l,
         Ref(rec, h, n, k, d)
  PROVE  Ref(rec, h, n, l, d)
BY CairnAssumption DEF Ref, Slot, NONE

\* One step along a chain.
LEMMA RefParent ==
  ASSUME NEW rec \in [Slot -> Record], NEW k \in 0 .. COMMIT_SLOTS, Sound(rec, k),
         NEW h \in Slot, NEW n, NEW d \in Int, Ref(rec, h, n, k, d)
  PROVE  d >= 1 /\ Ref(rec, rec[h].parent, n, k, d - 1)
<1>1. /\ h < k /\ h # NONE /\ rec[h].ns = n /\ rec[h].generation = d
      /\ LinkedIn(rec, h)
  BY DEF Ref, DepthIn, Sound, Slot, NONE
<1>2. rec[h].parent \in Slot \cup {NONE} /\ rec[h].parent < h
  BY <1>1, RecordParts DEF LinkedIn
<1>3. DepthIn(rec, rec[h].parent) \in Nat
  BY <1>2, RecordParts DEF DepthIn
<1>4. d = DepthIn(rec, rec[h].parent) + 1
  BY <1>1 DEF LinkedIn
<1>5. rec[h].parent < k
  BY <1>1, <1>2, CairnAssumption DEF Slot, NONE
<1>6. rec[h].parent # NONE => rec[rec[h].parent].ns = n
  BY <1>1 DEF LinkedIn
<1> QED
  BY <1>3, <1>4, <1>5, <1>6 DEF Ref

\* A record on top of a chain, in the first free slot.
LEMMA NewLink ==
  ASSUME NEW rec \in [Slot -> Record], NEW k \in Slot, Sound(rec, k),
         NEW h \in Slot \cup {NONE}, NEW n, NEW d \in Nat, Ref(rec, h, n, k, d),
         NEW r \in Record, r.magic, r.parent = h, r.ns = n, r.generation = d + 1
  PROVE  /\ Sound([rec EXCEPT ![k] = r], k + 1)
         /\ Ref([rec EXCEPT ![k] = r], k, n, k + 1, d + 1)
<1> DEFINE new == [rec EXCEPT ![k] = r]
<1>1. k \in 0 .. COMMIT_SLOTS /\ k <= k /\ k # NONE /\ new[k] = r
  BY CairnAssumption DEF Slot, NONE
<1>2. Same(rec, new, k)
  BY <1>1, WriteFrame
<1>3. Sound(new, k) /\ Ref(new, h, n, k, d)
  BY <1>1, <1>2, FrameSound, FrameRef
<1> HIDE DEF new
<1>4. LinkedIn(new, k)
  <2>1. r.parent < k /\ (r.parent # NONE => new[r.parent].ns = r.ns)
    BY <1>3 DEF Ref
  <2>2. r.generation = DepthIn(new, r.parent) + 1
    BY <1>3 DEF Ref
  <2> QED
    BY <1>1, <2>1, <2>2, Zenon DEF LinkedIn
<1>5. Sound(new, k + 1)
  BY <1>3, <1>4 DEF Sound, Slot
<1>6. Ref(new, k, n, k + 1, d + 1)
  BY <1>1 DEF Ref, DepthIn, Slot
<1> QED
  BY <1>5, <1>6 DEF new

-----------------------------------------------------------------------------
(* The inductive invariant. *)

\* StoreSound and CountIsDepth in terms of refs; an unformatted superblock is blank.
DiskSound ==
  /\ Sound(record, super.next)
  /\ \A n \in NS : Ref(record, super.head[n], n, super.next, super.count[n])
  /\ super.magic \/ super = BlankSuper

\* The superblock in the daemon's memory is the one on the disk.
BaseCurrent == pc \notin {"idle", "check", "load"} => base = super /\ super.magic

\* A request finds the counters of the handlers reset.
Reset ==
  pc \in {"idle", "check", "load"} =>
    walked = 0 /\ undone = [n \in NS |-> 0] /\ appended = {}

\* The record that the superblock is about to refer to is in place.
CommitReady ==
  pc = "publish" /\ req.op = "commit" =>
    /\ Sound(record, super.next + 1)
    /\ Ref(record, super.next, req.ns, super.next + 1, super.count[req.ns] + 1)

\* The walk of a rollback is on the chain, as many commits down as it counted.
WalkReady ==
  pc \in {"walk", "publish"} /\ req.op = "rollback" =>
    Ref(record, cur, req.ns, super.next, super.count[req.ns] - walked)

\* Nothing is staged while a mission is scanned.
ScanReady ==
  pc = "scan" =>
    /\ newHead = super.head
    /\ nextFree = super.next
    /\ undone = [n \in NS |-> 0]
    /\ appended = {}

Appended(n) == IF n \in appended THEN 1 ELSE 0

\* What a mission has staged could be published: the compensations are in place
\* above the slots in use, and every staged ref is a ref.
MissionStaged ==
  pc \in {"retract", "compensate", "publish"} /\ req.op = "sfar_rollback" =>
    /\ super.next <= nextFree
    /\ Sound(record, nextFree)
    /\ \A n \in NS :
         /\ undone[n] <= super.count[n]
         /\ Ref(record, newHead[n], n, nextFree, super.count[n] - undone[n] + Appended(n))

\* The walk of a mission is at the staged ref of a namespace that has no
\* compensation yet, and has not started with the namespaces after it.
MissionWalk ==
  pc \in {"retract", "compensate"} =>
    /\ cur # NONE => newHead[at] = cur /\ at \notin appended
    /\ \A n \in NS : n > at => newHead[n] = super.head[n] /\ n \notin appended

IInv ==
  /\ TypeOK /\ Control
  /\ DiskSound /\ BaseCurrent /\ Reset /\ CommitReady /\ WalkReady
  /\ ScanReady /\ MissionStaged /\ MissionWalk

\* The invariant implies the properties that the runs check.
LEMMA InvariantImplies ==
  ASSUME IInv
  PROVE  StoreSound /\ CountIsDepth
<1>1. /\ \A s \in Slot : s < super.next => LinkedIn(record, s)
      /\ \A n \in NS : Ref(record, super.head[n], n, super.next, super.count[n])
  BY DEF IInv, DiskSound, Sound
<1>2. \A s : Depth(s) = DepthIn(record, s)
  BY DEF Depth, DepthIn
<1>3. StoreSound
  BY <1>1, Zenon DEF StoreSound, LinkedIn, Ref
<1>4. CountIsDepth
  BY <1>1, <1>2 DEF CountIsDepth, LinkedIn, Ref
<1> QED
  BY <1>3, <1>4

\* The types of the parts of the disk.
LEMMA DiskTypes ==
  ASSUME IInv
  PROVE  /\ super \in Super /\ record \in [Slot -> Record]
         /\ super.next \in 0 .. COMMIT_SLOTS /\ super.next \in Nat /\ super.next <= super.next
         /\ super.head \in [NS -> Slot \cup {NONE}]
         /\ super.count \in [NS -> Nat]
<1>1. super \in Super /\ record \in [Slot -> Record]
  BY DEF IInv, TypeOK
<1>2. /\ super.next \in 0 .. COMMIT_SLOTS
      /\ super.head \in [NS -> Slot \cup {NONE}]
      /\ super.count \in [NS -> Nat]
  BY <1>1, SuperParts
<1>3. super.next \in Nat /\ super.next <= super.next
  BY <1>2, CairnAssumption
<1> QED
  BY <1>1, <1>2, <1>3

\* After Cleared only the disk matters.
LEMMA ClearedInv ==
  ASSUME IInv, Cleared, TypeOK', Control', DiskSound'
  PROVE  IInv'
<1>1. pc' = "idle" /\ walked' = 0 /\ undone' = [n \in NS |-> 0] /\ appended' = {}
  BY DEF Cleared, BlankSuper
<1> QED
  BY <1>1 DEF IInv, BaseCurrent, Reset, CommitReady, WalkReady, ScanReady, MissionStaged,
              MissionWalk

\* A blank or freshly formatted superblock has no commits.
LEMMA BlankSound ==
  ASSUME NEW rec, NEW s \in {BlankSuper, FreshSuper}
  PROVE  /\ Sound(rec, s.next)
         /\ \A n \in NS : Ref(rec, s.head[n], n, s.next, s.count[n])
<1>1. s.next = 0 /\ s.head = [n \in NS |-> NONE] /\ s.count = [n \in NS |-> 0]
  BY DEF BlankSuper, FreshSuper
<1>2. Sound(rec, 0)
  BY CairnAssumption DEF Sound, Slot
<1>3. \A n \in NS : Ref(rec, NONE, n, 0, 0)
  BY DEF Ref, DepthIn, NONE
<1> QED
  BY <1>1, <1>2, <1>3

\* Reading, or formatting, the superblock.
LEMMA LoadSound ==
  ASSUME IInv, LoadSuper \/ LoadSuperFails, UNCHANGED record
  PROVE  DiskSound' /\ (LoadSuper => super'.magic)
<1>1. super' = super \/ (super' = FreshSuper /\ ~super.magic)
  BY DEF LoadSuper, LoadSuperFails, Formatted
<1>2. FreshSuper.magic
  BY DEF FreshSuper, BlankSuper
<1>3. CASE super' = super
  <2>1. DiskSound'
    BY <1>3 DEF DiskSound, IInv
  <2>2. LoadSuper => super.magic
    BY <1>2, <1>3, Zenon DEF LoadSuper, Formatted
  <2> QED
    BY <1>3, <2>1, <2>2
<1>4. CASE super' = FreshSuper
  BY <1>2, <1>4, BlankSound DEF DiskSound
<1> QED
  BY <1>1, <1>3, <1>4

\* Taking a request preserves the invariant.
LEMMA AcceptInv ==
  ASSUME IInv, TypeOK', Control', NEW r \in Request, Accept(r)
  PROVE  IInv'
<1>1. /\ pc = "idle" /\ pc' \in {"check", "load"}
      /\ UNCHANGED <<super, record, base, walked, undone, appended>>
  BY DEF Accept, disk, walk, staged
<1>2. DiskSound' /\ Reset'
  BY <1>1 DEF IInv, DiskSound, Reset
<1> QED
  BY <1>1, <1>2 DEF IInv, BaseCurrent, CommitReady, WalkReady, ScanReady, MissionStaged,
                    MissionWalk

\* Requests that end with the superblock read preserve the invariant.
LEMMA LoadInv ==
  ASSUME IInv, TypeOK', Control', Check \/ LoadFails \/ BeginInit
  PROVE  IInv'
<1>1. (LoadSuper \/ LoadSuperFails) /\ UNCHANGED record /\ pc \in {"check", "load"}
  BY DEF Check, LoadFails, BeginInit, Loads
<1>2. DiskSound'
  BY <1>1, LoadSound
<1>3. CASE Cleared
  BY <1>2, <1>3, ClearedInv
<1>4. CASE pc' = "load" /\ UNCHANGED <<req, base, walk, staged>>
  <2>1. Reset'
    BY <1>1, <1>4 DEF IInv, Reset, walk, staged
  <2> QED
    BY <1>2, <1>4, <2>1 DEF IInv, BaseCurrent, CommitReady, WalkReady, ScanReady,
                            MissionStaged, MissionWalk
<1> QED
  BY <1>3, <1>4 DEF Check, LoadFails, BeginInit

\* The first part of every handler preserves the invariant.
LEMMA BeginInv ==
  ASSUME IInv, TypeOK', Control',
         BeginCommit \/ BeginRollback \/ BeginRevocation \/ BeginMission
  PROVE  IInv'
<1>1. LoadSuper /\ UNCHANGED record /\ pc = "load"
  BY DEF BeginCommit, BeginRollback, BeginRevocation, BeginMission, Loads
<1>2. DiskSound' /\ super'.magic
  BY <1>1, LoadSound
<1>3. walked = 0 /\ undone = [n \in NS |-> 0] /\ appended = {}
  BY <1>1 DEF IInv, Reset
<1>4. CASE Cleared
  BY <1>2, <1>4, ClearedInv
<1>5. CASE BeginCommit /\ ~Cleared
  <2>1. base' = super' /\ pc' = "record"
    BY <1>5 DEF BeginCommit
  <2>2. BaseCurrent'
    BY <1>2, <2>1 DEF BaseCurrent
  <2> QED
    BY <1>2, <2>1, <2>2 DEF IInv, Reset, CommitReady, WalkReady, ScanReady, MissionStaged,
                            MissionWalk
<1>6. CASE BeginRollback /\ ~Cleared
  <2>1. /\ base' = super' /\ pc' = "walk" /\ req.op = "rollback" /\ req' = req
        /\ cur' = super'.head[req.ns] /\ walked' = 0
    BY <1>3, <1>6 DEF BeginRollback, Loads
  <2>2. BaseCurrent'
    BY <1>2, <2>1 DEF BaseCurrent
  <2>3. req.ns \in NS
    BY <2>1, RequestFields DEF IInv, TypeOK
  <2>4. super'.count[req.ns] \in Nat
    BY <2>3, SuperParts DEF TypeOK
  <2>5. Ref(record', cur', req.ns, super'.next, super'.count[req.ns])
    BY <1>2, <2>1, <2>3 DEF DiskSound
  <2>6. super'.count[req'.ns] - walked' = super'.count[req.ns]
    BY <2>1, <2>4
  <2>7. WalkReady'
    BY <2>1, <2>5, <2>6, Zenon DEF WalkReady
  <2> QED
    BY <1>2, <2>1, <2>2, <2>7 DEF IInv, Reset, CommitReady, ScanReady, MissionStaged,
                                  MissionWalk
<1>7. CASE BeginRevocation
  <2>1. base' = super' /\ pc' = "publish" /\ req' = req /\ req.op \in {"ns_revoke", "ns_grant"}
    BY <1>7 DEF BeginRevocation, Loads
  <2>2. BaseCurrent'
    BY <1>2, <2>1 DEF BaseCurrent
  <2> QED
    BY <1>2, <2>1, <2>2 DEF IInv, Reset, CommitReady, WalkReady, ScanReady, MissionStaged,
                            MissionWalk
<1>8. CASE BeginMission
  <2>1. /\ base' = super' /\ pc' = "scan"
        /\ newHead' = super'.head /\ nextFree' = super'.next
        /\ undone' = [n \in NS |-> 0] /\ appended' = {}
    BY <1>3, <1>8 DEF BeginMission
  <2>2. BaseCurrent'
    BY <1>2, <2>1 DEF BaseCurrent
  <2>3. ScanReady'
    BY <2>1 DEF ScanReady
  <2> QED
    BY <1>2, <2>1, <2>2, <2>3 DEF IInv, Reset, CommitReady, WalkReady, MissionStaged,
                                  MissionWalk
<1> QED
  BY <1>4, <1>5, <1>6, <1>7, <1>8

\* A write above the slots in use leaves the disk sound.
LEMMA WriteSound ==
  ASSUME IInv, NEW s \in Slot, super.next <= s, NEW r,
         record' \in {record, [record EXCEPT ![s] = r]}, UNCHANGED super
  PROVE  DiskSound' /\ Same(record, record', super.next)
<1>1. record \in [Slot -> Record] /\ super \in Super /\ super.next \in 0 .. COMMIT_SLOTS
  BY SuperParts DEF IInv, TypeOK
<1>2. Same(record, record', super.next)
  <2>1. CASE record' = record
    BY <2>1 DEF Same
  <2>2. CASE record' = [record EXCEPT ![s] = r]
    BY <1>1, <2>2, WriteFrame
  <2> QED
    BY <2>1, <2>2
<1>3. Sound(record', super.next)
  BY <1>1, <1>2, FrameSound DEF IInv, DiskSound
<1>4. ASSUME NEW n \in NS
      PROVE  Ref(record', super.head[n], n, super.next, super.count[n])
  <2>1. super.head[n] \in Slot \cup {NONE}
    BY <1>1, <1>4, SuperParts
  <2>2. Ref(record, super.head[n], n, super.next, super.count[n])
    BY <1>4 DEF IInv, DiskSound
  <2> QED
    BY <1>1, <1>2, <2>1, <2>2, FrameRef
<1>5. super.magic \/ super = BlankSuper
  BY DEF IInv, DiskSound
<1> QED
  BY <1>2, <1>3, <1>4, <1>5, Zenon DEF DiskSound

\* The record write of cairn_commit() preserves the invariant.
LEMMA WriteCommitInv ==
  ASSUME IInv, TypeOK', Control', WriteCommit
  PROVE  IInv'
<1>1. /\ pc = "record" /\ base = super /\ super.magic /\ req.op = "commit"
      /\ CommitRecord(super.next, NewCommit) /\ UNCHANGED super
  BY DEF WriteCommit, NewCommit, IInv, BaseCurrent, Control
<1>2. NewCommit \in Record /\ super.next \in Slot /\ req.ns \in NS
  BY <1>1, NewCommitType DEF IInv
<1>3. record' \in {record, [record EXCEPT ![super.next] = NewCommit]}
  BY <1>1 DEF CommitRecord, WriteRecord, WriteRecordFails
<1>4. DiskSound'
  BY <1>1, <1>2, <1>3, WriteSound DEF Slot
<1>5. CASE Cleared
  BY <1>4, <1>5, ClearedInv
<1>6. CASE /\ record' = [record EXCEPT ![super.next] = NewCommit]
           /\ pc' = "publish" /\ UNCHANGED <<req, base, walk, staged>>
  <2>1. /\ NewCommit.magic /\ NewCommit.parent = super.head[req.ns]
        /\ NewCommit.ns = req.ns /\ NewCommit.generation = super.count[req.ns] + 1
    BY <1>1 DEF NewCommit
  <2>2. super.head[req.ns] \in Slot \cup {NONE} /\ super.count[req.ns] \in Nat
    BY <1>2, SuperParts DEF IInv, TypeOK
  <2>3. /\ Sound(record, super.next)
        /\ Ref(record, super.head[req.ns], req.ns, super.next, super.count[req.ns])
        /\ record \in [Slot -> Record]
    BY <1>2 DEF IInv, DiskSound, TypeOK
  <2>4. /\ Sound(record', super.next + 1)
        /\ Ref(record', super.next, req.ns, super.next + 1, super.count[req.ns] + 1)
    BY <1>2, <1>6, <2>1, <2>2, <2>3, NewLink
  <2>5. CommitReady'
    BY <1>1, <1>6, <2>4 DEF CommitReady
  <2>6. BaseCurrent'
    BY <1>1, <1>6 DEF BaseCurrent
  <2> QED
    BY <1>1, <1>4, <1>6, <2>5, <2>6 DEF IInv, Reset, WalkReady, ScanReady, MissionStaged,
                                        MissionWalk
<1> QED
  BY <1>1, <1>5, <1>6 DEF CommitRecord, WriteRecord

\* A step of cairn_rollback() preserves the invariant.
LEMMA WalkCommitInv ==
  ASSUME IInv, TypeOK', Control', WalkCommit
  PROVE  IInv'
<1>1. /\ pc = "walk" /\ base = super /\ super.magic /\ req.op = "rollback"
      /\ cur \in Slot /\ UNCHANGED <<super, record>>
  BY DEF WalkCommit, IInv, BaseCurrent, Control, TypeOK, disk
<1>2. DiskSound'
  BY <1>1 DEF IInv, DiskSound
<1>3. CASE Cleared
  BY <1>2, <1>3, ClearedInv
<1>4. CASE /\ cur' = Parent(cur) /\ walked' = walked + 1
           /\ pc' = IF walked' < req.steps /\ cur' # NONE THEN "walk" ELSE "publish"
           /\ UNCHANGED <<req, base, at, touched, staged>>
  <2>1. pc' \in {"walk", "publish"} /\ req' = req /\ base' = base
    BY <1>4
  <2>2. req.ns \in NS
    BY <1>1, RequestFields DEF IInv, TypeOK
  <2>3. super.count[req.ns] \in Nat /\ super.next \in 0 .. COMMIT_SLOTS /\ walked \in Nat
    BY <2>2, SuperParts DEF IInv, TypeOK
  <2>4. /\ Sound(record, super.next) /\ record \in [Slot -> Record]
        /\ Ref(record, cur, req.ns, super.next, super.count[req.ns] - walked)
    BY <1>1 DEF IInv, DiskSound, WalkReady, TypeOK
  <2>5. super.count[req.ns] - walked \in Int
    BY <2>3
  <2>6. Ref(record, Parent(cur), req.ns, super.next, (super.count[req.ns] - walked) - 1)
    BY <1>1, <2>3, <2>4, <2>5, RefParent DEF Parent
  <2>7. (super.count[req.ns] - walked) - 1 = super.count[req.ns] - walked'
    BY <1>4, <2>3
  <2>8. WalkReady'
    BY <1>1, <1>4, <2>1, <2>6, <2>7, Zenon DEF WalkReady
  <2>9. BaseCurrent'
    BY <1>1, <2>1 DEF BaseCurrent
  <2> QED
    BY <1>1, <1>2, <2>1, <2>8, <2>9 DEF IInv, Reset, CommitReady, ScanReady, MissionStaged,
                                        MissionWalk
<1> QED
  BY <1>3, <1>4 DEF WalkCommit

\* The scan for the namespaces of a mission preserves the invariant.
LEMMA ScanInv ==
  ASSUME IInv, TypeOK', Control', ScanCommit \/ NextNamespace("scan")
  PROVE  IInv'
<1>1. /\ pc = "scan" /\ base = super /\ super.magic
      /\ UNCHANGED <<super, record, pc, base, staged>>
  BY DEF ScanCommit, NextNamespace, IInv, BaseCurrent, disk
<1>2. DiskSound'
  BY <1>1 DEF IInv, DiskSound
<1>3. BaseCurrent'
  BY <1>1 DEF BaseCurrent
<1>4. ScanReady'
  BY <1>1 DEF IInv, ScanReady, staged
<1> QED
  BY <1>1, <1>2, <1>3, <1>4 DEF IInv, Reset, CommitReady, WalkReady, MissionStaged,
                                MissionWalk

\* sfar_authorized() preserves the invariant; the staging starts from the refs on the disk.
LEMMA AuthorizeInv ==
  ASSUME IInv, TypeOK', Control', Authorize
  PROVE  IInv'
<1>1. pc = "scan" /\ base = super /\ super.magic /\ UNCHANGED <<super, record>>
  BY DEF Authorize, IInv, BaseCurrent, disk
<1>2. DiskSound'
  BY <1>1 DEF IInv, DiskSound
<1>3. CASE Cleared
  BY <1>2, <1>3, ClearedInv
<1>4. CASE /\ pc' = "retract" /\ at' = 0 /\ cur' = base.head[0]
           /\ UNCHANGED <<req, base, walked, touched, staged>>
  <2>1. /\ newHead' = super.head /\ nextFree' = super.next
        /\ undone' = [n \in NS |-> 0] /\ appended' = {}
    BY <1>1, <1>4 DEF IInv, ScanReady, staged
  <2>2. super.next \in Nat /\ super.next <= super.next /\ super.count \in [NS -> Nat]
    BY DiskTypes
  <2>3. ASSUME NEW n \in NS
        PROVE  /\ undone'[n] <= super.count[n]
               /\ Ref(record, super.head[n], n, super.next,
                      super.count[n] - undone'[n] + Appended(n)')
    <3>1. undone'[n] = 0 /\ Appended(n)' = 0
      BY <2>1, <2>3 DEF Appended
    <3>2. super.count[n] - undone'[n] + Appended(n)' = super.count[n]
      BY <2>2, <2>3, <3>1
    <3>3. Ref(record, super.head[n], n, super.next, super.count[n])
      BY <2>3 DEF IInv, DiskSound
    <3>4. undone'[n] <= super.count[n]
      BY <2>2, <2>3, <3>1
    <3> QED
      BY <3>2, <3>3, <3>4
  <2>4. MissionStaged'
    <3>1. super'.next <= nextFree' /\ Sound(record', nextFree')
      BY <1>1, <2>1, <2>2 DEF IInv, DiskSound
    <3> QED
      BY <1>1, <2>1, <2>3, <3>1, Zenon DEF MissionStaged
  <2>5. MissionWalk'
    BY <1>1, <1>4, <2>1 DEF MissionWalk
  <2>6. BaseCurrent'
    BY <1>1, <1>4 DEF BaseCurrent
  <2> QED
    BY <1>2, <1>4, <2>4, <2>5, <2>6 DEF IInv, Reset, CommitReady, WalkReady, ScanReady
<1> QED
  BY <1>3, <1>4 DEF Authorize

\* The facts about a staged mission in the types the provers need.
LEMMA StagedTypes ==
  ASSUME IInv, NEW n \in NS
  PROVE  /\ super.count[n] \in Nat /\ undone[n] \in Nat /\ Appended(n) \in {0, 1}
         /\ newHead[n] \in Slot \cup {NONE} /\ super.head[n] \in Slot \cup {NONE}
         /\ super.next \in 0 .. COMMIT_SLOTS /\ nextFree \in 0 .. COMMIT_SLOTS
         /\ record \in [Slot -> Record]
BY SuperParts DEF IInv, TypeOK, Appended

\* A step of the retraction preserves the invariant: one more undone, one less deep.
LEMMA RetractInv ==
  ASSUME IInv, TypeOK', Control', RetractCommit
  PROVE  IInv'
<1>1. /\ pc = "retract" /\ base = super /\ super.magic /\ req.op = "sfar_rollback"
      /\ cur \in Slot /\ cur # NONE /\ at \in NS
      /\ UNCHANGED <<super, record, req, base, at, appended, nextFree>>
  BY DEF RetractCommit, IInv, BaseCurrent, Control, TypeOK, disk
<1>2. DiskSound' /\ BaseCurrent'
  BY <1>1 DEF IInv, DiskSound, BaseCurrent
<1>3. newHead[at] = cur /\ at \notin appended
  BY <1>1 DEF IInv, MissionWalk
<1>4. /\ super.next <= nextFree /\ Sound(record, nextFree)
      /\ \A n \in NS :
           /\ undone[n] <= super.count[n]
           /\ Ref(record, newHead[n], n, nextFree, super.count[n] - undone[n] + Appended(n))
  BY <1>1 DEF IInv, MissionStaged
<1>5. pc' \in {"retract", "compensate"}
  BY <1>1 DEF RetractCommit
<1>6. MissionStaged' /\ MissionWalk'
  <2>1. CASE UNCHANGED <<newHead, undone>> /\ (cur' = cur \/ cur' = NONE)
    <3>1. MissionStaged'
      BY <1>1, <1>4, <2>1 DEF MissionStaged, Appended
    <3>2. MissionWalk'
      BY <1>1, <2>1 DEF IInv, MissionWalk
    <3> QED
      BY <3>1, <3>2
  <2>2. CASE /\ cur' = Parent(cur) /\ newHead' = [newHead EXCEPT ![at] = Parent(cur)]
             /\ undone' = [undone EXCEPT ![at] = @ + 1] /\ UNCHANGED pc
    <3>1. newHead \in [NS -> Slot \cup {NONE}] /\ undone \in [NS -> Nat]
      BY DEF IInv, TypeOK
    <3>2. \A n \in NS : Appended(n)' = Appended(n)
      BY <1>1 DEF Appended
    <3>3. Appended(at) = 0
      BY <1>3 DEF Appended
    <3>4. /\ super.count[at] - undone[at] \in Int
          /\ super.count[at] - undone[at] + 0 = super.count[at] - undone[at]
      BY <1>1, StagedTypes
    <3>5. Ref(record, cur, at, nextFree, super.count[at] - undone[at])
      BY <1>1, <1>3, <1>4, <3>3, <3>4
    <3>6. /\ super.count[at] - undone[at] >= 1
          /\ Ref(record, Parent(cur), at, nextFree, (super.count[at] - undone[at]) - 1)
      BY <1>1, <1>4, <3>4, <3>5, StagedTypes, RefParent DEF Parent
    <3>7. newHead'[at] = Parent(cur) /\ undone'[at] = undone[at] + 1
      BY <1>1, <2>2, <3>1
    <3>8. /\ undone'[at] <= super.count[at]
          /\ (super.count[at] - undone[at]) - 1 = super.count[at] - undone'[at] + 0
      <4>1. super.count[at] \in Nat /\ undone[at] \in Nat
        BY <1>1, StagedTypes
      <4> QED
        BY <3>6, <3>7, <4>1
    <3>9. ASSUME NEW n \in NS
          PROVE  /\ undone'[n] <= super.count[n]
                 /\ Ref(record, newHead'[n], n, nextFree,
                        super.count[n] - undone'[n] + Appended(n)')
      <4>1. CASE n = at
        <5>1. Appended(n)' = 0
          BY <3>2, <3>3, <4>1
        <5> QED
          BY <3>6, <3>7, <3>8, <4>1, <5>1
      <4>2. CASE n # at
        <5>1. newHead'[n] = newHead[n] /\ undone'[n] = undone[n]
          BY <2>2, <3>1, <3>9, <4>2
        <5> QED
          BY <1>4, <3>2, <3>9, <5>1
      <4> QED
        BY <4>1, <4>2
    <3>10. MissionStaged'
      BY <1>1, <1>4, <3>9, Zenon DEF MissionStaged
    <3>11. ASSUME NEW n \in NS, n > at
           PROVE  newHead'[n] = super.head[n] /\ n \notin appended
      <4>1. newHead[n] = super.head[n] /\ n \notin appended
        BY <1>1, <3>11 DEF IInv, MissionWalk
      <4>2. n # at
        BY <1>1, <3>11 DEF NS
      <4> QED
        BY <2>2, <3>1, <3>11, <4>1, <4>2
    <3>12. MissionWalk'
      BY <1>1, <1>3, <2>2, <3>7, <3>11 DEF MissionWalk
    <3> QED
      BY <3>10, <3>12
  <2> QED
    BY <2>1, <2>2 DEF RetractCommit
<1> QED
  BY <1>1, <1>2, <1>5, <1>6 DEF IInv, Reset, CommitReady, WalkReady, ScanReady

\* Going on to the next namespace, or to the publication, preserves the invariant.
LEMMA NextNamespaceInv ==
  ASSUME IInv, TypeOK', Control', NextNamespace("retract") \/ Staged
  PROVE  IInv'
<1>1. /\ pc = "retract" /\ base = super /\ super.magic /\ req.op = "sfar_rollback"
      /\ UNCHANGED <<super, record, req, base, newHead, undone, appended, nextFree>>
      /\ pc' \in {"retract", "publish"}
  BY DEF NextNamespace, Staged, IInv, BaseCurrent, Control, disk, staged
<1>2. DiskSound' /\ BaseCurrent'
  BY <1>1 DEF IInv, DiskSound, BaseCurrent
<1>3. MissionStaged'
  BY <1>1 DEF IInv, MissionStaged, Appended
<1>4. MissionWalk'
  <2>1. CASE Staged
    BY <2>1 DEF Staged, MissionWalk
  <2>2. CASE NextNamespace("retract")
    <3>1. at \in NS /\ at' = at + 1 /\ at' \in NS /\ cur' = super.head[at']
      BY <1>1, <2>2 DEF NextNamespace, IInv, TypeOK
    <3>2. \A n \in NS : n > at => newHead[n] = super.head[n] /\ n \notin appended
      BY <1>1 DEF IInv, MissionWalk
    <3>3. at' > at /\ \A n \in NS : n > at' => n > at
      BY <3>1 DEF NS
    <3> QED
      BY <1>1, <3>1, <3>2, <3>3 DEF MissionWalk
  <2> QED
    BY <2>1, <2>2
<1> QED
  BY <1>1, <1>2, <1>3, <1>4 DEF IInv, Reset, CommitReady, WalkReady, ScanReady

\* append_commit_raw() preserves the invariant: a link above the slots in use.
LEMMA CompensateInv ==
  ASSUME IInv, TypeOK', Control', Compensate
  PROVE  IInv'
<1>1. /\ pc = "compensate" /\ base = super /\ super.magic /\ req.op = "sfar_rollback"
      /\ cur # NONE /\ at \in NS /\ UNCHANGED super
  BY DEF Compensate, IInv, BaseCurrent, Control, TypeOK
<1>2. NewCompensation \in Record /\ nextFree \in Slot
  BY <1>1, NewCompensationType DEF IInv
<1>3. record' \in {record, [record EXCEPT ![nextFree] = NewCompensation]}
  BY DEF Compensate, NewCompensation, WriteRecord, WriteRecordFails
<1>4. /\ super.next <= nextFree /\ Sound(record, nextFree)
      /\ \A n \in NS :
           /\ undone[n] <= super.count[n]
           /\ Ref(record, newHead[n], n, nextFree, super.count[n] - undone[n] + Appended(n))
  BY <1>1 DEF IInv, MissionStaged
<1>5. DiskSound'
  <2>1. super.next <= nextFree
    BY <1>4
  <2> QED
    BY <1>1, <1>2, <1>3, <2>1, WriteSound
<1>6. CASE Cleared
  BY <1>5, <1>6, ClearedInv
<1>7. CASE /\ record' = [record EXCEPT ![nextFree] = NewCompensation]
           /\ newHead' = [newHead EXCEPT ![at] = nextFree]
           /\ appended' = appended \cup {at}
           /\ nextFree' = nextFree + 1
           /\ cur' = NONE
           /\ pc' = "retract"
           /\ UNCHANGED <<req, base, walked, at, touched, undone>>
  <2>1. newHead[at] = cur /\ at \notin appended
    BY <1>1 DEF IInv, MissionWalk
  <2>2. /\ newHead \in [NS -> Slot \cup {NONE}] /\ cur \in Slot \cup {NONE}
        /\ record \in [Slot -> Record]
    BY DEF IInv, TypeOK
  <2> DEFINE d == super.count[at] - undone[at]
  <2>3. d \in Nat /\ d + 0 = d /\ SaturatingSub(super.count[at], undone[at]) = d
    <3>1. super.count[at] \in Nat /\ undone[at] \in Nat /\ undone[at] <= super.count[at]
      BY <1>1, <1>4, StagedTypes
    <3> QED
      BY <3>1 DEF SaturatingSub
  <2>4. Ref(record, cur, at, nextFree, d)
    BY <1>1, <1>4, <2>1, <2>3 DEF Appended
  <2>5. /\ NewCompensation.magic /\ NewCompensation.parent = cur
        /\ NewCompensation.ns = at /\ NewCompensation.generation = d + 1
    BY <1>1, <2>3 DEF NewCompensation
  <2> HIDE DEF d
  <2>6. Sound(record', nextFree + 1) /\ Ref(record', nextFree, at, nextFree + 1, d + 1)
    BY <1>1, <1>2, <1>4, <1>7, <2>2, <2>3, <2>4, <2>5, NewLink
  <2>7. /\ nextFree \in 0 .. COMMIT_SLOTS /\ nextFree + 1 \in 0 .. COMMIT_SLOTS
        /\ nextFree <= nextFree /\ nextFree <= nextFree + 1 /\ super.next <= nextFree + 1
    <3>1. super.next \in Nat /\ super.next <= nextFree
      BY <1>4, DiskTypes
    <3> QED
      BY <1>2, <3>1, CairnAssumption DEF Slot
  <2>8. Same(record, record', nextFree)
    BY <1>2, <1>7, <2>2, <2>7, WriteFrame
  <2>9. ASSUME NEW n \in NS
        PROVE  Ref(record', newHead'[n], n, nextFree + 1,
                   super.count[n] - undone[n] + Appended(n)')
    <3>1. CASE n = at
      <4>1. newHead'[n] = nextFree /\ Appended(n)' = 1
        BY <1>1, <1>7, <2>2, <3>1 DEF Appended
      <4> QED
        BY <2>6, <3>1, <4>1 DEF d
    <3>2. CASE n # at
      <4>1. newHead'[n] = newHead[n] /\ Appended(n)' = Appended(n)
        BY <1>7, <2>2, <2>9, <3>2 DEF Appended
      <4>2. newHead[n] \in Slot \cup {NONE}
        BY <2>2, <2>9
      <4>3. Ref(record, newHead[n], n, nextFree, super.count[n] - undone[n] + Appended(n))
        BY <1>4, <2>9
      <4>4. Ref(record', newHead[n], n, nextFree, super.count[n] - undone[n] + Appended(n))
        BY <2>7, <2>8, <4>2, <4>3, FrameRef
      <4>5. Ref(record', newHead[n], n, nextFree + 1, super.count[n] - undone[n] + Appended(n))
        BY <2>7, <4>2, <4>4, RefMono
      <4> QED
        BY <4>1, <4>5
    <3> QED
      BY <3>1, <3>2
  <2>10. MissionStaged'
    BY <1>1, <1>4, <1>7, <2>6, <2>7, <2>9, Zenon DEF MissionStaged
  <2>11. ASSUME NEW n \in NS, n > at
         PROVE  newHead'[n] = super.head[n] /\ n \notin appended'
    <3>1. n # at /\ newHead[n] = super.head[n] /\ n \notin appended
      BY <1>1, <2>11 DEF IInv, MissionWalk, NS
    <3> QED
      BY <1>7, <2>2, <2>11, <3>1
  <2>12. MissionWalk'
    BY <1>1, <1>7, <2>11 DEF MissionWalk
  <2>13. BaseCurrent'
    BY <1>1, <1>7 DEF BaseCurrent
  <2> QED
    BY <1>1, <1>5, <1>7, <2>10, <2>12, <2>13 DEF IInv, Reset, CommitReady, WalkReady, ScanReady
<1> QED
  BY <1>6, <1>7 DEF Compensate, NewCompensation, WriteRecord

\* The write of the superblock, operation by operation.
LEMMA PublishSound ==
  ASSUME IInv, pc = "publish"
  PROVE  /\ Sound(record, NewSuper.next)
         /\ \A n \in NS : Ref(record, NewSuper.head[n], n, NewSuper.next, NewSuper.count[n])
         /\ NewSuper.magic
         /\ super.next <= NewSuper.next
<1>1. /\ base = super /\ super.magic /\ super \in Super
      /\ Sound(record, super.next)
      /\ \A n \in NS : Ref(record, super.head[n], n, super.next, super.count[n])
      /\ record \in [Slot -> Record]
  BY DEF IInv, BaseCurrent, DiskSound, TypeOK
<1>2. /\ super.next \in 0 .. COMMIT_SLOTS /\ super.next <= super.next
      /\ super.head \in [NS -> Slot \cup {NONE}]
      /\ super.count \in [NS -> Nat]
  BY DiskTypes
<1>3. CASE req.op = "commit"
  <2>1. req.ns \in NS /\ super.next < COMMIT_SLOTS
    BY <1>1, <1>3, RequestFields DEF IInv, TypeOK, Control
  <2>2. /\ Sound(record, super.next + 1)
        /\ Ref(record, super.next, req.ns, super.next + 1, super.count[req.ns] + 1)
    BY <1>3 DEF IInv, CommitReady
  <2>3. /\ NewSuper.magic /\ NewSuper.next = super.next + 1
        /\ NewSuper.head = [super.head EXCEPT ![req.ns] = super.next]
        /\ NewSuper.count = [super.count EXCEPT ![req.ns] = super.count[req.ns] + 1]
    BY <1>1, <1>3 DEF NewSuper, CommitSuper, SuperWith
  <2>4. super.next <= super.next + 1 /\ super.next + 1 \in 0 .. COMMIT_SLOTS
    BY <1>2, <2>1, CairnAssumption
  <2>5. ASSUME NEW n \in NS
        PROVE  Ref(record, NewSuper.head[n], n, super.next + 1, NewSuper.count[n])
    <3>1. CASE n = req.ns
      BY <1>2, <2>2, <2>3, <3>1
    <3>2. CASE n # req.ns
      <4>1. NewSuper.head[n] = super.head[n] /\ NewSuper.count[n] = super.count[n]
        BY <1>2, <2>3, <2>5, <3>2
      <4> QED
        BY <1>1, <1>2, <2>4, <2>5, <4>1, RefMono
    <3> QED
      BY <3>1, <3>2
  <2> QED
    BY <2>2, <2>3, <2>4, <2>5
<1>4. CASE req.op = "rollback"
  <2>1. req.ns \in NS /\ walked \in Nat
    BY <1>4, RequestFields DEF IInv, TypeOK
  <2>2. Ref(record, cur, req.ns, super.next, super.count[req.ns] - walked)
    BY <1>4 DEF IInv, WalkReady
  <2>3. DepthIn(record, cur) \in Nat
    BY <1>1, RecordParts DEF IInv, TypeOK, DepthIn
  <2>4. SaturatingSub(super.count[req.ns], walked) = super.count[req.ns] - walked
    <3>1. super.count[req.ns] \in Nat /\ super.count[req.ns] - walked \in Nat
      BY <1>2, <2>1, <2>2, <2>3 DEF Ref
    <3> QED
      BY <2>1, <3>1 DEF SaturatingSub
  <2>5. /\ NewSuper.magic /\ NewSuper.next = super.next
        /\ NewSuper.head = [super.head EXCEPT ![req.ns] = cur]
        /\ NewSuper.count = [super.count EXCEPT ![req.ns] = super.count[req.ns] - walked]
    BY <1>1, <1>4, <2>4 DEF NewSuper, RollbackSuper, SuperWith
  <2>6. ASSUME NEW n \in NS
        PROVE  Ref(record, NewSuper.head[n], n, super.next, NewSuper.count[n])
    <3>1. CASE n = req.ns
      BY <1>2, <2>2, <2>5, <3>1
    <3>2. CASE n # req.ns
      <4>1. NewSuper.head[n] = super.head[n] /\ NewSuper.count[n] = super.count[n]
        BY <1>2, <2>5, <2>6, <3>2
      <4> QED
        BY <1>1, <2>6, <4>1
    <3> QED
      BY <3>1, <3>2
  <2> QED
    BY <1>1, <1>2, <2>5, <2>6, Zenon
<1>5. CASE req.op = "sfar_rollback"
  <2>1. /\ super.next <= nextFree /\ Sound(record, nextFree)
        /\ \A n \in NS :
             /\ undone[n] <= super.count[n]
             /\ Ref(record, newHead[n], n, nextFree, super.count[n] - undone[n] + Appended(n))
    BY <1>5 DEF IInv, MissionStaged
  <2>2. /\ NewSuper.magic /\ NewSuper.next = nextFree
        /\ NewSuper.head = [n \in NS |-> IF Moved(n) THEN newHead[n] ELSE super.head[n]]
        /\ NewSuper.count = [n \in NS |-> IF Moved(n) THEN MissionCount(n) ELSE super.count[n]]
    BY <1>1, <1>5 DEF NewSuper, MissionSuper, SuperWith
  <2>3. ASSUME NEW n \in NS
        PROVE  Ref(record, NewSuper.head[n], n, nextFree, NewSuper.count[n])
    <3>1. CASE Moved(n)
      <4>1. SaturatingSub(base.count[n], undone[n]) = super.count[n] - undone[n]
        <5>1. super.count[n] \in Nat /\ undone[n] \in Nat
          BY <2>3, StagedTypes
        <5>2. undone[n] <= super.count[n]
          BY <2>1, <2>3
        <5> QED
          BY <1>1, <5>1, <5>2 DEF SaturatingSub
      <4>2. MissionCount(n) = super.count[n] - undone[n] + Appended(n)
        BY <4>1 DEF MissionCount, Appended
      <4>3. NewSuper.head[n] = newHead[n] /\ NewSuper.count[n] = MissionCount(n)
        BY <2>2, <2>3, <3>1
      <4> QED
        BY <2>1, <2>3, <4>2, <4>3
    <3>2. CASE ~Moved(n)
      <4>1. NewSuper.head[n] = super.head[n] /\ NewSuper.count[n] = super.count[n]
        BY <2>2, <2>3, <3>2
      <4> QED
        BY <1>1, <2>1, <2>3, <4>1, StagedTypes, RefMono
    <3> QED
      BY <3>1, <3>2
  <2> QED
    BY <2>1, <2>2, <2>3
<1>6. CASE req.op \in {"ns_revoke", "ns_grant"}
  <2>1. /\ NewSuper.magic /\ NewSuper.next = super.next
        /\ NewSuper.head = super.head /\ NewSuper.count = super.count
    BY <1>1, <1>6, RevocationSuperFields DEF NewSuper
  <2> QED
    BY <1>1, <1>2, <2>1, Zenon
<1> QED
  BY <1>3, <1>4, <1>5, <1>6 DEF IInv, Control

\* The superblock write, and a crash, preserve the invariant.
LEMMA PublishInv ==
  ASSUME IInv, TypeOK', Control', Publish \/ Crash
  PROVE  IInv'
<1>1. Cleared /\ UNCHANGED record
  BY DEF Publish, Crash, disk
<1>2. DiskSound'
  <2>1. CASE super' = super
    BY <1>1, <2>1 DEF IInv, DiskSound
  <2>2. CASE Publish /\ super' = NewSuper
    <3>1. pc = "publish"
      BY <2>2 DEF Publish
    <3> QED
      BY <1>1, <2>2, <3>1, PublishSound, Zenon DEF DiskSound
  <2> QED
    BY <2>1, <2>2 DEF Publish, Crash, WriteSuper, WriteSuperFails, disk
<1> QED
  BY <1>1, <1>2, ClearedInv

\* A stutter preserves the invariant.
LEMMA StutterInv ==
  ASSUME IInv, TypeOK', Control', UNCHANGED vars
  PROVE  IInv'
<1>1. UNCHANGED <<super, record, req, pc, base, cur, walked, at, newHead, undone, appended,
                  nextFree>>
  BY DEF vars, disk, walk, staged
<1>2. DiskSound' /\ BaseCurrent' /\ Reset' /\ CommitReady' /\ WalkReady'
  BY <1>1 DEF IInv, DiskSound, BaseCurrent, Reset, CommitReady, WalkReady
<1>3. ScanReady' /\ MissionWalk'
  BY <1>1 DEF IInv, ScanReady, MissionWalk
<1>4. MissionStaged'
  BY <1>1 DEF IInv, MissionStaged, Appended
<1> QED
  BY <1>2, <1>3, <1>4 DEF IInv

\* A blank disk satisfies the invariant.
LEMMA InitInv ==
  ASSUME Init
  PROVE  IInv
<1>1. TypeOK /\ Control
  BY InitTypes
<1>2. DiskSound
  BY BlankSound DEF Init, DiskSound
<1>3. Reset
  BY DEF Init, Reset, BlankSuper
<1> QED
  BY <1>1, <1>2, <1>3 DEF Init, IInv, BaseCurrent, CommitReady, WalkReady, ScanReady,
                          MissionStaged, MissionWalk

\* Every step preserves the invariant.
LEMMA InvStep ==
  ASSUME IInv, [Next]_vars
  PROVE  IInv'
<1>1. TypeOK' /\ Control'
  BY TypeStep DEF IInv
<1> QED
  BY <1>1, AcceptInv, LoadInv, BeginInv, WriteCommitInv, WalkCommitInv, ScanInv, AuthorizeInv,
     RetractInv, NextNamespaceInv, CompensateInv, PublishInv, StutterInv
     DEF Next, Serve

\* With any number of namespaces and slots, and a crash or an I/O error at every
\* sector access, the refs in the superblock and the parents in the records refer
\* to written records of their own namespace.
THEOREM DiskStaysSound == Spec => []StoreSound
<1>1. Spec => []IInv
  BY InitInv, InvStep, PTL DEF Spec
<1> QED
  BY <1>1, InvariantImplies, PTL

\* The count of every namespace is the depth of its chain, whichever commits,
\* rollbacks and mission rollbacks were interrupted.
THEOREM CountsAreDepths == Spec => []CountIsDepth
<1>1. Spec => []IInv
  BY InitInv, InvStep, PTL DEF Spec
<1> QED
  BY <1>1, InvariantImplies, PTL

\* No step changes a slot in use or lowers the free-slot pointer.
LEMMA HistoryStep ==
  ASSUME IInv, Next
  PROVE  /\ super.next <= super'.next
         /\ \A s \in Slot : s < super.next => record'[s] = record[s]
<1>1. super.next \in 0 .. COMMIT_SLOTS /\ super.next <= super.next
  BY DiskTypes
<1>2. CASE UNCHANGED <<super, record>>
  BY <1>1, <1>2
<1>3. CASE (LoadSuper \/ LoadSuperFails) /\ UNCHANGED record
  <2>1. super' = super \/ (super' = FreshSuper /\ super = BlankSuper)
    BY <1>3, Zenon DEF LoadSuper, LoadSuperFails, Formatted, IInv, DiskSound
  <2>2. FreshSuper.next = BlankSuper.next
    BY DEF FreshSuper, BlankSuper
  <2> QED
    BY <1>1, <1>3, <2>1, <2>2
<1>4. CASE WriteCommit
  <2>1. /\ pc = "record" /\ base = super /\ UNCHANGED super
        /\ CommitRecord(super.next, NewCommit)
    BY <1>4 DEF WriteCommit, NewCommit, IInv, BaseCurrent
  <2>2. record' \in {record, [record EXCEPT ![super.next] = NewCommit]}
    BY <2>1 DEF CommitRecord, WriteRecord, WriteRecordFails
  <2>3. super.next \in Slot
    BY <2>1, NewCommitType DEF IInv
  <2> QED
    BY <1>1, <2>1, <2>2, <2>3, WriteSound DEF Same
<1>5. CASE Compensate
  <2>1. pc = "compensate" /\ req.op = "sfar_rollback" /\ UNCHANGED super
    BY <1>5 DEF Compensate, IInv, Control
  <2>2. record' \in {record, [record EXCEPT ![nextFree] = NewCompensation]}
    BY <1>5 DEF Compensate, NewCompensation, WriteRecord, WriteRecordFails
  <2>3. nextFree \in Slot /\ super.next <= nextFree
    BY <2>1, NewCompensationType DEF IInv, MissionStaged
  <2> QED
    BY <1>1, <2>1, <2>2, <2>3, WriteSound DEF Same
<1>6. CASE Publish /\ super' = NewSuper
  <2>1. pc = "publish" /\ UNCHANGED record
    BY <1>6 DEF Publish
  <2> QED
    BY <1>6, <2>1, PublishSound
<1> QED
  BY <1>2, <1>3, <1>4, <1>5, <1>6
     DEF Next, Serve, Accept, Check, LoadFails, BeginInit, BeginCommit, BeginRollback,
         BeginRevocation, BeginMission, Loads, WalkCommit, ScanCommit, NextNamespace,
         Authorize, RetractCommit, Staged, Publish, Crash, WriteSuper, WriteSuperFails,
         disk, vars

\* A slot below the free-slot pointer is written once; no handler and no restart
\* changes it or gives it back.
THEOREM HistoryIsKept == Spec => HistoryKept
<1>1. Spec => []IInv
  BY InitInv, InvStep, PTL DEF Spec
<1>2. IInv /\ [Next]_vars => [/\ super.next <= super'.next
                             /\ \A s \in Slot : s < super.next => record'[s] = record[s]]_vars
  BY HistoryStep
<1> QED
  BY <1>1, <1>2, PTL DEF Spec, HistoryKept
=============================================================================
