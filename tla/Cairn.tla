-------------------------------- MODULE Cairn --------------------------------
(***************************************************************************)
(* The commit log of the block daemon, dezh-boot/virtio-blk/src/main.rs:   *)
(* one superblock sector and one sector per commit record.                 *)
(*                                                                         *)
(* The daemon serves one request at a time.  A step is one sector access   *)
(* with the computation that follows it, because the machine may stop, or  *)
(* the device report an error, at each of them.  What the daemon has in    *)
(* memory is lost in a crash; the two disk variables stay.                 *)
(***************************************************************************)
EXTENDS Integers, FiniteSets

CONSTANTS
  NS_MAX,         \* namespaces (8 in the code)
  COMMIT_SLOTS,   \* commit sectors (255 in the code)
  Effects,        \* what clients commit
  Steps,          \* how far clients roll a namespace back
  Holdings,       \* the sets of namespaces that clients hold a capability for
  Missions,       \* intents whose effects are rolled back as a whole
  IOFails         \* whether the device may report an error

NS == 0 .. NS_MAX - 1
Slot == 0 .. COMMIT_SLOTS - 1
NONE == -1
Class == {"reversible", "compensatable", "irreversible", "unknown"}

\* An effect: its intent, its class, and whether its value carries a registered
\* compensating action.
Effect == [intent : Nat, cls : Class, comp : BOOLEAN]

ASSUME CairnAssumption ==
  /\ NS_MAX \in Nat \ {0}
  /\ COMMIT_SLOTS \in Nat
  /\ Effects \subseteq Effect
  /\ Steps \subseteq Nat \ {0}
  /\ Holdings \subseteq SUBSET NS
  /\ Missions \subseteq Nat \ {0}
  /\ IOFails \in BOOLEAN

\* CommitHeader, as far as anything but a printout reads it.
Record ==
  [magic : BOOLEAN, parent : Slot \cup {NONE}, ns : NS, intent : Nat, cls : Class,
   comp : BOOLEAN, status : {"committed", "compensation"}, generation : Nat]

Super ==
  [magic : BOOLEAN, next : 0 .. COMMIT_SLOTS, head : [NS -> Slot \cup {NONE}],
   count : [NS -> Nat], revoked : SUBSET NS]

\* A sector of a blank disk has no magic.
BlankRecord ==
  [magic |-> FALSE, parent |-> NONE, ns |-> 0, intent |-> 0, cls |-> "reversible",
   comp |-> FALSE, status |-> "committed", generation |-> 0]

BlankSuper ==
  [magic |-> FALSE, next |-> 0, head |-> [n \in NS |-> NONE], count |-> [n \in NS |-> 0],
   revoked |-> {}]

FreshSuper == [BlankSuper EXCEPT !.magic = TRUE]

\* Requests that change the disk.  "init" stands for the ones that at most
\* format it: CAIRN_INIT, and those that only read.
Request ==
  [op : {"init"}] \cup
  [op : {"commit"}, ns : NS, effect : Effects] \cup
  [op : {"rollback"}, ns : NS, steps : Steps] \cup
  [op : {"ns_revoke", "ns_grant"}, ns : NS] \cup
  [op : {"sfar_rollback"}, ahd : Missions, holds : Holdings]

NoRequest == [op |-> "none"]

VARIABLES
  (* the disk *)
  super,      \* the superblock sector
  record,     \* the commit sectors
  (* the daemon *)
  req,        \* the request it serves
  pc,         \* the sector access it makes next
  base,       \* the superblock it has read
  cur,        \* the commit its walk has reached
  walked,     \* steps of cairn_rollback()
  at,         \* the namespace that sfar_rollback() walks
  touched,    \* namespaces with effects of the mission
  newHead, undone, appended, nextFree   \* what sfar_rollback() stages

disk == <<super, record>>
walk == <<cur, walked, at, touched>>
staged == <<newHead, undone, appended, nextFree>>
vars == <<disk, req, pc, base, walk, staged>>

Cleared ==
  /\ req' = NoRequest
  /\ pc' = "idle"
  /\ base' = BlankSuper
  /\ cur' = NONE /\ walked' = 0 /\ at' = 0 /\ touched' = {}
  /\ newHead' = BlankSuper.head /\ undone' = BlankSuper.count
  /\ appended' = {} /\ nextFree' = 0

Init ==
  /\ super = BlankSuper
  /\ record = [s \in Slot |-> BlankRecord]
  /\ req = NoRequest
  /\ pc = "idle"
  /\ base = BlankSuper
  /\ cur = NONE /\ walked = 0 /\ at = 0 /\ touched = {}
  /\ newHead = BlankSuper.head /\ undone = BlankSuper.count
  /\ appended = {} /\ nextFree = 0

-----------------------------------------------------------------------------
(* Sector accesses.  An error may be reported of a write that reached the     *)
(* sector as well as of one that did not.                                     *)

\* cairn_load_super(): a blank disk is formatted.
Formatted == IF super.magic THEN super ELSE FreshSuper

LoadSuper == super' = Formatted
LoadSuperFails == IOFails /\ super' \in {super, Formatted}

\* The superblock with new refs and a new free slot.
SuperWith(next, head, count) ==
  [magic |-> super.magic, next |-> next, head |-> head, count |-> count,
   revoked |-> super.revoked]

WriteSuper(new) == super' = new
WriteSuperFails(new) == IOFails /\ super' \in {super, new}

WriteRecord(s, new) == record' = [record EXCEPT ![s] = new]
WriteRecordFails(s, new) == IOFails /\ record' \in {record, [record EXCEPT ![s] = new]}

\* The read of a commit sector fails, or finds no magic.
Unreadable(s) == IOFails \/ ~record[s].magic

-----------------------------------------------------------------------------
(* The daemon's loop up to the superblock read of the request. *)

\* A request of a client that holds its namespace; the others are refused.
\* Commits and rollbacks are first tested against the revocation flag.
Accept(r) ==
  /\ pc = "idle"
  /\ req' = r
  /\ pc' = IF r.op \in {"commit", "rollback"} THEN "check" ELSE "load"
  /\ UNCHANGED <<disk, base, walk, staged>>

\* cairn_ns_revoked(): a superblock that cannot be read counts as not revoked.
Check ==
  /\ pc = "check"
  /\ \/ /\ LoadSuper
        /\ req.ns \in super'.revoked
        /\ Cleared
     \/ /\ (LoadSuper /\ req.ns \notin super'.revoked) \/ LoadSuperFails
        /\ pc' = "load"
        /\ UNCHANGED <<req, base, walk, staged>>
  /\ UNCHANGED record

LoadFails ==
  /\ pc = "load"
  /\ LoadSuperFails
  /\ Cleared
  /\ UNCHANGED record

\* The handler of op has read the superblock into base.
Loads(op) ==
  /\ pc = "load"
  /\ req.op \in op
  /\ LoadSuper
  /\ UNCHANGED record

BeginInit ==
  /\ Loads({"init"})
  /\ Cleared

-----------------------------------------------------------------------------
(* cairn_commit(). *)

SlotAvailable(next) == next < COMMIT_SLOTS

BeginCommit ==
  /\ Loads({"commit"})
  /\ IF SlotAvailable(super'.next)
     THEN /\ base' = super'
          /\ pc' = "record"
          /\ UNCHANGED <<req, walk, staged>>
     ELSE Cleared

\* Defect: the error status of the record write is ignored.
CommitRecordUnchecked(s, new) ==
  /\ WriteRecord(s, new) \/ WriteRecordFails(s, new)
  /\ pc' = "publish"
  /\ UNCHANGED <<req, base, walk, staged>>

CommitRecord(s, new) ==
  \/ /\ WriteRecord(s, new)
     /\ pc' = "publish"
     /\ UNCHANGED <<req, base, walk, staged>>
  \/ /\ WriteRecordFails(s, new)
     /\ Cleared

\* The record goes to the free slot, on top of the namespace's head ...
WriteCommit ==
  /\ pc = "record"
  /\ CommitRecord(base.next,
       [magic |-> TRUE, parent |-> base.head[req.ns], ns |-> req.ns,
        intent |-> req.effect.intent, cls |-> req.effect.cls, comp |-> req.effect.comp,
        status |-> "committed", generation |-> base.count[req.ns] + 1])
  /\ UNCHANGED super

\* ... and then the superblock refers to it.
CommitSuper ==
  SuperWith(base.next + 1, [super.head EXCEPT ![req.ns] = base.next],
            [super.count EXCEPT ![req.ns] = base.count[req.ns] + 1])

-----------------------------------------------------------------------------
(* cairn_rollback() and cairn_ns_set_revoked(). *)

SaturatingSub(a, b) == IF a < b THEN 0 ELSE a - b

BeginRollback ==
  /\ Loads({"rollback"})
  /\ IF super'.head[req.ns] # NONE
     THEN /\ base' = super'
          /\ cur' = super'.head[req.ns]
          /\ pc' = "walk"
          /\ UNCHANGED <<req, walked, at, touched, staged>>
     ELSE Cleared

Parent(s) == record[s].parent

\* One commit of the walk; after the last one the superblock is written.
WalkCommit ==
  /\ pc = "walk"
  /\ \/ /\ record[cur].magic
        /\ cur' = Parent(cur)
        /\ walked' = walked + 1
        /\ pc' = IF walked' < req.steps /\ cur' # NONE THEN "walk" ELSE "publish"
        /\ UNCHANGED <<req, base, at, touched, staged>>
     \/ Unreadable(cur) /\ Cleared
  /\ UNCHANGED disk

\* Defect: a rollback that frees the slots above the new head.
RollbackSuperFrees ==
  SuperWith(cur + 1, [super.head EXCEPT ![req.ns] = cur],
            [super.count EXCEPT ![req.ns] = SaturatingSub(base.count[req.ns], walked)])

RollbackSuper ==
  SuperWith(super.next, [super.head EXCEPT ![req.ns] = cur],
            [super.count EXCEPT ![req.ns] = SaturatingSub(base.count[req.ns], walked)])

BeginRevocation ==
  /\ Loads({"ns_revoke", "ns_grant"})
  /\ base' = super'
  /\ pc' = "publish"
  /\ UNCHANGED <<req, walk, staged>>

RevocationSuper ==
  [super EXCEPT !.revoked = IF req.op = "ns_revoke" THEN @ \cup {req.ns} ELSE @ \ {req.ns}]

-----------------------------------------------------------------------------
(* sfar_rollback(): find the namespaces the mission touched, then stage the   *)
(* retraction of each, then write the superblock once.                        *)

BeginMission ==
  /\ Loads({"sfar_rollback"})
  /\ base' = super'
  /\ pc' = "scan"
  /\ cur' = super'.head[0]
  /\ newHead' = super'.head
  /\ nextFree' = super'.next
  /\ UNCHANGED <<req, walked, at, touched, undone, appended>>

\* sfar_touched_ns(): one commit; an unreadable one ends the namespace's walk.
ScanCommit ==
  /\ pc = "scan"
  /\ cur # NONE
  /\ \/ /\ record[cur].magic
        /\ touched' = IF record[cur].intent = req.ahd THEN touched \cup {at} ELSE touched
        /\ cur' = Parent(cur)
     \/ /\ Unreadable(cur)
        /\ cur' = NONE
        /\ UNCHANGED touched
  /\ UNCHANGED <<disk, req, pc, base, walked, at, staged>>

\* Defect: the scan starts again after the last namespace.
NextNamespaceWraps(phase) ==
  /\ pc = phase
  /\ cur = NONE
  /\ phase = "scan" \/ at + 1 < NS_MAX
  /\ at' = (at + 1) % NS_MAX
  /\ cur' = base.head[at']
  /\ UNCHANGED <<disk, req, pc, base, walked, touched, staged>>

\* The walk of one namespace is over; the next one starts.
NextNamespace(phase) ==
  /\ pc = phase
  /\ cur = NONE
  /\ at + 1 < NS_MAX
  /\ at' = at + 1
  /\ cur' = base.head[at + 1]
  /\ UNCHANGED <<disk, req, pc, base, walked, touched, staged>>

\* sfar_authorized(): all the namespaces the mission touched, or nothing.
Authorize ==
  /\ pc = "scan"
  /\ cur = NONE
  /\ at + 1 = NS_MAX
  /\ IF touched \subseteq req.holds
     THEN /\ pc' = "retract"
          /\ at' = 0
          /\ cur' = base.head[0]
          /\ UNCHANGED <<req, base, walked, touched, staged>>
     ELSE Cleared
  /\ UNCHANGED disk

\* Defect: a commit of another intent is retracted as well.
InMissionAny(r) == TRUE

InMission(r) == r.intent = req.ahd

Retractable(r) == InMission(r) /\ r.cls = "reversible"
Compensatable(r) ==
  InMission(r) /\ r.cls = "compensatable" /\ r.comp /\ SlotAvailable(nextFree)

\* One commit: its ref moves back, a compensation is to be written, or the walk
\* of the namespace ends here, because the commit is not of the mission, cannot
\* be undone or cannot be read.
RetractCommit ==
  /\ pc = "retract"
  /\ cur # NONE
  /\ \/ /\ record[cur].magic
        /\ Retractable(record[cur])
        /\ cur' = Parent(cur)
        /\ newHead' = [newHead EXCEPT ![at] = Parent(cur)]
        /\ undone' = [undone EXCEPT ![at] = @ + 1]
        /\ UNCHANGED pc
     \/ /\ record[cur].magic
        /\ Compensatable(record[cur])
        /\ pc' = "compensate"
        /\ UNCHANGED <<cur, newHead, undone>>
     \/ /\ \/ Unreadable(cur)
           \/ ~Retractable(record[cur]) /\ ~Compensatable(record[cur])
        /\ cur' = NONE
        /\ UNCHANGED <<pc, newHead, undone>>
  /\ UNCHANGED <<disk, req, base, walked, at, touched, appended, nextFree>>

\* append_commit_raw(): the compensation, on top of the commit it undoes.
Compensate ==
  LET new == [magic |-> TRUE, parent |-> cur, ns |-> at, intent |-> req.ahd,
              cls |-> "reversible", comp |-> FALSE, status |-> "compensation",
              generation |-> SaturatingSub(base.count[at], undone[at]) + 1]
  IN
  /\ pc = "compensate"
  /\ \/ /\ WriteRecord(nextFree, new)
        /\ newHead' = [newHead EXCEPT ![at] = nextFree]
        /\ appended' = appended \cup {at}
        /\ nextFree' = nextFree + 1
        /\ cur' = NONE
        /\ pc' = "retract"
        /\ UNCHANGED <<req, base, walked, at, touched, undone>>
     \/ WriteRecordFails(nextFree, new) /\ Cleared
  /\ UNCHANGED super

Staged ==
  /\ pc = "retract"
  /\ cur = NONE
  /\ at + 1 = NS_MAX
  /\ pc' = "publish"
  /\ UNCHANGED <<disk, req, base, walk, staged>>

Moved(n) == undone[n] > 0 \/ n \in appended

MissionCount(n) ==
  SaturatingSub(base.count[n], undone[n]) + IF n \in appended THEN 1 ELSE 0

MissionSuper ==
  SuperWith(nextFree, [n \in NS |-> IF Moved(n) THEN newHead[n] ELSE super.head[n]],
            [n \in NS |-> IF Moved(n) THEN MissionCount(n) ELSE super.count[n]])

-----------------------------------------------------------------------------
NewSuper ==
  CASE req.op = "commit" -> CommitSuper
    [] req.op = "rollback" -> RollbackSuper
    [] req.op = "sfar_rollback" -> MissionSuper
    [] OTHER -> RevocationSuper

\* The superblock, read again, is changed and written; then the reply is sent.
Publish ==
  /\ pc = "publish"
  /\ WriteSuper(NewSuper) \/ WriteSuperFails(NewSuper)
  /\ Cleared
  /\ UNCHANGED record

\* The machine stops, or the daemon dies, and starts again.
Crash ==
  /\ pc # "idle"
  /\ Cleared
  /\ UNCHANGED disk

Serve ==
  \/ Check
  \/ LoadFails
  \/ BeginInit
  \/ BeginCommit
  \/ WriteCommit
  \/ BeginRollback
  \/ WalkCommit
  \/ BeginRevocation
  \/ BeginMission
  \/ ScanCommit
  \/ NextNamespace("scan")
  \/ Authorize
  \/ RetractCommit
  \/ Compensate
  \/ NextNamespace("retract")
  \/ Staged
  \/ Publish

Next == (\E r \in Request : Accept(r)) \/ Serve \/ Crash

Spec == Init /\ [][Next]_vars

\* The daemon goes on with a request; nobody has to make one.
FairSpec == Spec /\ WF_vars(Serve)

-----------------------------------------------------------------------------
TypeOK ==
  /\ super \in Super
  /\ record \in [Slot -> Record]
  /\ req \in Request \cup {NoRequest}
  /\ pc \in {"idle", "check", "load", "record", "walk", "scan", "retract", "compensate",
             "publish"}
  /\ base \in Super
  /\ cur \in Slot \cup {NONE}
  /\ walked \in Nat
  /\ at \in NS
  /\ touched \in SUBSET NS
  /\ newHead \in [NS -> Slot \cup {NONE}]
  /\ undone \in [NS -> Nat]
  /\ appended \in SUBSET NS
  /\ nextFree \in 0 .. COMMIT_SLOTS

\* Whatever has failed and wherever the machine has stopped, the superblock
\* refers to records that were written, each refers to an older one, and a
\* chain stays in its namespace: the order "record, then superblock".
StoreSound ==
  /\ \A s \in Slot : s < super.next =>
       /\ record[s].magic
       /\ record[s].parent < s
       /\ record[s].parent # NONE => record[record[s].parent].ns = record[s].ns
  /\ \A n \in NS :
       /\ super.head[n] < super.next
       /\ super.head[n] # NONE => record[super.head[n]].ns = n

Depth(s) == IF s = NONE THEN 0 ELSE record[s].generation

\* The commit count of a namespace is the length of its chain and the generation
\* of its head, through commits, rollbacks, compensations and failures.
CountIsDepth ==
  /\ \A s \in Slot : s < super.next => record[s].generation = Depth(record[s].parent) + 1
  /\ \A n \in NS : super.count[n] = Depth(super.head[n])

\* A slot the superblock counts as used is never written again and never given
\* back: "history preserved", also by rollbacks and after crashes.
HistoryKept ==
  [][/\ super.next <= super'.next
     /\ \A s \in Slot : s < super.next => record'[s] = record[s]]_vars

\* Every request ends: the walks along parents, which sfar_rollback() does
\* without a bound, reach the end of a chain.
EveryRequestEnds == pc # "idle" ~> pc = "idle"
=============================================================================
