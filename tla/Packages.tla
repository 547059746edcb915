------------------------------ MODULE Packages ------------------------------
(***************************************************************************)
(* The package store, dezh-boot/src/pkg.rs: a registry, a transaction      *)
(* journal and three blob areas per slot on the disk; a copy of the        *)
(* registry and the loaded packages in the kernel's memory.                *)
(*                                                                         *)
(* The console runs one command at a time.  A step is one group of sector  *)
(* accesses (the registry, the journal, a blob) with the computation that  *)
(* follows it.  The machine may stop in the middle of one, or the block    *)
(* service report an error, and then a part of the group is on the disk.   *)
(***************************************************************************)
EXTENDS Naturals, FiniteSets

CONSTANTS
  MAX_PKGS,       \* registry slots (8 in the code)
  SectorSlots,    \* registry entries in a sector (4 in the code)
  Package,        \* packages that are uploaded; a checksum identifies one
  Name,           \* their names
  Commands,       \* the kinds of command the console is given
  RestartAfterFailure, \* TRUE: the machine is restarted after a command that failed halfway
  NoPkg, Blank, Torn  \* no package; a wiped blob; a blob written in part

Slot == 0 .. MAX_PKGS - 1
Area == {"active", "previous", "stage"}
State ==
  {"Empty", "Active", "Removed", "Corrupt", "PendingInstall", "PendingRemove", "Quarantined"}
Pending == {"PendingInstall", "PendingRemove"}

\* Capabilities are numbers, as bits of a mask are.
ASSUME PackageAssumption ==
  /\ MAX_PKGS \in Nat \ {0}
  /\ SectorSlots \in Nat \ {0}
  /\ RestartAfterFailure \in BOOLEAN
  /\ IsFiniteSet(Package)
  /\ Package \subseteq [name : Name, version : Nat, caps : SUBSET Nat]
  /\ NoPkg \notin Package /\ Blank \notin Package /\ Torn \notin Package
  /\ Blank # Torn

\* A registry entry: its state, what it describes, the verified previous
\* version with its flag, and the pin.
Entry ==
  [state : State, pkg : Package \cup {NoPkg}, prev : Package \cup {NoPkg}, pinned : BOOLEAN]

EmptyEntry == [state |-> "Empty", pkg |-> NoPkg, prev |-> NoPkg, pinned |-> FALSE]

\* encode_registry_entry() clears the flags and the previous version.
EncodeEntry(p) == [state |-> "PendingInstall", pkg |-> p, prev |-> NoPkg, pinned |-> FALSE]

Phase == {"Started", "BlobWritten", "RegistryPending"}
JournalRecord ==
  [op : {"recv", "update", "rollback", "remove"}, phase : Phase, slot : Slot,
   old : State, pkg : Package]

EmptyJournal == [op |-> "none"]
CorruptJournal == [op |-> "corrupt"]

Command ==
  {c \in [op : {"recv"}, pkg : Package] \cup
         [op : {"update"}, pkg : Package, allow : BOOLEAN] \cup
         [op : {"rollback"}, name : Name, force : BOOLEAN] \cup
         [op : {"remove", "pin", "unpin"}, name : Name] \cup
         [op : {"gc", "recover", "store", "look", "fault"}] : c.op \in Commands}

NoCommand == [op |-> "none"]

VARIABLES
  (* the disk *)
  registry, journal, blob,
  (* the kernel's memory *)
  mem,          \* REGISTRY
  loaded,       \* PKGS: the package a slot can run
  storeLoaded, degraded,
  (* the command *)
  cmd, pc,
  rec,          \* the journal record of its transaction, or of the recovered one
  slot,         \* the slot that is loaded or wiped next
  (* history *)
  failed        \* the block service has reported an error to the last command

disk == <<registry, journal, blob>>
memory == <<mem, loaded, storeLoaded, degraded>>
control == <<cmd, pc, rec, slot>>
vars == <<disk, memory, control, failed>>

NoEntries == [s \in Slot |-> EmptyEntry]
NoneLoaded == [s \in Slot |-> NoPkg]

Init ==
  /\ registry = NoEntries
  /\ journal = EmptyJournal
  /\ blob = [a \in Area, s \in Slot |-> Blank]
  /\ mem = NoEntries
  /\ loaded = NoneLoaded
  /\ storeLoaded = FALSE /\ degraded = FALSE
  /\ cmd = NoCommand /\ pc = "idle" /\ rec = EmptyJournal /\ slot = 0
  /\ failed = FALSE

-----------------------------------------------------------------------------
(* The end of a command, and of a boot. *)

Idle == cmd' = NoCommand /\ pc' = "idle" /\ rec' = EmptyJournal /\ slot' = 0

\* invalidate_loaded().  REGISTRY and PKGS keep their contents in the code; they
\* are read from the disk before their next use.
InvalidateLoaded ==
  /\ mem' = NoEntries
  /\ loaded' = NoneLoaded
  /\ storeLoaded' = FALSE

\* set_degraded(true).
Degrade == degraded' = TRUE /\ InvalidateLoaded

\* The block service reports an error: the command returns and leaves the memory
\* as it is then; a recovery also degrades the store.
Recovering == pc \in {"recover", "repromote", "recommit", "reclear"}
Abandon ==
  /\ failed' = TRUE
  /\ IF Recovering THEN Degrade
     ELSE /\ IF storeLoaded THEN UNCHANGED <<mem, loaded, storeLoaded>> ELSE InvalidateLoaded
          /\ UNCHANGED degraded
  /\ Idle

\* The machine stops and boots again.
Reboot ==
  /\ InvalidateLoaded
  /\ degraded' = FALSE
  /\ failed' = FALSE
  /\ Idle

Stop == Abandon \/ Reboot

-----------------------------------------------------------------------------
(* Sector accesses.  Each has a form that completes, and one that stops with  *)
(* nothing, a part, or all of it on the disk.                                 *)

\* write_registry(): the sectors in order.
RegistryUpTo(k) == [s \in Slot |-> IF s \div SectorSlots < k THEN mem[s] ELSE registry[s]]
WriteRegistry == registry' = mem /\ UNCHANGED <<journal, blob>>
RegistryInPart ==
  /\ \E k \in 0 .. MAX_PKGS \div SectorSlots + 1 : registry' = RegistryUpTo(k)
  /\ UNCHANGED <<journal, blob>>

\* write_journal_raw(): the record is in the first of its sectors, the others
\* are zero in every record.
WriteJournal(j) == journal' = j /\ UNCHANGED <<registry, blob>>
JournalInPart(j) == journal' \in {journal, j} /\ UNCHANGED <<registry, blob>>

\* write_blob_at() and zero_blob_area().
WriteBlob(a, s, b) == blob' = [blob EXCEPT ![a, s] = b] /\ UNCHANGED <<registry, journal>>
BlobInPart(a, s, b) ==
  /\ \E c \in {blob[a, s], b} \cup (IF blob[a, s] = b THEN {} ELSE {Torn}) :
       blob' = [blob EXCEPT ![a, s] = c]
  /\ UNCHANGED <<registry, journal>>

SetState(s, st) == mem' = [mem EXCEPT ![s].state = st]

-----------------------------------------------------------------------------
(* A command is given.  All but the recovering ones and the injected fault    *)
(* start with ensure_loaded().                                                *)

Give(c) ==
  /\ pc = "idle"
  /\ ~(RestartAfterFailure /\ failed /\ storeLoaded)
  /\ cmd' = c
  /\ failed' = FALSE
  /\ pc' = IF c.op = "fault" THEN "fault"
           ELSE IF storeLoaded /\ c.op \notin {"recover", "store"} THEN "exec" ELSE "load"
  /\ UNCHANGED <<disk, memory, rec, slot>>

ReadRegistry ==
  /\ pc = "load"
  /\ \/ /\ mem' = registry
        /\ pc' = "recover"
        /\ UNCHANGED <<loaded, storeLoaded, degraded, cmd, rec, slot, failed>>
     \/ Abandon
  /\ UNCHANGED disk

\* pkg_fault("corrupt-journal").
Fault ==
  /\ pc = "fault"
  /\ \/ /\ WriteJournal(CorruptJournal)
        /\ InvalidateLoaded
        /\ Idle
        /\ UNCHANGED <<degraded, failed>>
     \/ JournalInPart(CorruptJournal) /\ Stop

-----------------------------------------------------------------------------
(* recover_from_journal(). *)

\* Recovery is over: the recovering commands end, the others load the store.
Recovered ==
  /\ degraded' = FALSE
  /\ IF cmd.op \in {"recover", "store"} THEN Idle
     ELSE pc' = "reload" /\ rec' = EmptyJournal /\ UNCHANGED <<cmd, slot>>

NothingToRecover ==
  /\ pc = "recover"
  /\ journal = EmptyJournal
  /\ Recovered
  /\ IF storeLoaded THEN UNCHANGED <<mem, loaded, storeLoaded>> ELSE InvalidateLoaded
  /\ UNCHANGED <<disk, failed>>

\* The journal cannot be read, or it is corrupt and nobody asked to recover.
CannotRecover ==
  /\ pc = "recover"
  /\ \/ Abandon
     \/ journal = CorruptJournal /\ cmd.op # "recover" /\ Degrade /\ Idle /\ UNCHANGED failed
  /\ UNCHANGED disk

Resolve(new) ==
  /\ mem' = new
  /\ pc' = "recommit"
  /\ rec' = journal
  /\ UNCHANGED <<disk, loaded, storeLoaded, degraded, cmd, slot>>

\* pkg_recover() with a corrupt journal: quarantine_pending_slots().
QuarantinePending ==
  /\ pc = "recover"
  /\ journal = CorruptJournal
  /\ cmd.op = "recover"
  /\ Resolve([s \in Slot |-> IF mem[s].state \in Pending
                             THEN [mem[s] EXCEPT !.state = "Quarantined"] ELSE mem[s]])
  /\ UNCHANGED failed

\* rollback_slot_to_old_state().
OldState(j) ==
  [mem EXCEPT ![j.slot] = IF j.old = "Empty" THEN EmptyEntry ELSE [@ EXCEPT !.state = j.old]]

Became(j, st) == [mem EXCEPT ![j.slot].state = st]

\* An install or update before its registry entry was pending is undone.
UndoInstall ==
  /\ pc = "recover"
  /\ journal.op \in {"recv", "update"}
  /\ journal.phase \in {"Started", "BlobWritten"}
  /\ Resolve(OldState(journal))
  /\ UNCHANGED failed

\* What the journal names is in the area it should be promoted from; an unreadable
\* area does not verify.
Verified(j) ==
  /\ j.op # "rollback" => mem[j.slot].state = "PendingInstall"
  /\ blob[(CASE j.op = "recv" -> "active" [] j.op = "update" -> "stage"
             [] OTHER -> "previous"), j.slot] = j.pkg


\* An install or update with a pending entry is committed or quarantined.
FinishPending ==
  /\ pc = "recover"
  /\ journal.op \in {"recv", "update"}
  /\ journal.phase = "RegistryPending"
  /\ \/ /\ Verified(journal)
        /\ IF journal.op = "recv" THEN Resolve(Became(journal, "Active"))
           ELSE /\ pc' = "repromote"
                /\ rec' = journal
                /\ UNCHANGED <<disk, memory, cmd, slot>>
        /\ UNCHANGED failed
     \/ ~Verified(journal) /\ Resolve(Became(journal, "Quarantined")) /\ UNCHANGED failed
     \/ failed' = TRUE /\ Resolve(Became(journal, "Quarantined"))

\* A rollback is completed, or the store stays degraded.
FinishRollback ==
  /\ pc = "recover"
  /\ journal.op = "rollback"
  /\ IF journal.phase = "RegistryPending" /\ Verified(journal)
     THEN /\ pc' = "repromote"
          /\ rec' = journal
          /\ UNCHANGED <<disk, memory, cmd, slot, failed>>
     ELSE Degrade /\ Idle /\ UNCHANGED <<disk, failed>>

FinishRemove ==
  /\ pc = "recover"
  /\ journal.op = "remove"
  /\ Resolve(Became(journal, "Removed"))
  /\ UNCHANGED failed

\* The blob goes to its place.  When that fails an update is quarantined.
Repromote ==
  /\ pc = "repromote"
  /\ \/ /\ WriteBlob("active", rec.slot, rec.pkg)
        /\ SetState(rec.slot, "Active")
        /\ pc' = "recommit"
        /\ UNCHANGED <<loaded, storeLoaded, degraded, cmd, rec, slot, failed>>
     \/ /\ BlobInPart("active", rec.slot, rec.pkg)
        /\ \/ Reboot
           \/ rec.op = "rollback" /\ Abandon
           \/ /\ rec.op = "update"
              /\ failed' = TRUE
              /\ SetState(rec.slot, "Quarantined")
              /\ pc' = "recommit"
              /\ UNCHANGED <<loaded, storeLoaded, degraded, cmd, rec, slot>>

Recommit ==
  /\ pc = "recommit"
  /\ \/ /\ WriteRegistry
        /\ pc' = "reclear"
        /\ UNCHANGED <<memory, cmd, rec, slot, failed>>
     \/ RegistryInPart /\ Stop

Reclear ==
  /\ pc = "reclear"
  /\ \/ /\ WriteJournal(EmptyJournal)
        /\ Recovered
        /\ InvalidateLoaded
        /\ UNCHANGED failed
     \/ JournalInPart(EmptyJournal) /\ Stop

-----------------------------------------------------------------------------
(* The rest of ensure_loaded(): read_registry() and load_slot() of each slot. *)

Reload ==
  /\ pc = "reload"
  /\ \/ /\ mem' = registry
        /\ loaded' = NoneLoaded
        /\ pc' = "slots"
        /\ UNCHANGED <<storeLoaded, degraded, cmd, rec, slot, failed>>
     \/ Abandon
  /\ UNCHANGED disk

NextSlot ==
  /\ IF slot + 1 < MAX_PKGS
     THEN slot' = slot + 1 /\ pc' = "slots" /\ UNCHANGED storeLoaded
     ELSE slot' = 0 /\ pc' = "exec" /\ storeLoaded' = TRUE
  /\ UNCHANGED <<degraded, cmd, rec>>

\* The blob is what the entry describes.
BlobVerifies(s) == blob["active", s] = mem[s].pkg

LoadSlot ==
  /\ pc = "slots"
  /\ \/ /\ mem[slot].state # "Active"
        /\ NextSlot
        /\ UNCHANGED <<mem, loaded, failed>>
     \/ /\ mem[slot].state = "Active"
        /\ BlobVerifies(slot)
        /\ loaded' = [loaded EXCEPT ![slot] = blob["active", slot]]
        /\ NextSlot
        /\ UNCHANGED <<mem, failed>>
     \/ /\ mem[slot].state = "Active"
        /\ \/ ~BlobVerifies(slot) /\ UNCHANGED failed
           \/ failed' = TRUE
        /\ SetState(slot, "Corrupt")
        /\ pc' = "corrupt"
        /\ UNCHANGED <<loaded, storeLoaded, degraded, cmd, rec, slot>>
  /\ UNCHANGED disk

\* mark_corrupt() ignores the result of its write.
MarkCorrupt ==
  /\ pc = "corrupt"
  /\ \/ WriteRegistry /\ NextSlot /\ UNCHANGED <<mem, loaded, failed>>
     \/ RegistryInPart /\ failed' = TRUE /\ NextSlot /\ UNCHANGED <<mem, loaded>>
     \/ RegistryInPart /\ Reboot

-----------------------------------------------------------------------------
(* What a command decides on the loaded registry. *)

First(S) == {s \in S : \A t \in S : s <= t}
InState(st) == {s \in Slot : mem[s].state = st}

\* find_registry_slot(): an entry that was never encoded has no name.
FindRegistrySlot(n) ==
  First({s \in Slot : mem[s].state # "Empty" /\ mem[s].pkg # NoPkg /\ mem[s].pkg.name = n})

\* registry_slot_for().
RegistrySlotFor(n) ==
  IF FindRegistrySlot(n) # {} THEN FindRegistrySlot(n)
  ELSE IF InState("Removed") # {} THEN First(InState("Removed")) ELSE First(InState("Empty"))

RecvSlot ==
  {s \in RegistrySlotFor(cmd.pkg.name) :
     mem[s].state \notin {"Corrupt", "Quarantined", "Active"}}

\* New capabilities are reviewed: added # 0 && !allow_new_caps is refused.
UpdateSlot ==
  {s \in FindRegistrySlot(cmd.pkg.name) :
     /\ mem[s].state = "Active"
     /\ ~mem[s].pinned
     /\ mem[s].pkg # cmd.pkg
     /\ cmd.pkg.caps \subseteq mem[s].pkg.caps \/ cmd.allow}

RollbackSlot ==
  {s \in FindRegistrySlot(cmd.name) :
     /\ mem[s].state = "Active"
     /\ mem[s].prev # NoPkg
     /\ mem[s].pinned => cmd.force
     /\ blob["previous", s] = mem[s].prev}

RemoveSlot == {s \in FindRegistrySlot(cmd.name) : mem[s].state = "Active"}

\* The slot the command works on, if it is not refused.
Target ==
  CASE cmd.op = "recv" -> RecvSlot
    [] cmd.op = "update" -> UpdateSlot
    [] cmd.op = "rollback" -> RollbackSlot
    [] cmd.op = "remove" -> RemoveSlot
    [] cmd.op \in {"pin", "unpin"} -> FindRegistrySlot(cmd.name)
    [] cmd.op = "gc" -> IF journal = EmptyJournal THEN First(InState("Removed")) ELSE {}
    [] OTHER -> {}

\* A refusal, or a command that only looks: pkg_run(), pkg_list(), pkg_info(), ...
Refuse ==
  /\ pc = "exec"
  /\ Target = {}
  /\ Idle
  /\ UNCHANGED <<disk, memory, failed>>

\* The read of the journal in pkg_gc(), or of the previous blob in pkg_rollback().
ReadFails ==
  /\ pc = "exec"
  /\ cmd.op \in {"gc", "rollback"}
  /\ Abandon
  /\ UNCHANGED disk

Record(phase, s, p) ==
  [op |-> cmd.op, phase |-> phase, slot |-> s, old |-> mem[s].state, pkg |-> p]

Begin(s) ==
  /\ cmd.op \in {"recv", "update", "remove"}
  /\ rec' = Record("Started", s, IF cmd.op = "remove" THEN mem[s].pkg ELSE cmd.pkg)
  /\ pc' = "started"
  /\ UNCHANGED mem

\* Defect: the journal of a rollback starts at its first phase.
BeginRollbackStarted(s) ==
  /\ cmd.op = "rollback"
  /\ rec' = Record("Started", s, mem[s].prev)
  /\ pc' = "pending"
  /\ UNCHANGED mem

BeginRollback(s) ==
  /\ cmd.op = "rollback"
  /\ rec' = Record("RegistryPending", s, mem[s].prev)
  /\ pc' = "pending"
  /\ UNCHANGED mem

BeginPin(s) ==
  /\ cmd.op \in {"pin", "unpin"}
  /\ mem' = [mem EXCEPT ![s].pinned = cmd.op = "pin"]
  /\ pc' = "commit"
  /\ UNCHANGED rec

BeginGc ==
  /\ cmd.op = "gc"
  /\ pc' = "wipe"
  /\ UNCHANGED <<mem, rec>>

Execute ==
  /\ pc = "exec"
  /\ \E s \in Target : Begin(s) \/ BeginRollback(s) \/ BeginPin(s) \/ BeginGc
  /\ UNCHANGED <<disk, loaded, storeLoaded, degraded, cmd, slot, failed>>

-----------------------------------------------------------------------------
(* The transactions.  Each part below is one of pkg_recv(), pkg_update(),     *)
(* pkg_rollback(), pkg_remove(), pkg_pin() and pkg_gc(), in their order.      *)

\* The first journal write.  pkg_remove() goes on with the pending entry.
Started ==
  /\ pc = "started"
  /\ \/ /\ WriteJournal(rec)
        /\ IF rec.op = "remove"
           THEN /\ SetState(rec.slot, "PendingRemove")
                /\ loaded' = [loaded EXCEPT ![rec.slot] = NoPkg]
                /\ pc' = "registry"
           ELSE pc' = "blob" /\ UNCHANGED <<mem, loaded>>
        /\ UNCHANGED <<storeLoaded, degraded, cmd, rec, slot, failed>>
     \/ JournalInPart(rec) /\ Stop

\* The upload: to its place in pkg_recv(), to the stage in pkg_update().
UploadArea == IF rec.op = "recv" THEN "active" ELSE "stage"
Upload ==
  /\ pc = "blob"
  /\ \/ /\ WriteBlob(UploadArea, rec.slot, rec.pkg)
        /\ rec' = [rec EXCEPT !.phase = "BlobWritten"]
        /\ pc' = "written"
        /\ UNCHANGED <<memory, cmd, slot, failed>>
     \/ BlobInPart(UploadArea, rec.slot, rec.pkg) /\ Stop

PendingRecord == [rec EXCEPT !.phase = "RegistryPending"]

\* The second journal write and the read-back.
Written ==
  /\ pc = "written"
  /\ \/ /\ WriteJournal(rec)
        /\ IF rec.op = "recv"
           THEN /\ mem' = [mem EXCEPT ![rec.slot] = EncodeEntry(rec.pkg)]
                /\ rec' = PendingRecord
                /\ pc' = "pending"
           ELSE pc' = "preserve" /\ UNCHANGED <<mem, rec>>
        /\ UNCHANGED <<loaded, storeLoaded, degraded, cmd, slot, failed>>
     \/ JournalInPart(rec) /\ Stop

\* pkg_update(): the active blob becomes the previous one.
Preserve ==
  /\ pc = "preserve"
  /\ \/ /\ WriteBlob("previous", rec.slot, blob["active", rec.slot])
        /\ mem' = [mem EXCEPT ![rec.slot] = [EncodeEntry(rec.pkg) EXCEPT !.prev = mem[rec.slot].pkg]]
        /\ rec' = PendingRecord
        /\ pc' = "pending"
        /\ UNCHANGED <<loaded, storeLoaded, degraded, cmd, slot, failed>>
     \/ BlobInPart("previous", rec.slot, blob["active", rec.slot]) /\ Stop

\* The journal write before the registry changes.  pkg_rollback() encodes its
\* entry only now, and keeps the pin.
JournalPending ==
  /\ pc = "pending"
  /\ \/ /\ WriteJournal(rec)
        /\ mem' = IF rec.op # "rollback" THEN mem
                  ELSE [mem EXCEPT ![rec.slot] =
                          [EncodeEntry(rec.pkg) EXCEPT !.pinned = mem[rec.slot].pinned]]
        /\ pc' = "registry"
        /\ UNCHANGED <<loaded, storeLoaded, degraded, cmd, rec, slot, failed>>
     \/ JournalInPart(rec) /\ Stop


\* The pending entry is on the disk.
RegistryPending ==
  /\ pc = "registry"
  /\ \/ /\ WriteRegistry
        /\ IF rec.op \in {"update", "rollback"} THEN pc' = "promote" /\ UNCHANGED mem
           ELSE /\ SetState(rec.slot, IF rec.op = "remove" THEN "Removed" ELSE "Active")
                /\ pc' = "commit"
        /\ UNCHANGED <<loaded, storeLoaded, degraded, cmd, rec, slot, failed>>
     \/ RegistryInPart /\ Stop

\* The staged blob, or the previous one that was read before, becomes active.
Promoted == IF rec.op = "update" THEN blob["stage", rec.slot] ELSE rec.pkg
Promote ==
  /\ pc = "promote"
  /\ \/ /\ WriteBlob("active", rec.slot, Promoted)
        /\ SetState(rec.slot, "Active")
        /\ pc' = "commit"
        /\ UNCHANGED <<loaded, storeLoaded, degraded, cmd, rec, slot, failed>>
     \/ BlobInPart("active", rec.slot, Promoted) /\ Stop

\* pkg_gc(): the three areas of a removed slot, then the next one.
Wipe(at, a, next) ==
  /\ pc = at
  /\ \E s \in First(InState("Removed")) :
       \/ /\ WriteBlob(a, s, Blank)
          /\ IF next = "wipe"
             THEN /\ mem' = [mem EXCEPT ![s] = EmptyEntry]
                  /\ pc' = IF InState("Removed") = {s} THEN "commit" ELSE "wipe"
             ELSE pc' = next /\ UNCHANGED mem
          /\ UNCHANGED <<loaded, storeLoaded, degraded, cmd, rec, slot, failed>>
       \/ BlobInPart(a, s, Blank) /\ Stop

\* The registry is final.  A pin and a cleanup have no journal.
Commit ==
  /\ pc = "commit"
  /\ \/ /\ WriteRegistry
        /\ IF cmd.op \in {"pin", "unpin", "gc"} THEN InvalidateLoaded /\ Idle
           ELSE pc' = "clear" /\ UNCHANGED <<mem, loaded, storeLoaded, cmd, rec, slot>>
        /\ UNCHANGED <<degraded, failed>>
     \/ RegistryInPart /\ Stop


\* clear_journal().  What pkg_recv() then loads is invalidated with the rest.
Clear ==
  /\ pc = "clear"
  /\ \/ /\ WriteJournal(EmptyJournal)
        /\ InvalidateLoaded
        /\ Idle
        /\ UNCHANGED <<degraded, failed>>
     \/ JournalInPart(EmptyJournal) /\ Stop

-----------------------------------------------------------------------------
Recovery ==
  \/ NothingToRecover \/ CannotRecover \/ QuarantinePending \/ UndoInstall
  \/ FinishPending \/ FinishRollback \/ FinishRemove
  \/ Repromote \/ Recommit \/ Reclear

Transaction ==
  \/ Started \/ Upload \/ Written \/ Preserve \/ JournalPending \/ RegistryPending
  \/ Promote \/ Commit \/ Clear
  \/ Wipe("wipe", "active", "wipePrevious")
  \/ Wipe("wipePrevious", "previous", "wipeStage")
  \/ Wipe("wipeStage", "stage", "wipe")

Work ==
  \/ ReadRegistry \/ Fault \/ Recovery
  \/ Reload \/ LoadSlot \/ MarkCorrupt
  \/ Refuse \/ ReadFails \/ Execute
  \/ Transaction

\* The machine stops between two accesses.
Crash == Reboot /\ UNCHANGED disk

Next == (\E c \in Command : Give(c)) \/ Work \/ Crash

Spec == Init /\ [][Next]_vars

-----------------------------------------------------------------------------
TypeOK ==
  /\ registry \in [Slot -> Entry]
  /\ journal \in JournalRecord \cup {EmptyJournal, CorruptJournal}
  /\ blob \in [Area \X Slot -> Package \cup {Blank, Torn}]
  /\ mem \in [Slot -> Entry]
  /\ loaded \in [Slot -> Package \cup {NoPkg}]
  /\ storeLoaded \in BOOLEAN
  /\ degraded \in BOOLEAN
  /\ cmd \in Command \cup {NoCommand}
  /\ pc \in {"idle", "load", "fault", "recover", "repromote", "recommit", "reclear", "reload",
             "slots", "corrupt", "exec", "started", "blob", "written", "preserve", "pending",
             "registry", "promote", "wipe", "wipePrevious", "wipeStage", "commit", "clear"}
  /\ rec \in JournalRecord \cup {EmptyJournal, CorruptJournal}
  /\ slot \in Slot
  /\ failed \in BOOLEAN




\* pkg_recover() that meets no I/O error ends with a store that is not degraded,
\* whatever interrupted transaction or corrupt journal it finds.
RecoverSucceeds ==
  [][~failed' /\ cmd.op = "recover" /\ pc' = "idle" => ~degraded']_vars

\* "completed interrupted rollback": the slot is then Active with the blob that
\* its entry describes.
RecoveredRollbackRuns ==
  [][pc = "reclear" /\ rec.op = "rollback" /\ journal' = EmptyJournal =>
       /\ registry[rec.slot].state = "Active"
       /\ blob["active", rec.slot] = registry[rec.slot].pkg]_vars
=============================================================================
