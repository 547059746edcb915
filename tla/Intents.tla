------------------------------ MODULE Intents -------------------------------
(***************************************************************************)
(* Intents as the source of authority: the Ahd table, leases, revocation    *)
(* and the runs of packages and agents under an intent (pkg.rs), what a     *)
(* manifest's capabilities become (dezh-core/src/mcap.rs), publisher        *)
(* attenuation (sig.rs), and the missions whose effects carry the intent's  *)
(* id into the ledger (demos/cairn.rs, net/marz.rs).                        *)
(*                                                                         *)
(* ahds       AHDS: slots are filled in order and never freed in a boot     *)
(* nextId     AHD_NEXT_ID                                                   *)
(* ledger     the effects on disk that carry an intent's id                 *)
(* boot       how often the machine has booted                              *)
(* Ghosts: an effect's session <<boot, id>> tells apart the intents that    *)
(* carried one id; a slot's leased is the lease it was opened with; runs    *)
(* counts the runs under each finite lease; last is the authority, the      *)
(* standing and the deeds of the last run.                                  *)
(***************************************************************************)
EXTENDS Integers, Sequences, FiniteSets

CONSTANTS
  MAX_AHD,      \* slots of the intent table (16 in the code)
  Package,      \* the installed packages
  Requests,     \* Requests[p]: the capabilities the manifest of p was granted
  IsElf,        \* the packages that are U-mode programs; the others are Dezh-IR
  HasNs,        \* the packages whose name is in the v1 namespace table
  Calls,        \* the sequences of host calls that programs make
  Leases,       \* the finite leases the operator asks for
  MaxBoots      \* bound on boots

VARIABLES ahds, nextId, ledger, boot, runs, last

intentVars == <<ahds, nextId, ledger, boot, runs, last>>

AHD_UNLIMITED == -1
Mcap == {"print", "ipc", "uptime", "cairn-read", "cairn-write"}
CairnCaps == {"cairn-read", "cairn-write"}

ASSUME IntentAssumption ==
  /\ MAX_AHD \in Nat
  /\ Requests \in [Package -> SUBSET Mcap]
  /\ Calls \subseteq Seq(Mcap)
  /\ Leases \subseteq Nat

\* AHD_KINDS: the ceiling of each kind of intent.
AhdKinds ==
  [compute |-> {"print"}, reader |-> {"print", "cairn-read"},
   writer |-> {"print"} \cup CairnCaps, ipc |-> {"print", "ipc"}, full |-> Mcap]

Ran(ceiling, derived, acts, dead) ==
  [ceiling |-> ceiling, derived |-> derived, acts |-> acts, dead |-> dead]

IntentInit ==
  /\ ahds = <<>> /\ nextId = 1 /\ ledger = {} /\ boot = 1
  /\ runs = <<>>
  /\ last = Ran(Mcap, Mcap, {}, FALSE)

-----------------------------------------------------------------------------
(* The intent table. *)

\* open_ahd(): an intent takes the first unused slot; there may be none.
SlotFree == Len(ahds) < MAX_AHD
NewAhd(id, kind, lease) ==
  [id |-> id, ceiling |-> AhdKinds[kind], lease |-> lease, revoked |-> FALSE,
   leased |-> lease]
Opened(kind, lease) == Append(ahds, NewAhd(nextId, kind, lease))

Open(kind, lease) ==
  /\ SlotFree
  /\ ahds' = Opened(kind, lease)
  /\ nextId' = nextId + 1
  /\ runs' = Append(runs, 0)

\* intent_open().
IntentOpen(kind, lease) ==
  /\ Open(kind, lease)
  /\ UNCHANGED <<ledger, boot, last>>

Revoked(slot) ==
  [id |-> slot.id, ceiling |-> slot.ceiling, lease |-> 0, revoked |-> TRUE,
   leased |-> slot.leased]

\* intent_revoke().
IntentRevoke(s) ==
  /\ ~ahds[s].revoked
  /\ ahds' = [ahds EXCEPT ![s] = Revoked(@)]
  /\ UNCHANGED <<nextId, ledger, boot, runs, last>>

\* The gate of lease_use() and intent_run().
Authorizes(slot) == ~slot.revoked /\ slot.lease # 0

\* One use of an intent that does not store the decremented lease: the mutated form.
UsedUncounted(slot) == [slot EXCEPT !.revoked = @ \/ (slot.lease = 1)]

\* One use of an intent: a finite lease that reaches zero revokes it.
Used(slot) ==
  IF slot.lease = AHD_UNLIMITED THEN slot
  ELSE [slot EXCEPT !.lease = @ - 1, !.revoked = @ \/ (slot.lease = 1)]

-----------------------------------------------------------------------------
(* From capabilities to deeds. *)

\* ir_caps_from() and app_cairn_ns(): what a Dezh-IR program may call.
IrCaps(mcaps) == mcaps \cap ({"print"} \cup CairnCaps)

\* The host calls of a program, in order, up to the first the engine refuses or
\* the store fails: KHost::can(), cairn_put(), cairn_get().
IrDeeds(calls, mcaps, bound, storeUp) ==
  LET allowed(i) == /\ calls[i] \in IrCaps(mcaps)
                    /\ calls[i] \in CairnCaps => bound /\ storeUp
      reached == {i \in DOMAIN calls : \A j \in 1..i : allowed(j)}
  IN  {calls[i] : i \in reached}

\* task_caps_from(): a program with IPC and its namespace's bit can ask the daemon
\* to read and to commit, for the daemon tells namespaces apart and not reads
\* from writes.
ElfDeeds(calls, mcaps, bound, storeUp) ==
  {c \in {calls[i] : i \in DOMAIN calls} :
     IF c \in CairnCaps
     THEN "ipc" \in mcaps /\ mcaps \cap CairnCaps # {} /\ bound /\ storeUp
     ELSE c \in mcaps}

\* run_loaded_entry(): a program's deeds under an effective set of capabilities.
Deeds(p, calls, mcaps, storeUp) ==
  LET bound == p \in HasNs /\ mcaps \cap CairnCaps # {}
  IN  IF p \in IsElf THEN ElfDeeds(calls, mcaps, bound, storeUp)
      ELSE IrDeeds(calls, mcaps, bound, storeUp)

Effect(id, class) == [id |-> id, session |-> <<boot, id>>, class |-> class]

\* A commit by a Dezh-IR program carries its intent; one by a U-mode program
\* reaches the daemon as a direct commit.
Recorded(p, id, deeds) ==
  {Effect(id, "reversible") : c \in {"cairn-write"} \cap (IF p \in IsElf THEN {} ELSE deeds)}

\* The derived set of intent_run(), without the ceiling: the mutated form.
DerivedFull(requested, ceiling) == requested

\* intent_run() and its demos: what was requested and lies within the ceiling.
Derived(requested, ceiling) == requested \cap ceiling

\* pkg_run(): the installed grants, and no intent.
PkgRun(p, calls, storeUp) ==
  /\ last' = Ran(Mcap, Requests[p], Deeds(p, calls, Requests[p], storeUp), FALSE)
  /\ UNCHANGED <<ahds, nextId, ledger, boot, runs>>

\* intent_run() on an intent and a package that are there.  The lease is consumed
\* whether the program finishes or traps.
IntentRun(s, p, calls, storeUp) ==
  LET a == ahds[s]
      derived == Derived(Requests[p], a.ceiling)
      deeds == Deeds(p, calls, derived, storeUp)
  IN
  /\ Authorizes(a)
  /\ last' = Ran(a.ceiling, derived, deeds, a.revoked)
  /\ ledger' = ledger \cup Recorded(p, a.id, deeds)
  /\ ahds' = [ahds EXCEPT ![s] = Used(@)]
  /\ runs' = [runs EXCEPT ![s] = IF a.leased = AHD_UNLIMITED THEN @ ELSE @ + 1]
  /\ UNCHANGED <<nextId, boot>>

\* intent_run() refused by the gate, or with no such package or no store: no
\* lease is consumed.
IntentRunRefused(s) ==
  /\ last' = Ran(ahds[s].ceiling, {}, {}, ahds[s].revoked)
  /\ UNCHANGED <<ahds, nextId, ledger, boot, runs>>

-----------------------------------------------------------------------------
(* The demos. *)

\* The built-in agent: a write, a read, a print.
AgentCalls == <<"cairn-write", "cairn-read", "print">>
AgentRequests == {"print"} \cup CairnCaps
AgentDeeds(ceiling, storeUp) ==
  LET derived == Derived(AgentRequests, ceiling)
  IN  IrDeeds(AgentCalls, derived, derived \cap CairnCaps # {}, storeUp)

\* lease_demo(): a lease of one, used twice, then an unlimited intent revoked and
\* used; it stops where no slot is left.
LeaseDemo ==
  LET once == Used(NewAhd(nextId, "compute", 1))
      second == NewAhd(nextId + 1, "compute", AHD_UNLIMITED)
      more == Len(ahds) + 1 < MAX_AHD
  IN
  /\ SlotFree
  /\ ahds' = IF more THEN Append(Append(ahds, once), Revoked(second)) ELSE Append(ahds, once)
  /\ nextId' = nextId + (IF more THEN 2 ELSE 1)
  /\ LET uses == Append(runs, IF Authorizes(once) THEN 2 ELSE 1)
     IN  runs' = IF more THEN Append(uses, 0) ELSE uses
  /\ UNCHANGED <<ledger, boot, last>>

\* intent_demo_run(): a ceiling without an intent; its effect is a direct one.
IntentDemo(kind, storeUp) ==
  LET ceiling == AhdKinds[kind] IN
  /\ last' = Ran(ceiling, Derived(AgentRequests, ceiling), AgentDeeds(ceiling, storeUp), FALSE)
  /\ UNCHANGED <<ahds, nextId, ledger, boot, runs>>

\* sand_demo_effect() with a writer intent, redteam_out_of_intent() with a compute
\* one: the built-in agent under a new intent.
AgentUnderIntent(kind, storeUp) ==
  LET ceiling == AhdKinds[kind]
      deeds == AgentDeeds(ceiling, storeUp)
  IN
  /\ Open(kind, AHD_UNLIMITED)
  /\ last' = Ran(ceiling, Derived(AgentRequests, ceiling), deeds, FALSE)
  /\ ledger' = ledger \cup {Effect(nextId, "reversible") : c \in {"cairn-write"} \cap deeds}
  /\ UNCHANGED boot

\* sig_demo(): the publisher's ceiling attenuates the request; the install is a
\* direct effect.
PublisherCeiling == {"print"} \cup CairnCaps
Attenuate(requested, ceiling) == requested \cap ceiling
SigDemo ==
  /\ last' = Ran(PublisherCeiling, Attenuate({"print", "ipc"} \cup CairnCaps, PublisherCeiling),
                 {}, FALSE)
  /\ UNCHANGED <<ahds, nextId, ledger, boot, runs>>

\* sfar_req() with a mission's rollback: the effects that carry the id and can be
\* retracted are.
Retracted(effects, id) == {e \in effects : ~(e.id = id /\ e.class = "reversible")}

\* The classes of the effects of each mission demo.
SfarDemo == {"irreversible", "reversible"}
SfarCrossDemo == {"reversible"}
CompDemo == {"compensatable", "reversible"}
Overnight == {"irreversible", "reversible", "compensatable"}
Missions ==
  [sfar |-> SfarDemo, cross |-> SfarCrossDemo, comp |-> CompDemo, overnight |-> Overnight]

\* A mission demo opens a writer intent, commits its effects (any of which the
\* store may fail to take) and rolls the mission back; overnight ends with the
\* out-of-intent agent, which takes another slot if there is one.
MissionDemo(name, landed, rolledBack) ==
  LET writer == {"print"} \cup CairnCaps
      made == ledger \cup {Effect(nextId, c) : c \in landed}
      escape == name = "overnight" /\ Len(ahds) + 1 < MAX_AHD
      opened == Opened("writer", AHD_UNLIMITED)
  IN
  /\ SlotFree
  /\ landed \subseteq Missions[name]
  /\ ahds' = IF escape THEN Append(opened, NewAhd(nextId + 1, "compute", AHD_UNLIMITED))
             ELSE opened
  /\ nextId' = nextId + (IF escape THEN 2 ELSE 1)
  /\ runs' = IF escape THEN Append(Append(runs, 0), 0) ELSE Append(runs, 0)
  /\ ledger' = IF rolledBack THEN Retracted(made, nextId) ELSE made
  /\ last' = IF escape
             THEN Ran(AhdKinds.compute, Derived(AgentRequests, AhdKinds.compute),
                      AgentDeeds(AhdKinds.compute, TRUE), FALSE)
             ELSE Ran(AhdKinds.writer, writer, {"cairn-write"}, FALSE)
  /\ UNCHANGED boot

\* marz_effect() and run_marz_effect_demo(): the external effect under an intent
\* opened for it; when no slot is left it is a direct one, or not made.
ExternalEffect(class) ==
  /\ Open("writer", AHD_UNLIMITED)
  /\ ledger' = ledger \cup {Effect(nextId, class)}
  /\ UNCHANGED <<boot, last>>

-----------------------------------------------------------------------------

\* sfar-rollback on any id.
MissionRollback(id) ==
  /\ ledger' = Retracted(ledger, id)
  /\ UNCHANGED <<ahds, nextId, boot, runs, last>>

\* The intents are not persisted, the ledger is.
IntentReboot ==
  /\ boot < MaxBoots /\ boot' = boot + 1
  /\ ahds' = <<>> /\ nextId' = 1 /\ runs' = <<>>
  /\ last' = Ran(Mcap, Mcap, {}, FALSE)
  /\ UNCHANGED ledger

IntentNext ==
  \/ \E kind \in DOMAIN AhdKinds, lease \in Leases \cup {AHD_UNLIMITED} : IntentOpen(kind, lease)
  \/ \E s \in DOMAIN ahds : IntentRevoke(s) \/ IntentRunRefused(s)
  \/ \E p \in Package, calls \in Calls, storeUp \in BOOLEAN :
       \/ PkgRun(p, calls, storeUp)
       \/ \E s \in DOMAIN ahds : IntentRun(s, p, calls, storeUp)
  \/ LeaseDemo
  \/ \E kind \in {"writer", "compute"}, storeUp \in BOOLEAN :
       IntentDemo(kind, storeUp) \/ AgentUnderIntent(kind, storeUp)
  \/ SigDemo
  \/ \E name \in DOMAIN Missions, rolledBack \in BOOLEAN :
       \E landed \in SUBSET Missions[name] : MissionDemo(name, landed, rolledBack)
  \/ \E class \in {"compensatable", "irreversible"} : ExternalEffect(class)
  \/ \E id \in 1..MAX_AHD : MissionRollback(id)
  \/ IntentReboot

IntentSpec == IntentInit /\ [][IntentNext]_intentVars

-----------------------------------------------------------------------------
(* Properties. *)

\* A lease bounds what an intent authorises: the runs made under it and those it
\* still allows are never more than the operator leased, through any order of
\* runs, refused runs, revocations and demos; and a revoked intent does nothing
\* (intent_run(), lease_use()).
LeaseBounds ==
  /\ \A s \in DOMAIN ahds : ahds[s].leased # AHD_UNLIMITED =>
       runs[s] + (IF Authorizes(ahds[s]) THEN ahds[s].lease ELSE 0) <= ahds[s].leased
  /\ last.dead => last.acts = {}

\* Nothing is done under an intent that its ceiling does not name, whatever the
\* package was granted at install and whichever engine runs it: not in the derived
\* set that the ledger records, and not in deed.
WithinCeiling == last.derived \cup last.acts \subseteq last.ceiling

\* A mission is the effects of one intent: no two effects that a rollback would
\* take together were authorised by different intents.
MissionIsOneIntent ==
  \A e, f \in ledger : e.id = f.id /\ e.id # 0 => e.session = f.session

=============================================================================
