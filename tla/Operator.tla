------------------------------ MODULE Operator ------------------------------
(***************************************************************************)
(* The console operator of dezh-boot: the gates a console verb passes       *)
(* before it reaches the storage daemon or the network (ocap/ns.rs,         *)
(* ocap/device.rs, difc.rs, net/marz.rs), the service registry that         *)
(* supervises the daemon (service.rs, vblk.rs), and the demos that compose  *)
(* the verbs (demos/difc.rs, egress.rs, ocap.rs, cairn.rs).                 *)
(*                                                                         *)
(* A verb is an operator from the kernel's state k and the outcome of each  *)
(* process it launches to the next state; a demo is a composition of verbs. *)
(* One step of the module is one command typed at the console.              *)
(*                                                                         *)
(* k.taint     OP_TAINT                    k.nsTable, nsHandle   NS_TABLE, NS_HANDLE *)
(* k.egress    OP_EGRESS                   k.devTable, devHandle DEV_TABLE, DEV_HANDLE *)
(* k.svc       the virtio-block entry of SERVICES and its task              *)
(* k.flags     the revoked flags in the superblock                          *)
(* Ghosts: heard and consumed (a secret was read, outside bytes were taken  *)
(* in, since the last declassify or endorse), withdrawn (what the operator  *)
(* revoked in this boot), barred (namespaces whose revocation the store     *)
(* acknowledged), did (the effects of the command, in their circumstances). *)
(***************************************************************************)
EXTENDS Ocap, Difc, Sequences, FiniteSets
LOCAL INSTANCE SequencesExt

CONSTANTS
  Revocable,        \* bound: the namespaces ns-revoke and ns-grant are used on
  MaxRevocations    \* bound: generation bumps per object

VARIABLES k, lastCommand

operatorVars == <<k, lastCommand>>

NS == {"note", "lab", "calc", "vault"}
Dest == {"ops", "vault-sync"}
NIC == "net"

\* The two secrecy levels and the one endorsement of difc_init(), and the
\* clearance of each destination in MARZ_DESTS.
NsLabel(ns) == IF ns = "vault" THEN SecrecyTag ELSE PUBLIC
NsRequires(ns) == IF ns \in {"note", "vault"} THEN Endorsement ELSE UNTRUSTED
DestLabel(d) == IF d = "vault-sync" THEN SecrecyTag ELSE PUBLIC

\* What becomes of one launch: it runs and succeeds, it runs and reports an
\* error, the daemon it needs cannot be loaded or finds no device, or the client
\* itself is not loaded and the exit code read back is the cleared one.
Outcome == {"done", "error", "noframes", "nodevice", "unloaded"}

FullRights == {"read", "write", "delegate"}

\* The kernel's state after boot, on a store with these flags.
Booted(flags, barred) ==
  [taint |-> NewTaint,
   nsTable |-> NewTable(NS),
   nsHandle |-> [n \in NS |-> CapMint(NewTable(NS), n, FullRights)],
   devTable |-> NewTable({NIC}),
   devHandle |-> CapMint(NewTable({NIC}), NIC, {"read", "write"}),
   egress |-> Dest,
   svc |-> [state |-> "Declared", assigned |-> FALSE, daemon |-> "unused"],
   flags |-> flags,
   heard |-> FALSE, consumed |-> FALSE, withdrawn |-> {}, barred |-> barred, did |-> {}]

OperatorInit == k = Booted({}, {}) /\ lastCommand = "boot"

-----------------------------------------------------------------------------
(* The service registry: service.rs. *)

\* refresh_virtio_service_state().
Refresh(s) ==
  [s EXCEPT !.svc.state =
     CASE ~s.svc.assigned \/ s.svc.daemon = "unused" -> @
       [] s.svc.daemon = "live" -> "Running"
       [] s.svc.daemon = "exited" -> "Stopped"
       [] s.svc.daemon = "failed" -> "Faulted"]


\* ensure_virtio_block_service(): a stopped or faulted service is not started.
Ensure(s, o) ==
  LET svc == s.svc IN
  IF \/ svc.state = "Running" /\ svc.assigned /\ svc.daemon = "live"
     \/ svc.state \in {"Stopped", "Faulted"}
  THEN s
  ELSE IF o = "noframes"
       THEN [s EXCEPT !.svc = [state |-> "Faulted", assigned |-> TRUE, daemon |-> "unused"]]
       ELSE Refresh([s EXCEPT !.svc = [state |-> "Starting", assigned |-> TRUE,
                                       daemon |-> IF o = "nodevice" THEN "failed" ELSE "live"]])

ServiceUp(s) == s.svc.state = "Running"

-----------------------------------------------------------------------------
(* One request to the storage daemon: vblk.rs, and the gate and the flags of *)
(* virtio-blk/src/main.rs. *)

\* The effect a command has, with the circumstances in which it had it; an effect
\* without any is not kept.
Did(s, act, obj, revoked) ==
  IF ~revoked /\ ~s.heard /\ ~s.consumed THEN s
  ELSE [s EXCEPT !.did = @ \cup {[act |-> act, obj |-> obj, revoked |-> revoked,
                                  secret |-> s.heard, outside |-> s.consumed]}]

\* The requests the daemon refuses in a namespace whose flag is set.  A "record" is
\* a commit of the kernel's own text, an "agent" one of the agent's host calls.
Flagged(act) == act \in {"commit", "record", "agent", "get", "log", "rollback", "verify"}

\* The daemon serves one request.
StoreServes(s, act, ns, revoked) ==
  CASE act = "ns_revoke" -> [s EXCEPT !.flags = @ \cup {ns}, !.barred = @ \cup {ns}]
    [] act = "ns_grant" -> [s EXCEPT !.flags = @ \ {ns}, !.barred = @ \ {ns}]
    [] OTHER -> Did(s, act, ns, revoked)

\* run_virtio_client_ns_raw(): the state after the request and its status.
Request(s, act, ns, revoked, o) ==
  LET e == Ensure(s, o) IN
  CASE ~ServiceUp(e) -> [k |-> e, ok |-> FALSE]
    [] o = "unloaded" -> [k |-> Refresh(e), ok |-> TRUE]
    [] o = "error" \/ (Flagged(act) /\ ns \in e.flags) -> [k |-> Refresh(e), ok |-> FALSE]
    [] OTHER -> [k |-> Refresh(StoreServes(e, act, ns, revoked)), ok |-> TRUE]

\* A request made without passing a kernel gate: only the store can refuse it.
Direct(s, act, ns, o) == Request(s, act, ns, ns \in s.barred, o)

\* A request behind the namespace gate.
Gated(s, act, ns, o) == Request(s, act, ns, ns \in s.barred \cup s.withdrawn, o)

-----------------------------------------------------------------------------
(* The gates: ocap/ns.rs, ocap/device.rs, difc.rs. *)

NsAuthorityOk(s, ns) == CapCheck(s.nsTable, s.nsHandle[ns], {"read"}) = "Ok"
DevAuthorityOk(s) == CapCheck(s.devTable, s.devHandle, {"read"}) = "Ok"

DifcMayWrite(s, ns) ==
  MayFlowTo(s.taint, NsLabel(ns)) /\ MayEndorseTo(s.taint, NsRequires(ns))

\* difc_observe(), after a read that reported success.
DifcObserve(s, ns, served) ==
  [s EXCEPT !.taint = Observe(@, NsLabel(ns)),
            !.heard = @ \/ (served /\ NsLabel(ns) # PUBLIC)]

DifcIngress(s) == [s EXCEPT !.taint = ObserveInput(@, UNTRUSTED), !.consumed = TRUE]

\* declassify() that forgets the integrity it read first: the mutated form.
DeclassifyAll(s) == [s EXCEPT !.taint = NewTaint, !.heard = FALSE]

\* declassify(): a new taint, to which a lowered integrity is applied again.
Declassify(s) ==
  [s EXCEPT !.taint = IF s.taint.integrity = TRUSTED THEN NewTaint
                      ELSE ObserveInput(NewTaint, s.taint.integrity),
            !.heard = FALSE]

Endorse(s) == [s EXCEPT !.taint = Endorsed(@), !.consumed = FALSE]

NsRevokeLocal(s, ns) ==
  [s EXCEPT !.nsTable = CapRevoke(@, ns), !.withdrawn = @ \cup {ns}]

NsRemintLocal(s, ns) ==
  [s EXCEPT !.nsHandle[ns] = CapMint(s.nsTable, ns, FullRights), !.withdrawn = @ \ {ns}]


\* ns_revoke() and ns_grant(): the kernel's gate first, then the store.
NsRevoke(s, ns, o) == Request(NsRevokeLocal(s, ns), "ns_revoke", ns, FALSE, o).k
NsGrant(s, ns, o) == Request(NsRemintLocal(s, ns), "ns_grant", ns, FALSE, o).k

\* dev_authority_set().
DevRevoke(s) == [s EXCEPT !.devTable = CapRevoke(@, NIC), !.withdrawn = @ \cup {NIC}]
DevGrant(s) ==
  [s EXCEPT !.devHandle = CapMint(s.devTable, NIC, {"read", "write"}), !.withdrawn = @ \ {NIC}]

\* marz_dest_authority() and marz_egress_reset_all().
DestRevoke(s, d) == [s EXCEPT !.egress = @ \ {d}, !.withdrawn = @ \cup {d}]
DestGrant(s, d) == [s EXCEPT !.egress = @ \cup {d}, !.withdrawn = @ \ {d}]
EgressResetAll(s) == [s EXCEPT !.egress = Dest, !.withdrawn = @ \ Dest]

-----------------------------------------------------------------------------
(* The storage verbs: cairn/console.rs, and the agent's host calls. *)

\* cairn_cmd_commit().
Commit(s, ns, o) ==
  IF NsAuthorityOk(s, ns) /\ DifcMayWrite(s, ns) THEN Gated(s, "commit", ns, o).k ELSE s

\* cairn_cmd_simple() for a get and for the other views.
Get(s, ns, o) ==
  IF ~NsAuthorityOk(s, ns) THEN s
  ELSE LET r == Gated(s, "get", ns, o)
       IN  IF r.ok THEN DifcObserve(r.k, ns, o # "unloaded") ELSE r.k
View(s, ns, o) == IF NsAuthorityOk(s, ns) THEN Gated(s, "log", ns, o).k ELSE s

\* cairn_cmd_rollback() and sand_cmd() reach the store without a kernel gate.
Rollback(s, ns, o) == Direct(s, "rollback", ns, o).k
SandCmd(s, ns, o) == Direct(s, "log", ns, o).k

\* sfar_cmd(): a forecast or a query reads the mission's namespaces, a rollback
\* moves their heads.
Sfar(s, act, ns, o) == Direct(s, act, ns, o).k

\* KHost::cairn_put() and cairn_get(), and the built-in agent that calls both
\* and traps when the first fails.
CairnPut(s, ns, o) ==
  IF NsAuthorityOk(s, ns) THEN Gated(s, "agent", ns, o) ELSE [k |-> s, ok |-> FALSE]
BuiltinAgent(s, ns, o1, o2) ==
  LET put == CairnPut(s, ns, o1)
  IN  IF put.ok /\ NsAuthorityOk(put.k, ns) THEN Gated(put.k, "agent", ns, o2).k ELSE put.k

-----------------------------------------------------------------------------
(* The network verbs: net/marz.rs. *)

\* marz_gate() behind the device gate.
MarzGate(s, d) == DevAuthorityOk(s) /\ d \in s.egress /\ MayFlowTo(s.taint, DestLabel(d))

Sent(s, d) == Did(s, "send", d, d \in s.withdrawn \/ NIC \in s.withdrawn)

\* marz_send_to(): the frame, then its record in ns=lab, which no gate guards.
MarzSend(s, d, o1, o2) ==
  IF ~MarzGate(s, d) THEN s
  ELSE CASE o1 = "done" -> Direct(Sent(s, d), "record", "lab", o2).k
         [] o1 = "unloaded" -> Direct(s, "record", "lab", o2).k
         [] OTHER -> s

\* run_marz_ping(): an answer lowers the operator's integrity.
MarzPing(s, d, o) ==
  IF ~MarzGate(s, d) THEN s
  ELSE CASE o = "done" -> DifcIngress(Sent(s, d))
         [] o = "unloaded" -> DifcIngress(s)
         [] OTHER -> s

\* marz_effect(): the reply is taken in before it is read; a refused or
\* malformed one is not recorded.
MarzEffect(s, d, answer, o1, o2) ==
  IF ~MarzGate(s, d) \/ o1 # "done" THEN s
  ELSE LET t == DifcIngress(Sent(s, d))
       IN  IF answer = "ok" THEN Direct(t, "record", "lab", o2).k ELSE t

-----------------------------------------------------------------------------
(* The service verbs: service.rs. *)

\* svc_stop_virtio(): the daemon answers STOP and exits with 0.
SvcStop(s, o) ==
  LET r == Refresh(s) IN
  IF ~ServiceUp(r) THEN r
  ELSE Refresh([r EXCEPT !.svc.state = "Stopping",
                         !.svc.daemon = IF o = "unloaded" THEN @ ELSE "exited"])

\* svc_restart_virtio().
SvcRestart(s, o) ==
  LET r == Refresh(s) IN
  IF ServiceUp(r) /\ r.svc.assigned THEN r
  ELSE Refresh(Ensure([r EXCEPT !.svc.state = "Restarting", !.svc.assigned = FALSE], o))

\* svc_fault_demo_virtio(): the daemon answers and exits with 99.
SvcFaultDemo(s, o) ==
  LET r == Refresh(s) IN
  IF ~ServiceUp(r) THEN r
  ELSE Refresh([r EXCEPT !.svc.daemon = IF o = "unloaded" THEN @ ELSE "failed"])

-----------------------------------------------------------------------------
(* The demos. *)

TaintflowDemo(s, o) ==
  Commit(Declassify(Commit(Get(Declassify(s), "vault", o[1]), "lab", o[2])), "lab", o[3])

IngressDemo(s, o) ==
  LET read == MarzPing(Declassify(Endorse(s)), "ops", o[1])
      kept == Commit(Commit(read, "note", o[2]), "lab", o[3])
  IN  Commit(Endorse(kept), "lab", o[4])

\* run_marz_effect_demo(): without a free intent slot nothing is sent.
MarzEffectDemo(s, intent, o) ==
  LET ready == EgressResetAll(Declassify(s))
      sent == MarzSend(ready, "ops", o[1], o[2])
  IN  IF ~intent THEN ready
      ELSE Sfar(Sfar(Sfar(sent, "plan", "lab", o[3]), "tbar", "lab", o[4]),
                "mission", "lab", o[5])

MarzDemo(s, o) ==
  LET first == MarzSend(EgressResetAll(Declassify(s)), "ops", o[1], o[2])
      second == DestGrant(MarzSend(DestRevoke(first, "ops"), "ops", o[1], o[2]), "ops")
      third == MarzSend(Get(second, "vault", o[3]), "ops", o[4], o[5])
  IN  Declassify(MarzSend(third, "vault-sync", o[6], o[7]))

DevDemo(s, o) ==
  MarzSend(DevGrant(MarzSend(DevRevoke(s), "ops", o[1], o[2])), "ops", o[3], o[4])

NsrevokeDemo(s, o) ==
  LET blocked == Commit(NsRevokeLocal(Commit(s, "calc", o[1]), "calc"), "calc", o[2])
  IN  Commit(NsRemintLocal(blocked, "calc"), "calc", o[3])

AgentrevokeDemo(s, o) ==
  LET refused == BuiltinAgent(NsRevokeLocal(NsRemintLocal(s, "lab"), "lab"), "lab", o[1], o[2])
  IN  BuiltinAgent(NsRemintLocal(refused, "lab"), "lab", o[3], o[4])

\* run_cairn_demo(): requests made directly, in this order; the one whose client
\* holds another namespace's capability is refused by the store.
CairnDemo(s, o) ==
  LET acts == <<"record", "record", "log", "record", "get", "rollback", "get", "verify">>
  IN  FoldLeftDomain(LAMBDA t, i : Direct(t, acts[i], "note", o[i]).k, s, acts)

-----------------------------------------------------------------------------
(* One command. *)

\* The two commands that may revive the service are told from the others.
Command(name, next) ==
  /\ k' = next
  /\ lastCommand' = IF name \in {"svc-restart", "boot"} THEN name ELSE "other"
Fresh == [k EXCEPT !.did = {}]

\* The outcomes that make a difference to a command that launches storage
\* clients: the daemon is loaded only when it is declared and not yet running,
\* and without a daemon no client is launched.
StoreOutcome ==
  CASE k.svc.state = "Declared" -> Outcome
    [] k.svc.state = "Running" -> {"done", "error", "unloaded"}
    [] OTHER -> {"done"}

\* The outcomes of the n launches of a composed command, at most one of them a
\* mishap; nic holds the launches of the network daemon, which needs no other.
Course(n, nic) ==
  UNION {{[i \in 1..n |-> IF i = j THEN x ELSE "done"] :
            x \in IF j \in nic THEN {"done", "error", "unloaded"} ELSE StoreOutcome} : j \in 1..n}

MayBump(table, o) == table[o] <= MaxRevocations

StorageCommand ==
  \E ns \in NS, o \in StoreOutcome :
    \/ Command("cairn-commit", Commit(Fresh, ns, o))
    \/ Command("cairn-get", Get(Fresh, ns, o))
    \/ Command("cairn-log", View(Fresh, ns, o))
    \/ Command("cairn-rollback", Rollback(Fresh, ns, o))
    \/ Command("sand-log", SandCmd(Fresh, ns, o))
    \/ \E act \in {"plan", "mission"} : Command("sfar", Sfar(Fresh, act, ns, o))

AuthorityCommand ==
  \/ \E ns \in Revocable, o \in StoreOutcome :
       \/ MayBump(k.nsTable, ns) /\ Command("ns-revoke", NsRevoke(Fresh, ns, o))
       \/ Command("ns-grant", NsGrant(Fresh, ns, o))
  \/ MayBump(k.devTable, NIC) /\ Command("dev-revoke", DevRevoke(Fresh))
  \/ Command("dev-grant", DevGrant(Fresh))
  \/ \E d \in Dest : \/ Command("marz-revoke", DestRevoke(Fresh, d))
                     \/ Command("marz-grant", DestGrant(Fresh, d))
  \/ Command("declassify", Declassify(Fresh))
  \/ Command("endorse", Endorse(Fresh))

NetworkCommand ==
  \E d \in Dest, o \in Course(2, {1}) :
    \/ Command("marz-send", MarzSend(Fresh, d, o[1], o[2]))
    \/ Command("marz-ping", MarzPing(Fresh, d, o[1]))
    \/ \E answer \in {"ok", "refused"} :
         Command("marz-effect", MarzEffect(Fresh, d, answer, o[1], o[2]))

ServiceCommand ==
  \E o \in Outcome :
    \/ Command("svc-stop", SvcStop(Fresh, o))
    \/ Command("svc-restart", SvcRestart(Fresh, o))
    \/ Command("svc-fault-demo", SvcFaultDemo(Fresh, o))

DemoCommand ==
  \/ \E o \in Course(3, {}) : Command("taintflow-demo", TaintflowDemo(Fresh, o))
  \/ \E o \in Course(4, {1}) : Command("ingress-demo", IngressDemo(Fresh, o))
  \/ \E o \in Course(5, {1}), intent \in BOOLEAN :
       Command("marz-effect-demo", MarzEffectDemo(Fresh, intent, o))
  \/ \E o \in Course(7, {1, 4, 6}) : Command("marz-demo", MarzDemo(Fresh, o))
  \/ \E o \in Course(4, {1, 3}) :
       MayBump(k.devTable, NIC) /\ Command("dev-demo", DevDemo(Fresh, o))
  \/ \E o \in Course(3, {}) :
       MayBump(k.nsTable, "calc") /\ Command("nsrevoke-demo", NsrevokeDemo(Fresh, o))
  \/ \E o \in Course(4, {}) :
       MayBump(k.nsTable, "lab") /\ Command("agentrevoke-demo", AgentrevokeDemo(Fresh, o))
  \/ \E o \in Course(8, {}) : Command("cairn-demo", CairnDemo(Fresh, o))

\* The machine is restarted: the kernel's tables are built anew, the store keeps
\* its superblock.
Reboot == Command("boot", Booted(k.flags, k.barred))

OperatorNext ==
  StorageCommand \/ AuthorityCommand \/ NetworkCommand \/ ServiceCommand \/ DemoCommand \/ Reboot

OperatorSpec == OperatorInit /\ [][OperatorNext]_operatorVars

-----------------------------------------------------------------------------
(* Properties. *)

\* What a command writes or sends obeys the labels, in any order of reads, network
\* answers, declassifications, endorsements and demos: after a secret was read
\* nothing reaches a sink not cleared for it, and after outside bytes were taken
\* in nothing is committed to a namespace that demands an endorsement
\* (difc_may_write() and marz_gate()).
FlowsObeyLabels ==
  \A e \in k.did :
    /\ e.act = "commit" => /\ e.secret => NsLabel(e.obj) # PUBLIC
                           /\ e.outside => NsRequires(e.obj) = UNTRUSTED
    /\ e.act = "send" /\ e.secret => DestLabel(e.obj) # PUBLIC



=============================================================================
