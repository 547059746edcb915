------------------------------ MODULE Bundles -------------------------------
(***************************************************************************)
(* The first store and the base apps: the block daemon's requests other     *)
(* than Cairn's (virtio-blk/src/main.rs), its client, and the console        *)
(* commands that send them one after the other (apps.rs, vblk.rs).           *)
(*                                                                         *)
(* disk    the sectors these requests name, and some at the edges of the    *)
(*         package store's regions                                          *)
(* buf     the data area of the DMA window, shared by all requests          *)
(* queue   the requests that the running console command is still to send   *)
(* answered  the request answered last, its status and whether it launched *)
(* commands, faults   how many there have been                              *)
(* Ghost: told[a] is the state of app a that the last answer to an install  *)
(* or a removal of it promised, "unknown" where there was none or it failed. *)
(*                                                                         *)
(* The daemon serves one request at a time and nobody else moves sectors,    *)
(* so a request is one step; its fate says which of its transfers fails, or   *)
(* before which of them the power is cut.                                    *)
(***************************************************************************)
EXTENDS Integers, Sequences, FiniteSets

CONSTANTS
  Text,         \* what the operator stores
  PkgSector,    \* the sectors that package requests are made for
  MaxCommands,  \* bound on console commands
  MaxFaults     \* bound on failed transfers and power cuts

VARIABLES disk, buf, queue, answered, commands, faults, told

bundleVars == <<disk, buf, queue, answered, commands, faults, told>>

App == {"note", "lab", "calc", "vault"}

\* The layout of the disk.
Marker == 0
Current == 2
Previous == 3
RootMetadata == 4
RegistryPrevious == 6
TestSector == 8
Registry == [note |-> 5, lab |-> 7, calc |-> 9, vault |-> 10]
PrivateRoot == [note |-> 16, lab |-> 17, calc |-> 18, vault |-> 19]
PkgStoreMarker == 24
PkgRegion == [registry |-> 25..31, journal |-> 32..39, blob |-> 64..1599]

AppSector == {Registry[a] : a \in App} \cup {PrivateRoot[a] : a \in App} \cup {RegistryPrevious}
Sector == {Marker, Current, Previous, RootMetadata, TestSector, PkgStoreMarker}
            \cup AppSector \cup PkgSector

\* What a sector holds: a registry entry, whose magic names the app, or other bytes.
Entry(a, state) == <<a, state>>
Bytes(x) == <<"bytes", x>>
Blank == Bytes("blank")

BundleInit ==
  /\ disk = [s \in Sector |-> Blank] /\ buf = Blank
  /\ queue = <<>> /\ commands = 0 /\ faults = 0
  /\ answered = [op |-> "none", app |-> "none", status |-> "OK", launched |-> FALSE]
  /\ told = [a \in App |-> "unknown"]

-----------------------------------------------------------------------------
(* Transfers.  A store m is the disk and the data area; ok[n] tells whether the *)
(* n-th transfer of a request succeeds.  A transfer that fails moves nothing.   *)

Read(m, s, ok) == IF ok THEN [m EXCEPT !.buf = m.disk[s]] ELSE m
Write(m, s, ok) == IF ok THEN [m EXCEPT !.disk[s] = m.buf] ELSE m

\* set_data() and copy_input().
Put(m, content) == [m EXCEPT !.buf = content]

Answer(m, status) == [m |-> m, status |-> status]
StatusFromIo(ok) == IF ok THEN "OK" ELSE "IO_FAILURE"

\* registry_is_active(), registry_is_removed() after their read.
Says(m, a, state, ok) == ok /\ m.buf = Entry(a, state)

-----------------------------------------------------------------------------
(* The app registry and the apps' private values. *)

\* Keeping the replaced entry: neither transfer's status is looked at.
KeepPrevious(m, a, ok1, ok2) ==
  Write(Read(m, Registry[a], ok1), RegistryPrevious, ok2)


Install(m, a, ok) ==
  LET asked == Read(m, Registry[a], ok[1])
      kept == KeepPrevious(asked, a, ok[2], ok[3])
      pending == Write(Put(kept, Entry(a, "Pending")), Registry[a], ok[4])
      active == Write(Put(pending, Entry(a, "Active")), Registry[a], ok[5])
      verified == Read(active, Registry[a], ok[6])
  IN  IF Says(asked, a, "Active", ok[1]) THEN Answer(asked, "OK")
      ELSE Answer(verified, StatusFromIo(/\ ok[4] /\ ok[5]
                                         /\ Says(verified, a, "Active", ok[6])))

\* The registry is read again for the second question.
Require(m, a, ok) ==
  LET asked == Read(m, Registry[a], ok[1])
      again == Read(asked, Registry[a], ok[2])
  IN  IF Says(asked, a, "Active", ok[1]) THEN Answer(asked, "OK")
      ELSE Answer(again, IF Says(again, a, "Removed", ok[2]) THEN "FAULTED" ELSE "UNAVAILABLE")

Remove(m, a, ok) ==
  LET asked == Read(m, Registry[a], ok[1])
      again == Read(asked, Registry[a], ok[2])
      active == Says(asked, a, "Active", ok[1])
      kept == KeepPrevious(IF active THEN asked ELSE again, a, ok[3], ok[4])
      removed == Write(Put(kept, Entry(a, "Removed")), Registry[a], ok[5])
  IN  IF active \/ Says(again, a, "Removed", ok[2]) THEN Answer(removed, StatusFromIo(ok[5]))
      ELSE Answer(again, "UNAVAILABLE")

SetValue(m, a, text, ok) ==
  LET asked == Read(m, Registry[a], ok[1])
      set == Write(Put(asked, Bytes(text)), PrivateRoot[a], ok[2])
  IN  IF Says(asked, a, "Active", ok[1]) THEN Answer(set, StatusFromIo(ok[2]))
      ELSE Answer(asked, "UNAVAILABLE")

GetValue(m, a, ok) ==
  LET asked == Read(m, Registry[a], ok[1])
  IN  IF Says(asked, a, "Active", ok[1])
      THEN Answer(Read(asked, PrivateRoot[a], ok[2]), StatusFromIo(ok[2]))
      ELSE Answer(asked, "UNAVAILABLE")

AppRequest(m, r, a, ok) ==
  CASE r.op = "install" -> Install(m, a, ok)
    [] r.op = "require" -> Require(m, a, ok)
    [] r.op = "remove"  -> Remove(m, a, ok)
    [] r.op = "set"     -> SetValue(m, a, r.text, ok)
    [] r.op = "get"     -> GetValue(m, a, ok)
NoteRequest(m, r, ok) == AppRequest(m, r, "note", ok)
LabRequest(m, r, ok) == AppRequest(m, r, "lab", ok)
CalcRequest(m, r, ok) == AppRequest(m, r, "calc", ok)
VaultRequest(m, r, ok) == AppRequest(m, r, "vault", ok)

\* One app's part of a listing: the second question only if the first is denied.
Listed(m, a, ok1, ok2) ==
  LET asked == Read(m, Registry[a], ok1)
  IN  IF Says(asked, a, "Active", ok1) THEN asked ELSE Read(asked, Registry[a], ok2)
ListApps(m, ok) ==
  Listed(Listed(Listed(Listed(m, "note", ok[1], ok[2]), "lab", ok[3], ok[4]),
                "calc", ok[5], ok[6]), "vault", ok[7], ok[8])

\* Whether any app is shown.
Installed(m, ok) ==
  LET order == <<"note", "lab", "calc", "vault">>
      shown(n) == \/ m.disk[Registry[order[n]]] = Entry(order[n], "Active") /\ ok[2 * n - 1]
                  \/ m.disk[Registry[order[n]]] = Entry(order[n], "Removed") /\ ok[2 * n]
  IN  Answer(ListApps(m, ok), IF \E n \in 1..4 : shown(n) THEN "OK" ELSE "UNAVAILABLE")
Info(m, ok) == Answer(ListApps(m, ok), "OK")

-----------------------------------------------------------------------------
(* The first store, the root and the package store's sectors. *)

\* The value that was current becomes the previous one; only the last transfer's
\* status is answered.
Pset(m, text, ok) ==
  LET kept == Write(Read(m, Current, ok[1]), Previous, ok[2])
  IN  Answer(Write(Put(kept, Bytes(text)), Current, ok[3]), StatusFromIo(ok[3]))
Pget(m, ok) == Answer(Read(m, Current, ok[1]), StatusFromIo(ok[1]))
Prollback(m, ok) == Answer(Write(Read(m, Previous, ok[1]), Current, ok[2]), StatusFromIo(ok[2]))

Bwrite(m, ok) == Answer(Write(Put(m, Bytes("test")), TestSector, ok[1]), StatusFromIo(ok[1]))
Bread(m, ok) == Answer(Read(Put(m, Blank), TestSector, ok[1]), StatusFromIo(ok[1]))

InstallCheck(m, ok) ==
  LET read == Read(m, Marker, ok[1])
  IN  Answer(read, IF ok[1] /\ read.buf = Bytes("inst") THEN "OK" ELSE "UNAVAILABLE")
InstallInitRequest(m, ok) ==
  LET marked == Write(Put(m, Bytes("inst")), Marker, ok[1])
  IN  Answer(Write(Put(marked, Bytes("root")), RootMetadata, ok[2]), StatusFromIo(ok[1] /\ ok[2]))
RootStatus(m, ok) == Answer(Read(m, RootMetadata, ok[1]), StatusFromIo(ok[1]))

PkgStoreInit(m, ok) == Answer(Write(Put(m, Bytes("pkgs")), PkgStoreMarker, ok[1]), StatusFromIo(ok[1]))

InRegion(region, s) == s \in PkgRegion[region]
PkgRead(m, region, s, ok) ==
  IF InRegion(region, s) THEN Answer(Read(m, s, ok[1]), StatusFromIo(ok[1]))
  ELSE Answer(m, "DENIED")
PkgWrite(m, region, s, ok) ==
  IF InRegion(region, s) THEN Answer(Write(Put(m, Bytes("pkg")), s, ok[1]), StatusFromIo(ok[1]))
  ELSE Answer(m, "DENIED")

-----------------------------------------------------------------------------
(* The daemon. *)

\* A request: its operation and, where it has them, an app, a text, a region and a
\* sector.
Req(op) == [op |-> op, app |-> "none", text |-> "none", region |-> "none", sector |-> 0]
AppReq(op, a) == [Req(op) EXCEPT !.app = a]
TextReq(op, text) == [Req(op) EXCEPT !.text = text]
SetReq(a, text) == [AppReq("set", a) EXCEPT !.text = text]
PkgReq(op, region, s) == [Req(op) EXCEPT !.region = region, !.sector = s]

\* A Cairn request leaves a sector of Cairn's in the data area; a daemon that stops
\* or fails has the area cleared when it is started again.
Serve(m, r, ok) ==
  CASE r.op \in {"probe", "available"} -> Answer(m, "OK")
    [] r.op = "bad" -> Answer(m, "BAD_REQUEST")
    [] r.op = "bwrite" -> Bwrite(m, ok)
    [] r.op = "bread" -> Bread(m, ok)
    [] r.op = "pset" -> Pset(m, r.text, ok)
    [] r.op = "pget" -> Pget(m, ok)
    [] r.op = "prollback" -> Prollback(m, ok)
    [] r.op \in {"stop", "fault"} -> Answer(Put(m, Blank), "OK")
    [] r.op = "install-check" -> InstallCheck(m, ok)
    [] r.op = "install-init" -> InstallInitRequest(m, ok)
    [] r.op = "root-status" -> RootStatus(m, ok)
    [] r.op = "pkg-init" -> PkgStoreInit(m, ok)
    [] r.op = "pkg-read" -> PkgRead(m, r.region, r.sector, ok)
    [] r.op = "pkg-write" -> PkgWrite(m, r.region, r.sector, ok)
    [] r.op = "installed" -> Installed(m, ok)
    [] r.op = "info" -> Info(m, ok)
    [] r.app = "note" -> NoteRequest(m, r, ok)
    [] r.app = "lab" -> LabRequest(m, r, ok)
    [] r.app = "calc" -> CalcRequest(m, r, ok)
    [] r.app = "vault" -> VaultRequest(m, r, ok)
    [] r.op = "cairn" -> Answer(Put(m, Bytes("record")), "OK")

-----------------------------------------------------------------------------
(* The console's commands, as the requests they send. *)

InstallVerify == <<Req("install-check"), Req("root-status"), Req("installed")>>
InstallRun ==
  <<Req("install-init"), AppReq("install", "note"), AppReq("install", "lab"),
    AppReq("install", "calc"), AppReq("install", "vault")>> \o InstallVerify

\* client_request() reads the value back after a rollback.
RollbackCommand == <<Req("prollback"), Req("pget")>>
BenchStorage(t, u) ==
  <<Req("install-check"), Req("install-init"), TextReq("pset", t), Req("pget"),
    TextReq("pset", u)>> \o RollbackCommand
ClientDemo(t, u) ==
  <<Req("probe"), Req("bwrite"), Req("bread"), TextReq("pset", t), Req("pget"),
    TextReq("pset", u), Req("prollback"), Req("pget")>>

\* app_run(), calc_command() and vault_put() ask first, and go on if they are told
\* that the app is active.  A calculation that fails stores nothing, as a run does.
RunReq(a) == AppReq("run", a)
PutReq(a, text) == [AppReq("put", a) EXCEPT !.text = text]
Asks(r) == r.op \in {"run", "put"}
GoesOn(r) ==
  CASE r.op = "put" -> <<SetReq(r.app, r.text)>>
    [] r.op = "run" /\ r.app = "lab" ->
         <<SetReq("lab", "start"), SetReq("lab", "complete"), AppReq("get", "lab")>>
    [] OTHER -> <<>>
AsksFor(r) == IF Asks(r) THEN AppReq("require", r.app) ELSE r

\* The commands that send one request.
FirstStoreCommand == {Req(op) : op \in {"probe", "bwrite", "bread", "pget"}}
                    \cup {TextReq("pset", t) : t \in Text}
RootCommand == {Req(op) : op \in {"install-check", "install-init", "root-status"}}
InstallCommand == {AppReq("install", a) : a \in App}
RemoveCommand == {AppReq("remove", a) : a \in App}
ValueCommand == {AppReq("get", a) : a \in App}
                  \cup {SetReq(a, t) : a \in {"note", "lab"}, t \in Text}
AskingCommand == {RunReq(a) : a \in App} \cup {PutReq(a, t) : a \in {"calc", "vault"}, t \in Text}
PkgCommand == {Req("pkg-init")} \cup {PkgReq(op, g, s) : op \in {"pkg-read", "pkg-write"},
                                                      g \in DOMAIN PkgRegion, s \in PkgSector}
DaemonCommand == {Req(op) : op \in {"stop", "fault", "bad", "cairn"}}

ListCommand ==
  {<<Req("info")>>, <<Req("available")>>, <<Req("installed")>>, <<Req("available"), Req("installed")>>}

ConsoleCommand ==
  {<<r>> : r \in FirstStoreCommand \cup RootCommand \cup InstallCommand \cup RemoveCommand
                  \cup ValueCommand \cup AskingCommand \cup PkgCommand \cup DaemonCommand}
    \cup ListCommand \cup {RollbackCommand, InstallRun, InstallVerify}
    \cup {BenchStorage(t, u) : t, u \in Text} \cup {ClientDemo(t, u) : t, u \in Text}

-----------------------------------------------------------------------------

IssueCommand(c) ==
  /\ queue = <<>> /\ commands < MaxCommands
  /\ queue' = c /\ commands' = commands + 1
  /\ UNCHANGED <<disk, buf, answered, faults, told>>

\* What an answer promises of an app's state.
Promised(r, status) ==
  [a \in App |->
     IF r.app # a \/ r.op \notin {"install", "remove"} THEN told[a]
     ELSE IF status = "OK" THEN IF r.op = "install" THEN "Active" ELSE "Removed"
     ELSE "unknown"]

AllWell == [n \in 1..8 |-> TRUE]
Failing(n) == [AllWell EXCEPT ![n] = FALSE]
CutAt(n) == [i \in 1..8 |-> i < n]

\* run_registered_virtio_client() and run_registered_virtio_client_status(): the
\* client sends the request and exits with the answer's status.
Exchange(ok) ==
  LET r == AsksFor(Head(queue))
      served == Serve([disk |-> disk, buf |-> buf], r, ok)
      goes == Asks(Head(queue)) /\ served.status = "OK"
  IN
  /\ queue # <<>>
  /\ disk' = served.m.disk /\ buf' = served.m.buf
  /\ answered' = [op |-> r.op, app |-> r.app, status |-> served.status,
              launched |-> goes /\ Head(queue).op = "run"]
  /\ told' = Promised(r, served.status)
  /\ queue' = (IF goes THEN GoesOn(Head(queue)) ELSE <<>>) \o Tail(queue)
  /\ UNCHANGED commands
Served == Exchange(AllWell) /\ UNCHANGED faults
ServedWithError ==
  /\ faults < MaxFaults /\ faults' = faults + 1
  /\ \E n \in 1..8 : Exchange(Failing(n))

\* The service is not available: the command goes on to its next request.
Unavailable ==
  /\ queue # <<>> /\ faults < MaxFaults /\ faults' = faults + 1
  /\ queue' = Tail(queue)
  /\ answered' = [op |-> "none", app |-> "none", status |-> "DENIED", launched |-> FALSE]
  /\ UNCHANGED <<disk, buf, commands, told>>

\* The power is cut before the n-th transfer of a request; what follows is a boot.
PowerCut(n) ==
  LET r == AsksFor(Head(queue))
      served == Serve([disk |-> disk, buf |-> buf], r, CutAt(n))
  IN
  /\ queue # <<>> /\ faults < MaxFaults /\ faults' = faults + 1
  /\ disk' = served.m.disk /\ buf' = Blank /\ queue' = <<>>
  /\ told' = Promised(r, "none")
  /\ answered' = [op |-> "none", app |-> "none", status |-> "OK", launched |-> FALSE]
  /\ UNCHANGED commands

BundleNext ==
  \/ \E c \in ConsoleCommand : IssueCommand(c)
  \/ Served \/ ServedWithError \/ Unavailable
  \/ \E n \in 1..8 : PowerCut(n)

BundleSpec == BundleInit /\ [][BundleNext]_bundleVars

-----------------------------------------------------------------------------
(* Properties. *)

\* What the operator was told of an app holds until they ask for a change of it: an
\* acknowledged install stays Active and an acknowledged removal Removed, on the
\* disk, through failed transfers and power cuts in other requests and in other
\* apps' installs, which share the sector of the replaced entry and the data area;
\* and an app is launched only in the state Active (app_run(), the daemon's app
\* requests).
LifecycleHeld ==
  /\ \A a \in App : told[a] # "unknown" => disk[Registry[a]] = Entry(a, told[a])
  /\ answered.launched => disk[Registry[answered.app]] = Entry(answered.app, "Active")

\* The sectors a request may change.
MayChange(r) ==
  CASE r.op \in {"install", "remove"} -> {Registry[r.app], RegistryPrevious}
    [] r.op = "set" -> IF disk[Registry[r.app]] = Entry(r.app, "Active")
                       THEN {PrivateRoot[r.app]} ELSE {}
    [] r.op \in {"pset", "prollback"} -> {Current, Previous}
    [] r.op = "bwrite" -> {TestSector}
    [] r.op = "install-init" -> {Marker, RootMetadata}
    [] r.op = "pkg-init" -> {PkgStoreMarker}
    [] r.op = "pkg-write" /\ r.region = "registry" -> 25..31
    [] r.op = "pkg-write" /\ r.region = "journal" -> 32..39
    [] r.op = "pkg-write" /\ r.region = "blob" -> 64..1599
    [] OTHER -> {}

\* A request changes the sectors of its own part of the disk and no others, a value
\* only of an app that is Active at that moment, whatever a failed transfer left in
\* the data area and for the sectors at the edges of the regions too (the ranges of
\* the package requests, the guards of the apps' storage).
OwnSectors ==
  disk' # disk =>
    \A s \in Sector : disk'[s] # disk[s] => s \in MayChange(AsksFor(Head(queue)))


\* The current value of the first store is one that the operator stored.  A rollback
\* whose first transfer fails writes what the data area held instead.
CurrentWasStored == disk[Current] \in {Blank} \cup {Bytes(t) : t \in Text}

=============================================================================
