-------------------------------- MODULE Marz --------------------------------
(***************************************************************************)
(* Egress: the console verbs marz-send, marz-ping and marz-effect of       *)
(* dezh-boot/src/net/marz.rs launch the daemon of dezh-boot/marz/src/main.rs, *)
(* which drives a virtio-net device and, for an effect, waits for the       *)
(* answer of the gateway outside the machine.  One command runs at a time;  *)
(* the network loses, duplicates, reorders and delays frames, and foreign   *)
(* frames arrive on the same queue.                                         *)
(*                                                                         *)
(* The gate in front of a launch is in module Operator: here every command  *)
(* has passed it.                                                           *)
(***************************************************************************)
EXTENDS Integers, Sequences, FiniteSets

CONSTANTS
  Slug,           \* the names an effect may ask the gateway to commit
  RX_NBUF,        \* receive buffers the daemon offers to the device
  MARZ_TRIES,     \* frames that do not match before the daemon gives up
  MaxLaunches,    \* bound: commands of one behaviour
  MaxWire,        \* bound: frames in flight towards the machine
  PromptNetwork,  \* frames arrive within the command they answer, or never
  RunsEnd         \* the daemon is loaded, and the kernel waits until it exits

ASSUME MarzAssumption ==
  /\ RX_NBUF \in Nat \ {0} /\ MARZ_TRIES \in Nat
  /\ MaxLaunches \in Nat /\ MaxWire \in Nat
  /\ PromptNetwork \in BOOLEAN /\ RunsEnd \in BOOLEAN

VARIABLES
  launches,   \* commands so far: the number of the current one
  command,    \* what the console runs: [op, slug]
  marzPc,     \* where the daemon is; "none" while the console reads its line
  tries,      \* frames of the current wait that did not match
  nic,        \* the device: [tx, offered, used]
  window,     \* the request area of the DMA window: a request or a reply
  wire,       \* frames on their way to the machine
  asked,      \* frames that left the machine: <<kind, launch>>
  performed,  \* effects of the gateway: <<slug, launch>>, in commit order
  recorded,     \* records the kernel commits to ns lab, with what it claims
  verdict     \* what the kernel reports of each launch

marzVars == <<launches, command, marzPc, tries, nic, window, wire, asked,
              performed, recorded, verdict>>

Op == {"send", "ping", "effect"}

\* The ring memory of nic_init(): both queues are cleared and the device is
\* reset, so nothing of an earlier launch is left in them.
FreshNic == [tx |-> "empty", offered |-> 0, used |-> <<>>]

\* A frame that reaches the machine: an ARP reply, an echo reply, a datagram of
\* the gateway that answers the request of launch n, or something else.
Packet(kind, n, says) == [kind |-> kind, of |-> n, says |-> says]
Foreign == Packet("foreign", 0, "nothing")
Token(n) == <<"token", n>>

MarzInit ==
  /\ launches = 0
  /\ command = [op |-> "none", slug |-> "none"]
  /\ marzPc = "none"
  /\ tries = 0
  /\ nic = FreshNic
  /\ window = Foreign
  /\ wire = {}
  /\ asked = {}
  /\ performed = <<>>
  /\ recorded = {}
  /\ verdict = <<>>

-----------------------------------------------------------------------------
(* The kernel: the launch, and what it makes of the exit code. *)

\* marz_stage_fx() writes the line of the request into the DMA window.
StageFx(n) == Packet("request", n, "request")

\* marz_send_to(), run_marz_ping() and marz_effect() up to the launch.  The
\* daemon starts with nic_init().
MarzLaunch(op, slug) ==
  /\ marzPc = "none"
  /\ launches < MaxLaunches
  /\ launches' = launches + 1
  /\ command' = [op |-> op, slug |-> slug]
  /\ window' = IF op = "effect" THEN StageFx(launches + 1) ELSE window
  /\ marzPc' = "init"
  /\ tries' = 0
  /\ wire' = IF PromptNetwork THEN {} ELSE wire
  /\ UNCHANGED <<nic, asked, performed, recorded, verdict>>

\* marz_read_reply() refuses a window with bytes that are not printable.
Readable(line) == line.says # "garbled"

\* fx_parse() of the line.  The staged request is a line of the protocol too,
\* with a number for its second word.
FxParse(line) ==
  CASE line.kind = "request" -> "malformed"
    [] line.says = "OK" -> "OK"
    [] line.says = "ERR" -> "refused"
    [] OTHER -> "malformed"

\* fx_compose_record(): the effect with the token that undoes it.
ComposeRecord(line) ==
  [class |-> "compensatable", launch |-> launches, token |-> Token(line.of)]

\* The rest of the command once run_foreground_processes() returns: the exit
\* code decides what the operator is told and what the ledger keeps.
MarzReport(st) ==
  LET said == IF st # 0 THEN "no-reply"
              ELSE IF command.op # "effect" THEN "OK"
              ELSE IF Readable(window) THEN FxParse(window) ELSE "bad-reply"
      kept == CASE said # "OK" -> {}
                [] command.op = "send" ->
                     {[class |-> "irreversible", launch |-> launches, token |-> "none"]}
                [] command.op = "effect" -> {ComposeRecord(window)}
                [] OTHER -> {}
  IN /\ verdict' = Append(verdict, [op |-> command.op, said |-> said])
     /\ recorded' = recorded \cup kept
     /\ marzPc' = "none"
     /\ UNCHANGED <<launches, command, tries>>

\* The process was not loaded, or idle_until_device() stopped waiting for a
\* parked daemon: TEXIT still holds the 0 of the launch.
Abandoned ==
  /\ ~RunsEnd
  /\ marzPc \in {"init", "arpTx", "arpRx", "reqTx", "reqRx"}
  /\ MarzReport(0)
  /\ UNCHANGED <<nic, window, wire, asked, performed>>

-----------------------------------------------------------------------------
(* The daemon. *)

\* sys_exit(st).
Exit(st) == MarzReport(st)

\* rx_wait() takes the next used element and rx_offer() hands its buffer back,
\* whether or not the frame matched.
RxOffer(n) == [n EXCEPT !.used = Tail(@), !.offered = @ + 1]

\* build_arp_request(), build_frame_to() and build_icmp_echo(): the frame that is
\* put into the transmit buffer.
BuildArpRequest == "arp"
BuildFrameTo == "udp"
BuildIcmpEcho == "echo"
Built == {BuildArpRequest, BuildFrameTo, BuildIcmpEcho}

\* main() after nic_init(): rx_arm() for the operations that wait for answers,
\* then the first frame is built and published by transmit().
DaemonInit ==
  /\ marzPc = "init"
  /\ IF command.op = "send"
     THEN nic' = [FreshNic EXCEPT !.tx = BuildFrameTo] /\ marzPc' = "reqTx"
     ELSE /\ nic' = [FreshNic EXCEPT !.tx = BuildArpRequest, !.offered = RX_NBUF]
          /\ marzPc' = "arpTx"
  /\ UNCHANGED <<launches, command, tries, window, wire, asked, performed, recorded, verdict>>

\* nic_init() finds no device on the granted page.
DaemonNoDevice ==
  /\ marzPc = "init"
  /\ Exit(1)
  /\ UNCHANGED <<nic, window, wire, asked, performed>>

\* transmit() sees the used index move.
TransmitDone ==
  /\ marzPc \in {"arpTx", "reqTx"}
  /\ nic.tx = "used"
  /\ IF command.op = "send"
     THEN Exit(0)
     ELSE /\ marzPc' = IF marzPc = "arpTx" THEN "arpRx" ELSE "reqRx"
          /\ tries' = 0
          /\ UNCHANGED <<launches, command, recorded, verdict>>
  /\ UNCHANGED <<nic, window, wire, asked, performed>>


\* transmit() gives up after its bound of interrupts; the device may still hold
\* the frame.
TransmitTimeout ==
  /\ marzPc \in {"arpTx", "reqTx"}
  /\ nic.tx # "used"
  /\ Exit(1)
  /\ UNCHANGED <<nic, window, wire, asked, performed>>

\* What a received frame is compared with: the addresses and the protocol, and
\* for an echo the identifier, which is the same constant in every launch.
ParseArpReply(f) == f.kind = "arp"
IsOurEchoReply(f) == f.kind = "echo"
ParseUdpReply(f) == f.kind = "udp"
Matches(f) ==
  CASE marzPc = "arpRx" -> ParseArpReply(f)
    [] command.op = "ping" -> IsOurEchoReply(f)
    [] OTHER -> ParseUdpReply(f)

\* The exit code of a wait that ends without its frame.
NoAnswer == IF marzPc = "reqRx" /\ command.op = "effect" THEN 2 ELSE 1

\* One round of a receive loop, for a frame that does not match.
RxOther ==
  /\ marzPc \in {"arpRx", "reqRx"}
  /\ nic.used # <<>>
  /\ ~Matches(Head(nic.used))
  /\ nic' = RxOffer(nic)
  /\ IF tries + 1 > MARZ_TRIES
     THEN Exit(NoAnswer)
     ELSE /\ tries' = tries + 1
          /\ UNCHANGED <<launches, command, marzPc, recorded, verdict>>
  /\ UNCHANGED <<window, wire, asked, performed>>

\* The ARP reply came: the request (or the echo) is built and published.
RxArp ==
  /\ marzPc = "arpRx"
  /\ nic.used # <<>>
  /\ Matches(Head(nic.used))
  /\ nic' = [RxOffer(nic) EXCEPT
              !.tx = IF command.op = "ping" THEN BuildIcmpEcho ELSE BuildFrameTo]
  /\ marzPc' = "reqTx"
  /\ UNCHANGED <<launches, command, tries, window, wire, asked, performed, recorded, verdict>>

\* The answer came: stage_reply() copies a datagram into the window, and the
\* daemon exits.  The kernel reads the window when the process has ended.
RxAnswer ==
  /\ marzPc = "reqRx"
  /\ nic.used # <<>>
  /\ Matches(Head(nic.used))
  /\ nic' = RxOffer(nic)
  /\ window' = IF command.op = "effect" THEN Head(nic.used) ELSE window
  /\ marzPc' = "answered"
  /\ UNCHANGED <<launches, command, tries, wire, asked, performed, recorded, verdict>>

DaemonAnswered ==
  /\ marzPc = "answered"
  /\ Exit(0)
  /\ UNCHANGED <<nic, window, wire, asked, performed>>

\* rx_wait() gives up after its bound of interrupts.
RxTimeout ==
  /\ marzPc \in {"arpRx", "reqRx"}
  /\ nic.used = <<>>
  /\ Exit(NoAnswer)
  /\ UNCHANGED <<nic, window, wire, asked, performed>>

-----------------------------------------------------------------------------
(* The device, the network and the gateway (outside src/dezh-boot). *)

\* The device consumes the published frame, which leaves the machine.
NicSend ==
  /\ nic.tx \in Built
  /\ nic' = [nic EXCEPT !.tx = "used"]
  /\ asked' = asked \cup {<<IF nic.tx = "arp" THEN "arp" ELSE command.op, launches>>}
  /\ UNCHANGED <<launches, command, marzPc, tries, window, wire, performed, recorded, verdict>>

\* A host answers an ARP or an echo request, or something unrelated is sent.
HostSends(f) ==
  /\ Cardinality(wire) < MaxWire
  /\ f \notin wire
  /\ \/ f = Foreign
     \/ f.kind = "arp" /\ <<"arp", f.of>> \in asked /\ f.of = launches
     \/ f.kind = "echo" /\ <<"ping", f.of>> \in asked /\ f.of = launches
  /\ wire' = wire \cup {f}
  /\ UNCHANGED <<launches, command, marzPc, tries, nic, window, asked, performed,
                 recorded, verdict>>

\* handle() of the gateway: do_commit() refuses a slug that exists.
GatewayHandle ==
  /\ Cardinality(wire) < MaxWire
  /\ <<"effect", launches>> \in asked
  /\ ~\E f \in wire : f.kind = "udp" /\ f.of = launches
  /\ ~\E i \in DOMAIN performed : performed[i][2] = launches
  /\ \E i \in DOMAIN performed : performed[i][1] = command.slug
  /\ wire' = wire \cup {Packet("udp", launches, "ERR")}
  /\ UNCHANGED <<launches, command, marzPc, tries, nic, window, asked, performed,
                 recorded, verdict>>

\* ... and commits the others; the reply may be unreadable to the kernel.
GatewayCommit(says) ==
  /\ Cardinality(wire) < MaxWire
  /\ <<"effect", launches>> \in asked
  /\ ~\E f \in wire : f.kind = "udp" /\ f.of = launches
  /\ ~\E i \in DOMAIN performed : \/ performed[i][2] = launches
                                  \/ performed[i][1] = command.slug
  /\ performed' = Append(performed, <<command.slug, launches>>)
  /\ wire' = wire \cup {Packet("udp", launches, says)}
  /\ UNCHANGED <<launches, command, marzPc, tries, nic, window, asked, recorded, verdict>>

\* A frame is delivered into an offered buffer; it may be delivered again.
NicDeliver(f, again) ==
  /\ f \in wire
  /\ nic.offered > 0
  /\ nic' = [nic EXCEPT !.offered = @ - 1, !.used = Append(@, f)]
  /\ wire' = IF again THEN wire ELSE wire \ {f}
  /\ UNCHANGED <<launches, command, marzPc, tries, window, asked, performed, recorded, verdict>>

\* A frame is lost on the way, or finds no buffer.
NetLose(f) ==
  /\ f \in wire
  /\ wire' = wire \ {f}
  /\ UNCHANGED <<launches, command, marzPc, tries, nic, window, asked, performed,
                 recorded, verdict>>

MarzNext ==
  \/ \E op \in Op : \E slug \in Slug : MarzLaunch(op, slug)
  \/ Abandoned
  \/ DaemonInit \/ DaemonNoDevice \/ TransmitDone \/ TransmitTimeout
  \/ RxOther \/ RxArp \/ RxAnswer \/ DaemonAnswered \/ RxTimeout
  \/ NicSend
  \/ HostSends(Foreign)
  \/ \E kind \in {"arp", "echo"} : HostSends(Packet(kind, launches, "nothing"))
  \/ GatewayHandle
  \/ \E says \in {"OK", "garbled"} : GatewayCommit(says)
  \/ \E f \in wire : (\E again \in BOOLEAN : NicDeliver(f, again)) \/ NetLose(f)

MarzSpec == MarzInit /\ [][MarzNext]_marzVars

-----------------------------------------------------------------------------
(* Properties. *)

\* Every record of the ledger is true of the world: a send that is recorded as
\* irreversible left the machine, and the token under which an effect can be
\* compensated is the one the gateway gave to the effect of that very command
\* (marz_send_to() and marz_effect() record after the exit code, and the window
\* is shared by every launch).
LedgerTruthful ==
  \A r \in recorded :
    IF r.class = "irreversible"
    THEN <<"send", r.launch>> \in asked
    ELSE /\ r.token = Token(r.launch)
         /\ \E i \in DOMAIN performed : performed[i][2] = r.launch

\* A probe is reported as answered only if its own echo left the machine
\* (run_marz_ping()), and an effect is reported as refused only if the gateway
\* performed nothing for it.
VerdictTruthful ==
  \A n \in DOMAIN verdict :
    /\ verdict[n].op = "ping" /\ verdict[n].said = "OK" => <<"ping", n>> \in asked
    /\ verdict[n].said = "refused" => ~\E i \in DOMAIN performed : performed[i][2] = n


=============================================================================
