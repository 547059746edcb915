------------------------------- MODULE MCCairn -------------------------------
(***************************************************************************)
(* Cairn for TLC, and the histories its disk stands for.                   *)
(***************************************************************************)
EXTENDS Cairn, Sequences

\* Two missions, one undone by moving refs and one by compensation; each is a
\* foreign commit to the other.
MCEffects ==
  {[intent |-> 1, cls |-> "reversible", comp |-> FALSE],
   [intent |-> 2, cls |-> "compensatable", comp |-> TRUE]}

\* A client that holds every namespace, and one that holds some.
MCHoldings == {NS, {0}}

\* The chain that ends in a slot, oldest commit first.
Chain(s) ==
  LET C[t \in Slot \cup {NONE}] ==
        IF t = NONE THEN <<>> ELSE Append(C[record[t].parent], t)
  IN C[s]

EntryOf(r) == [intent |-> r.intent, cls |-> r.cls, comp |-> r.comp, status |-> r.status]

History(n) ==
  LET c == Chain(super.head[n]) IN [i \in DOMAIN c |-> EntryOf(record[c[i]])]

CommittedEntry(e) ==
  [intent |-> e.intent, cls |-> e.cls, comp |-> e.comp, status |-> "committed"]

CompensationEntry(m) ==
  [intent |-> m, cls |-> "reversible", comp |-> FALSE, status |-> "compensation"]

EntryInMission(e, m) == e.intent = m
EntryReversible(e) == e.cls = "reversible"
EntryCompensation(e, m) ==
  IF e.intent = m /\ e.cls = "compensatable" /\ e.comp THEN {CompensationEntry(m)} ELSE {}

Log == INSTANCE CairnLog WITH
  Namespace <- NS,
  Entry <- {CommittedEntry(e) : e \in Effects},
  Mission <- Missions,
  InMission <- EntryInMission,
  Reversible <- EntryReversible,
  Compensation <- EntryCompensation,
  log <- [n \in NS |-> History(n)],
  revoked <- super.revoked

\* The disk and the daemon implement the histories of CairnLog: no failure and
\* no crash lets a reader see half an operation, and a mission changes all its
\* namespaces in one step.
ImplementsLog == Log!Spec

\* The live effects of a mission, as sfar_plan() walks them.
LiveEffects(m) ==
  {s \in Slot : record[s].intent = m /\
     \E n \in NS : \E i \in DOMAIN Chain(super.head[n]) : Chain(super.head[n])[i] = s}

\* sfar_plan() forecasts "full (whole mission undone by ref moves)".
ForecastFull(m) ==
  /\ LiveEffects(m) # {}
  /\ \A s \in LiveEffects(m) : record[s].cls = "reversible"

\* A mission whose forecast is full has no live effect left when its rollback
\* has been published.
ForecastKept ==
  [][\A m \in Missions :
       /\ pc = "publish" /\ req.op = "sfar_rollback" /\ req.ahd = m
       /\ pc' = "idle" /\ super' = NewSuper
       /\ ForecastFull(m)
       => LiveEffects(m)' = {}]_vars
==============================================================================
