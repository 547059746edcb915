------------------------------ MODULE CairnLog ------------------------------
(***************************************************************************)
(* What Cairn promises: one history of effects per namespace, changed only *)
(* by whole operations.  A crash or a failed request leaves the histories  *)
(* as they were, or as the whole operation makes them.                     *)
(***************************************************************************)
EXTENDS Naturals, Sequences

CONSTANTS
  Namespace,    \* the namespaces
  Entry,        \* what a history consists of
  Mission,      \* the missions that can be rolled back
  InMission(_, _),          \* an entry belongs to a mission
  Reversible(_),            \* moving the ref undoes the entry
  Compensation(_, _)        \* the compensations of an entry for a mission

VARIABLES
  log,          \* the history of each namespace, oldest entry first
  revoked       \* namespaces that are revoked

vars == <<log, revoked>>

Init ==
  /\ log = [n \in Namespace |-> <<>>]
  /\ revoked = {}

Prefix(s, k) == SubSeq(s, 1, k)

Commit(n, e) == log' = [log EXCEPT ![n] = Append(@, e)]

Rollback(n) == \E k \in 0 .. Len(log[n]) : log' = [log EXCEPT ![n] = Prefix(@, k)]

\* The histories a namespace may have after a mission is rolled back: only
\* reversible entries of the mission go, newest first, and one compensation may
\* be recorded on top of the entry it undoes.
Undone(s, m) ==
  LET kept == {k \in 0 .. Len(s) :
                 \A i \in k + 1 .. Len(s) : InMission(s[i], m) /\ Reversible(s[i])}
  IN {Prefix(s, k) : k \in kept} \cup
     UNION {{Append(Prefix(s, k), c) : c \in Compensation(s[k], m)} : k \in kept \ {0}}

\* All namespaces change together.
RollbackMission(m) ==
  /\ DOMAIN log' = Namespace
  /\ \A n \in Namespace : log'[n] \in Undone(log[n], m)

ChangeHistory ==
  /\ log' # log
  /\ \/ \E n \in Namespace : Rollback(n) \/ \E e \in Entry : Commit(n, e)
     \/ \E m \in Mission : RollbackMission(m)
  /\ UNCHANGED revoked

ChangeRevocation ==
  /\ \E n \in Namespace : revoked' \in {revoked \cup {n}, revoked \ {n}}
  /\ UNCHANGED log

Next == ChangeHistory \/ ChangeRevocation

Spec == Init /\ [][Next]_vars
=============================================================================
