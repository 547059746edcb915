------------------------------ MODULE CapTable ------------------------------
(***************************************************************************)
(* The authority of module Ocap at work: handles are minted, delegated and  *)
(* revoked in any order, and every handle ever issued stays in somebody's   *)
(* hands.                                                                   *)
(***************************************************************************)
EXTENDS Ocap, FiniteSets

CONSTANTS
  Object,       \* objects of the table
  MaxRevokes,   \* bound: revocations of one object
  MaxHandles    \* bound: handles in existence

ASSUME RevokesAssumption == /\ MaxRevokes \in Nat /\ MaxRevokes < GEN_MOD - 1
                            /\ MaxHandles \in Nat

VARIABLES
  table,     \* the live generation of each object
  handles,   \* every handle that exists
  origin,    \* handle -> the rights of the handle it was minted as
  withdrawn  \* handles whose object was revoked after they were issued

capVars == <<table, handles, origin, withdrawn>>

Handle == [object : Object, rights : SUBSET Rights, generation : 0 .. GEN_MOD - 1]

CapInit ==
  /\ table = NewTable(Object)
  /\ handles = {}
  /\ origin = [h \in {} |-> {}]
  /\ withdrawn = {}

\* A handle enters somebody's hands.  Handles are values: the same one may be
\* issued again, and then the wider origin counts.
Issue(h, from) ==
  /\ Cardinality(handles \cup {h}) <= MaxHandles
  /\ handles' = handles \cup {h}
  /\ origin' = [g \in handles \cup {h} |->
                  IF g # h THEN origin[g]
                  ELSE IF h \in handles THEN origin[h] \cup from ELSE from]

Mint(o, rights) ==
  /\ Issue(CapMint(table, o, rights), rights)
  /\ UNCHANGED <<table, withdrawn>>

\* Defect: a derived handle carries the mask, not the intersection.
DeriveMask(parent, mask) ==
  /\ CapMayDerive(parent)
  /\ Issue(Cap(parent.object, mask, parent.generation), origin[parent])
  /\ UNCHANGED <<table, withdrawn>>

\* Defect: a derived handle is stamped with the live generation.
DeriveFresh(parent, mask) ==
  /\ CapMayDerive(parent)
  /\ Issue(Cap(parent.object, parent.rights \cap mask, table[parent.object]), origin[parent])
  /\ withdrawn' = IF parent \in withdrawn
                    THEN withdrawn \cup {Cap(parent.object, parent.rights \cap mask, table[parent.object])}
                    ELSE withdrawn
  /\ UNCHANGED table

\* Derive works on a stale parent too: the child is as stale as the parent.
Derive(parent, mask) ==
  /\ CapMayDerive(parent)
  /\ Issue(CapDerive(parent, mask), origin[parent])
  /\ withdrawn' = IF parent \in withdrawn THEN withdrawn \cup {CapDerive(parent, mask)}
                                          ELSE withdrawn
  /\ UNCHANGED table

Revoke(o) ==
  /\ table[o] <= MaxRevokes
  /\ table' = CapRevoke(table, o)
  /\ withdrawn' = withdrawn \cup {h \in handles : h.object = o}
  /\ UNCHANGED <<handles, origin>>

CapNext ==
  \/ \E o \in Object : \E rights \in SUBSET Rights : Mint(o, rights)
  \/ \E h \in handles : \E mask \in SUBSET Rights : Derive(h, mask)
  \/ \E o \in Object : Revoke(o)

CapSpec == CapInit /\ [][CapNext]_capVars

-----------------------------------------------------------------------------
CapTypeOK ==
  /\ table \in [Object -> 1 .. GEN_MOD - 1]
  /\ handles \in SUBSET Handle
  /\ origin \in [handles -> SUBSET Rights]
  /\ withdrawn \in SUBSET handles

\* Revocation is immediate, complete and final: once its object was revoked no
\* handle issued before, and no handle derived from one, is ever accepted
\* again, while the generation counter has not gone round (CapTable::revoke()
\* and is_live()); handles of other objects are not touched.
RevokedStaysDead ==
  \A h \in handles : CapLive(table, h) <=> h \notin withdrawn

\* Delegation only narrows: no handle carries a right that the handle it
\* descends from was not minted with (CapTable::derive()).
DelegationNarrows == \A h \in handles : h.rights \subseteq origin[h]

=============================================================================
