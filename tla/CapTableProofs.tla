--------------------------- MODULE CapTableProofs ---------------------------
(***************************************************************************)
(* Revocation is final and delegation only narrows, for any objects, any    *)
(* rights and any number of handles, while no generation counter has gone   *)
(* round.                                                                   *)
(***************************************************************************)
EXTENDS CapTable, TLAPS

\* What the two properties do not say by themselves: a handle carries a
\* generation its object has had, and the counter has not gone round.
Dated ==
  /\ \A o \in Object : table[o] <= MaxRevokes + 1
  /\ \A h \in handles : h.generation >= 1 /\ h.generation <= table[h.object]

CapInv == CapTypeOK /\ Dated /\ RevokedStaysDead /\ DelegationNarrows

\* Issuing a handle keeps the types of the handles in existence.
LEMMA IssueTypes ==
  ASSUME CapTypeOK, NEW h \in Handle, NEW from \in SUBSET Rights, Issue(h, from)
  PROVE  /\ handles' \in SUBSET Handle
         /\ origin' \in [handles' -> SUBSET Rights]
         /\ handles' = handles \cup {h}
         /\ \A g \in handles : g # h => origin'[g] = origin[g]
         /\ from \subseteq origin'[h]
         /\ h \in handles => origin[h] \subseteq origin'[h]
  BY DEF CapTypeOK, Issue

\* CapTable::mint(): the handle is dated now, and its rights are its origin.
LEMMA MintKeeps ==
  ASSUME CapInv, NEW o \in Object, NEW rights \in SUBSET Rights, Mint(o, rights)
  PROVE  CapInv'
<1> DEFINE h == CapMint(table, o, rights)
<1>1. h \in Handle /\ h.object = o /\ h.rights = rights /\ h.generation = table[o]
  BY GenAssumption DEF CapInv, CapTypeOK, CapMint, Cap, Handle
<1>2. Issue(h, rights) /\ table' = table /\ withdrawn' = withdrawn
  BY DEF Mint
<1>3. CapTypeOK /\ Dated /\ RevokedStaysDead /\ DelegationNarrows
  BY DEF CapInv
<1> HIDE DEF h
<1>4. /\ handles' = handles \cup {h} /\ handles' \in SUBSET Handle
      /\ origin' \in [handles' -> SUBSET Rights]
      /\ \A g \in handles : g # h => origin'[g] = origin[g]
      /\ rights \subseteq origin'[h]
  BY <1>1, <1>2, <1>3, IssueTypes
<1>5. CapTypeOK'
  BY <1>2, <1>3, <1>4 DEF CapTypeOK
<1>6. Dated'
  BY <1>1, <1>2, <1>3, <1>4, GenAssumption DEF Dated, CapTypeOK
<1>7. RevokedStaysDead'
  <2>1. CapLive(table, h)
    BY <1>1, <1>3, GenAssumption DEF CapLive, CapTypeOK, GEN_NEVER
  <2>2. h \notin withdrawn
    BY <1>3, <2>1 DEF RevokedStaysDead, CapTypeOK
  <2> QED
    BY <1>2, <1>3, <1>4, <2>1, <2>2 DEF RevokedStaysDead, CapLive
<1>8. DelegationNarrows'
  BY <1>1, <1>3, <1>4 DEF DelegationNarrows
<1> QED
  BY <1>5, <1>6, <1>7, <1>8 DEF CapInv

\* CapTable::derive(): the child is as live as its parent and no stronger.
LEMMA DeriveKeeps ==
  ASSUME CapInv, NEW parent \in handles, NEW mask \in SUBSET Rights, Derive(parent, mask)
  PROVE  CapInv'
<1> DEFINE h == CapDerive(parent, mask)
<1>1. CapTypeOK /\ Dated /\ RevokedStaysDead /\ DelegationNarrows
  BY DEF CapInv
<1>2. parent \in Handle
  BY <1>1 DEF CapTypeOK
<1>3. /\ h \in Handle /\ h.object = parent.object
      /\ h.rights = parent.rights \cap mask /\ h.generation = parent.generation
  BY <1>2 DEF CapDerive, Cap, Handle
<1>4. /\ Issue(h, origin[parent]) /\ table' = table
      /\ withdrawn' = IF parent \in withdrawn THEN withdrawn \cup {h} ELSE withdrawn
  BY DEF Derive
<1> HIDE DEF h
<1>5. origin[parent] \in SUBSET Rights
  BY <1>1 DEF CapTypeOK
<1>6. /\ handles' = handles \cup {h} /\ handles' \in SUBSET Handle
      /\ origin' \in [handles' -> SUBSET Rights]
      /\ \A g \in handles : g # h => origin'[g] = origin[g]
      /\ origin[parent] \subseteq origin'[h]
  BY <1>1, <1>3, <1>4, <1>5, IssueTypes
<1>7. CapTypeOK'
  BY <1>1, <1>4, <1>6 DEF CapTypeOK
<1>8. Dated'
  BY <1>1, <1>3, <1>4, <1>6 DEF Dated
<1>9. RevokedStaysDead'
  <2>1. CapLive(table, h) <=> CapLive(table, parent)
    BY <1>3 DEF CapLive
  <2>2. CapLive(table, parent) <=> parent \notin withdrawn
    BY <1>1 DEF RevokedStaysDead
  <2>3. h \in withdrawn => ~CapLive(table, h)
    BY <1>1 DEF RevokedStaysDead, CapTypeOK
  <2>4. CapLive(table, h) <=> h \notin withdrawn'
    BY <1>4, <2>1, <2>2, <2>3
  <2>5. \A g \in handles : g # h => (g \in withdrawn' <=> g \in withdrawn)
    BY <1>4
  <2>6. \A g \in handles : CapLive(table, g) <=> g \notin withdrawn
    BY <1>1 DEF RevokedStaysDead
  <2>7. \A g : CapLive(table', g) <=> CapLive(table, g)
    BY <1>4 DEF CapLive
  <2>8. \A g \in handles' : CapLive(table', g) <=> g \notin withdrawn'
    BY <1>6, <2>4, <2>5, <2>6, <2>7
  <2> QED
    BY <2>8 DEF RevokedStaysDead, CapLive
<1>10. DelegationNarrows'
  BY <1>1, <1>3, <1>6 DEF DelegationNarrows
<1> QED
  BY <1>7, <1>8, <1>9, <1>10 DEF CapInv

\* CapTable::revoke(): the new generation is one that no handle has.
LEMMA RevokeKeeps ==
  ASSUME CapInv, NEW o \in Object, Revoke(o)
  PROVE  CapInv'
<1>1. CapTypeOK /\ Dated /\ RevokedStaysDead /\ DelegationNarrows
  BY DEF CapInv
<1>2. /\ table[o] <= MaxRevokes /\ table' = CapRevoke(table, o)
      /\ withdrawn' = withdrawn \cup {h \in handles : h.object = o}
      /\ handles' = handles /\ origin' = origin
  BY DEF Revoke
<1>3. table[o] \in Int /\ table[o] >= 1 /\ MaxRevokes \in Nat /\ MaxRevokes + 1 < GEN_MOD /\ GEN_MOD \in Nat
  BY <1>1, GenAssumption, RevokesAssumption DEF CapTypeOK
<1>4. (table[o] + 1) % GEN_MOD = table[o] + 1
  <2>1. table[o] + 1 \in 0 .. GEN_MOD - 1
    BY <1>2, <1>3
  <2> QED
    BY <1>3, <2>1
<1>5. table' = [table EXCEPT ![o] = table[o] + 1]
  BY <1>2, <1>4 DEF CapRevoke
<1>6. CapTypeOK'
  BY <1>1, <1>2, <1>3, <1>5 DEF CapTypeOK
<1>7. Dated'
  BY <1>1, <1>2, <1>3, <1>5, <1>6 DEF Dated, CapTypeOK, Handle
<1>8. RevokedStaysDead'
  <2> SUFFICES ASSUME NEW h \in handles
               PROVE  CapLive(table', h) <=> h \notin withdrawn'
    BY <1>2 DEF RevokedStaysDead, CapLive
  <2>1. h \in Handle /\ h.generation <= table[h.object] /\ h.object \in Object
    BY <1>1 DEF CapTypeOK, Dated, Handle
  <2>2. CapLive(table, h) <=> h \notin withdrawn
    BY <1>1 DEF RevokedStaysDead
  <2>3. CASE h.object = o
    <3>1. h.generation # table'[o]
      BY <1>1, <1>3, <1>5, <2>1, <2>3 DEF Handle, CapTypeOK
    <3>2. h \in withdrawn'
      BY <1>2, <2>3
    <3> QED
      BY <2>3, <3>1, <3>2 DEF CapLive
  <2>4. CASE h.object # o
    <3>1. table'[h.object] = table[h.object] /\ DOMAIN table' = DOMAIN table
      BY <1>1, <1>5, <2>1, <2>4 DEF CapTypeOK
    <3>2. h \in withdrawn' <=> h \in withdrawn
      BY <1>2, <2>4
    <3> QED
      BY <2>2, <3>1, <3>2 DEF CapLive
  <2> QED
    BY <2>3, <2>4
<1>9. DelegationNarrows'
  BY <1>1, <1>2 DEF DelegationNarrows
<1> QED
  BY <1>6, <1>7, <1>8, <1>9 DEF CapInv

\* The invariant that the properties follow from.
THEOREM CapInvariant == CapSpec => []CapInv
<1>1. CapInit => CapInv
  BY GenAssumption, RevokesAssumption
  DEF CapInit, CapInv, CapTypeOK, Dated, RevokedStaysDead, DelegationNarrows, NewTable
<1>2. CapInv /\ [CapNext]_capVars => CapInv'
  <2> SUFFICES ASSUME CapInv, [CapNext]_capVars
               PROVE  CapInv'
    OBVIOUS
  <2>1. ASSUME NEW o \in Object, NEW rights \in SUBSET Rights, Mint(o, rights)
        PROVE  CapInv'
    BY <2>1, MintKeeps
  <2>2. ASSUME NEW h \in handles, NEW mask \in SUBSET Rights, Derive(h, mask)
        PROVE  CapInv'
    BY <2>2, DeriveKeeps
  <2>3. ASSUME NEW o \in Object, Revoke(o)
        PROVE  CapInv'
    BY <2>3, RevokeKeeps
  <2>4. CASE UNCHANGED capVars
    BY <2>4
    DEF capVars, CapInv, CapTypeOK, Dated, RevokedStaysDead, DelegationNarrows, CapLive
  <2> QED
    BY <2>1, <2>2, <2>3, <2>4 DEF CapNext
<1> QED
  BY <1>1, <1>2, PTL DEF CapSpec

\* Revocation is immediate, complete and final, for every handle that was ever
\* minted or derived: CapTable::revoke() and is_live().
THEOREM RevocationIsFinal == CapSpec => []RevokedStaysDead
<1>1. CapInv => RevokedStaysDead
  BY DEF CapInv
<1> QED
  BY CapInvariant, <1>1, PTL

\* No chain of derivations reaches a right that was not minted:
\* CapTable::derive().
THEOREM DelegationOnlyNarrows == CapSpec => []DelegationNarrows
<1>1. CapInv => DelegationNarrows
  BY DEF CapInv
<1> QED
  BY CapInvariant, <1>1, PTL

=============================================================================
