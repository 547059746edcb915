-------------------------------- MODULE Ocap --------------------------------
(***************************************************************************)
(* Object capabilities with generation-stamped revocation: CapTable and Cap *)
(* of dezh-core/src/ocap.rs.  A table maps every object to its live         *)
(* generation; a handle names an object, rights and the generation at which *)
(* it was minted.  A rights bitmask is a set.                               *)
(***************************************************************************)
EXTENDS Integers

CONSTANTS
  GEN_MOD,   \* generations are counted modulo this (2^32 in the code)
  Rights     \* the rights bits in use: R_READ, R_WRITE, R_APPEND, R_DELEGATE

ASSUME GenAssumption == GEN_MOD \in Nat \ {0, 1} /\ "delegate" \in Rights

\* A generation that is never live.
GEN_NEVER == 0

Cap(o, rights, generation) == [object |-> o, rights |-> rights, generation |-> generation]

\* CapTable::new(): every object starts at generation 1.
NewTable(Object) == [o \in Object |-> 1]

\* CapTable::mint().
CapMint(table, o, rights) == Cap(o, rights, table[o])

\* CapTable::derive(): the parent must hold R_DELEGATE; its generation is kept
\* and its rights can only narrow.
CapMayDerive(parent) == "delegate" \in parent.rights
CapDerive(parent, mask) == Cap(parent.object, parent.rights \cap mask, parent.generation)

\* CapTable::is_live().
CapLive(table, cap) ==
  /\ cap.object \in DOMAIN table
  /\ cap.generation # GEN_NEVER
  /\ cap.generation = table[cap.object]

\* CapTable::check() for the rights that are wanted.
CapCheck(table, cap, want) ==
  CASE cap.object \notin DOMAIN table -> "NoSuchObject"
    [] ~CapLive(table, cap) -> "Revoked"
    [] ~(want \subseteq cap.rights) -> "Denied"
    [] OTHER -> "Ok"

\* CapTable::revoke(): wrapping_add on the object's generation.
CapRevoke(table, o) == [table EXCEPT ![o] = (@ + 1) % GEN_MOD]

=============================================================================
