---------------------------- MODULE MCComponents ----------------------------
(***************************************************************************)
(* The components that share no state with one another, side by side in    *)
(* one instance: the initial state chooses one of them, and only that one  *)
(* takes steps, while the others stay in an initial state of theirs.       *)
(***************************************************************************)
EXTENDS Operator, Intents, CapTable, Marz, Ir, Bundles

VARIABLE part

Part == {"operator", "intents", "captable", "marz", "ir", "bundles"}

MCRequests == [p \in Package |-> IF p = "lab" THEN {"print", "cairn-read", "cairn-write"}
                                 ELSE Mcap]
MCCalls == {<<"cairn-write", "print">>, <<"cairn-read", "cairn-write">>}

\* Programs of up to three bytes, alone and after two pushes.
MCWords == {0, WORD - 1}
MCPrograms ==
  {p \o q : p \in {<<>>} \cup {<<PUSH, v, PUSH, w>> : v, w \in MCWords},
            q \in UNION {[1..n -> Byte] : n \in 0..3}}

PartInit ==
  /\ part \in Part
  /\ IF part = "ir" THEN IrInit ELSE code = <<>> /\ caps = {"print", "read"} /\ IrInit
  /\ OperatorInit /\ IntentInit /\ CapInit /\ MarzInit /\ BundleInit

PartNext ==
  \/ /\ part = "operator" /\ OperatorNext
     /\ UNCHANGED <<intentVars, capVars, marzVars, irVars, bundleVars, part>>
  \/ /\ part = "intents" /\ IntentNext
     /\ UNCHANGED <<operatorVars, capVars, marzVars, irVars, bundleVars, part>>
  \/ /\ part = "captable" /\ CapNext
     /\ UNCHANGED <<operatorVars, intentVars, marzVars, irVars, bundleVars, part>>
  \/ /\ part = "marz" /\ MarzNext
     /\ UNCHANGED <<operatorVars, intentVars, capVars, irVars, bundleVars, part>>
  \/ /\ part = "ir" /\ IrNext
     /\ UNCHANGED <<operatorVars, intentVars, capVars, marzVars, bundleVars, part>>
  \/ /\ part = "bundles" /\ BundleNext
     /\ UNCHANGED <<operatorVars, intentVars, capVars, marzVars, irVars, part>>
=============================================================================
