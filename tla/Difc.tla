-------------------------------- MODULE Difc --------------------------------
(***************************************************************************)
(* Information flow labels: dezh-core/src/difc.rs.  A secrecy label and an  *)
(* integrity label are sets of tags.                                        *)
(***************************************************************************)
CONSTANTS
  SecrecyTag,   \* the secrecy tags in use
  Endorsement   \* the endorsements a sink can demand

PUBLIC == {}
TRUSTED == Endorsement
UNTRUSTED == {}

\* can_flow(): a sink may take what it can hold.
CanFlow(src, sink) == src \subseteq sink

\* integrity_ok(): a sink may take what carries all it demands.
IntegrityOk(data, demands) == demands \subseteq data

\* Taint::new().
NewTaint == [secrecy |-> PUBLIC, integrity |-> TRUSTED]

\* Taint::observe() and observe_input(): secrecy rises, integrity falls.
Observe(t, l) == [t EXCEPT !.secrecy = @ \cup l]
ObserveInput(t, i) == [t EXCEPT !.integrity = @ \cap i]

\* Taint::endorse().
Endorsed(t) == [t EXCEPT !.integrity = TRUSTED]

\* Taint::may_flow_to() and may_endorse_to().
MayFlowTo(t, sink) == CanFlow(t.secrecy, sink)
MayEndorseTo(t, demands) == IntegrityOk(t.integrity, demands)

=============================================================================
