------------------------------ MODULE BinPlugin ------------------------------
(***************************************************************************)
(* What a Rizin binary-format plugin promises its host, whatever the       *)
(* format: load_buffer either makes one object available or leaves nothing *)
(* behind, the object does not change while the file is open, and destroy  *)
(* gives back everything the load allocated.  BpunLoader and Aout16Loader  *)
(* are shown to implement this specification.                              *)
(***************************************************************************)
EXTENDS Naturals

CONSTANT NoObject  \* bin_obj when no file is loaded (NULL)

VARIABLES
  phase,   \* what the host is doing with the plugin
  object,  \* bf->o->bin_obj
  live     \* number of heap blocks the plugin owns

vars == <<phase, object, live>>

Phases == {"closed", "loading", "failed", "open"}

Init == phase = "closed" /\ object = NoObject /\ live = 0

\* The host hands the plugin a file.
Begin ==
  /\ phase = "closed"
  /\ phase' = "loading"
  /\ live' \in Nat
  /\ UNCHANGED object

\* load_buffer reads, allocates and frees; the host sees no object yet.
Work ==
  /\ phase = "loading" /\ phase' = "loading"
  /\ live' \in Nat
  /\ UNCHANGED object

Succeed ==
  /\ phase = "loading" /\ phase' = "open"
  /\ object' # NoObject
  /\ live' \in Nat

\* A failing load keeps no heap block; it may fail at once.
Fail ==
  /\ phase \in {"closed", "loading"} /\ phase' = "failed"
  /\ live' = 0
  /\ UNCHANGED object

\* The host closes the file: destroy, after a load of either outcome.
Close ==
  /\ phase \in {"failed", "open"} /\ phase' = "closed"
  /\ object' = NoObject
  /\ live' = 0

Next == Begin \/ Work \/ Succeed \/ Fail \/ Close

Spec == Init /\ [][Next]_vars
==============================================================================
