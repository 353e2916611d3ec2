-------------------------- MODULE ProductLifecycle --------------------------
(***************************************************************************)
(* The lifecycle with the plan of the product                              *)
(* (src-tauri/src/product_composition.rs, lifecycle_plan).                 *)
(***************************************************************************)
EXTENDS Lifecycle

Required(capability) == [capability |-> capability, required |-> TRUE]
Optional(capability) == [capability |-> capability, required |-> FALSE]

ProductPlan ==
  << Required("wake-coordination"),
     Required("manual-session"),
     Required("automatic-download"),
     Optional("launch-at-login"),
     Optional("power-source"),
     Optional("network-activity"),
     Optional("updater") >>

=============================================================================
