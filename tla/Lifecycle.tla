----------------------------- MODULE Lifecycle -----------------------------
(***************************************************************************)
(* The lifecycle of a device, crates/domain/src/inventory.rs.              *)
(***************************************************************************)

DeviceLifecycle == {"discovered", "pending_review", "managed", "unmanaged",
                    "maintenance", "retired", "archived"}

\* Retired and archived devices are out of service: discovery leaves them alone.
OutOfService == {"retired", "archived"}

AllowsNormalMutation(life) == life \in {"managed", "maintenance"}

\* The states a device may go to from another one; can_transition_to also allows it to
\* stay where it is, which transition_lifecycle answers without doing anything.
Successors(life) ==
  CASE life = "discovered"     -> {"pending_review", "unmanaged", "archived"}
    [] life = "pending_review" -> {"managed", "unmanaged", "archived"}
    [] life = "managed"        -> {"maintenance", "unmanaged", "retired"}
    [] life = "unmanaged"      -> {"pending_review", "managed", "retired", "archived"}
    [] life = "maintenance"    -> {"managed", "retired"}
    [] life = "retired"        -> {"pending_review", "archived"}
    [] OTHER                   -> {}
=============================================================================
