-------------------------- MODULE LifecycleRefinement --------------------------
(***************************************************************************)
(* UserController implements AccountLifecycle: what the API server stores  *)
(* and what the SQL servers hold, seen without the caches, the queue and   *)
(* the worker in between.                                                  *)
(***************************************************************************)
EXTENDS UserController

Stored(obj) ==
  CASE ~obj.exists                     -> "absent"
    [] obj.exists /\ ~obj.deleting     -> "alive"
    [] OTHER                           -> "deleting"

CoreRoles(u) == {s \in CoreServers(u) : u \in accounts[s]}

(* The refinement mapping. *)
coreBar   == [u \in Users |-> CoreServers(u)]
storedBar == [u \in Users |-> Stored(api[u])]
heldBar   == [u \in Users |-> api[u].finalizer]
readyBar  == [u \in Users |-> api[u].status.ready]
rolesBar  == [u \in Users |-> CoreRoles(u)]

Lifecycle == INSTANCE AccountLifecycle WITH
  Core <- coreBar, stored <- storedBar, held <- heldBar, ready <- readyBar,
  roles <- rolesBar

(* Every step of the operator and of everything around it is a step of the *)
(* life of one User, or invisible: roles come after the finalizer, go only *)
(* in a deletion, ready is reported with every role there, and the User    *)
(* disappears with none left.                                              *)
ImplementsLifecycle == Lifecycle!Spec
================================================================================
