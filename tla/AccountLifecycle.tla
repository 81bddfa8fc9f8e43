--------------------------- MODULE AccountLifecycle ---------------------------
(***************************************************************************)
(* What the operator promises about a User, without caches, queues, calls  *)
(* that fail or a worker: the life of the User resource and of its SQL     *)
(* users ("roles") on the servers it always asks for.  UserController      *)
(* implements it (LifecycleRefinement).                                    *)
(***************************************************************************)
CONSTANTS
  Users,
  Core     \* [Users -> a set of servers], where each User is to have a role

VARIABLES
  stored,  \* whether the resource is "absent", "alive" or "deleting"
  held,    \* whether it carries the finalizer
  ready,   \* status.summary.ready
  roles    \* the servers of Core[u] that have a role for u

vars == <<stored, held, ready, roles>>

Init ==
  /\ stored = [u \in Users |-> "absent"]
  /\ held = [u \in Users |-> FALSE]
  /\ ready = [u \in Users |-> FALSE]
  /\ roles = [u \in Users |-> {}]

(* The User becomes, or is again, one that nothing is known of. *)
Forgotten(u) ==
  /\ stored' = [stored EXCEPT ![u] = "absent"]
  /\ held' = [held EXCEPT ![u] = FALSE]
  /\ ready' = [ready EXCEPT ![u] = FALSE]

Create(u) ==
  /\ stored[u] = "absent"
  /\ roles[u] = {}
  /\ stored' = [stored EXCEPT ![u] = "alive"]
  /\ UNCHANGED <<held, ready, roles>>

(* Without a finalizer there is nothing to clean up. *)
RequestDeletion(u) ==
  /\ stored[u] = "alive"
  /\ \/ /\ held[u]
        /\ stored' = [stored EXCEPT ![u] = "deleting"]
        /\ UNCHANGED <<held, ready>>
     \/ /\ ~held[u]
        /\ roles[u] = {}
        /\ Forgotten(u)
  /\ UNCHANGED roles

Hold(u) ==
  /\ stored[u] = "alive"
  /\ held' = [held EXCEPT ![u] = TRUE]
  /\ UNCHANGED <<stored, ready, roles>>

(* A role is made only for a User whose deletion will be noticed, and      *)
(* dropped only in the course of that deletion.                            *)
AddRole(u, s) ==
  /\ held[u]
  /\ roles' = [roles EXCEPT ![u] = @ \cup {s}]
  /\ UNCHANGED <<stored, held, ready>>

DropRole(u, s) ==
  /\ stored[u] = "deleting"
  /\ roles' = [roles EXCEPT ![u] = @ \ {s}]
  /\ UNCHANGED <<stored, held, ready>>

(* A living User is reported ready only when it has all its roles. *)
Report(u, r) ==
  /\ stored[u] = "alive"
  /\ r => held[u] /\ roles[u] = Core[u]
  /\ ready' = [ready EXCEPT ![u] = r]
  /\ UNCHANGED <<stored, held, roles>>

(* The deletion ends when no role is left. *)
Release(u) ==
  /\ stored[u] = "deleting"
  /\ roles[u] = {}
  /\ Forgotten(u)
  /\ UNCHANGED roles

Next ==
  \E u \in Users :
    \/ Create(u) \/ RequestDeletion(u) \/ Hold(u) \/ Release(u)
    \/ \E s \in Core[u] : AddRole(u, s) \/ DropRole(u, s)
    \/ \E r \in BOOLEAN : Report(u, r)

Spec == Init /\ [][Next]_vars
===============================================================================
