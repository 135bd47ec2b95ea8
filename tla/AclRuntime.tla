----------------------------- MODULE AclRuntime -----------------------------
(***************************************************************************)
(* What AtlasRuntime promises the network instances that use the device     *)
(* (spec.md 5, device global initialization): ACL is initialised once and   *)
(* shared; an instance uses the device only while ACL is up; the runtime is *)
(* finalized only when no instance uses the device any more.                *)
(*                                                                         *)
(* users are the instances that currently use the device; up is whether   *)
(* ACL is initialised.                                                     *)
(***************************************************************************)
CONSTANT Users

VARIABLES up, users

arVars == <<up, users>>

Init == up = FALSE /\ users = {}

\* The first Init brings ACL up.
Start ==
    /\ ~up
    /\ up' = TRUE
    /\ UNCHANGED users

\* An instance starts using the device; ACL must be up.
Join(u) ==
    /\ up
    /\ u \notin users
    /\ users' = users \cup {u}
    /\ UNCHANGED up

\* An instance stops using the device; ACL may go down with it only when it
\* was the last user.
Leave(u) ==
    /\ u \in users
    /\ users' = users \ {u}
    /\ up' \in BOOLEAN
    /\ users' # {} => up' = up

\* ACL goes down while nobody uses the device.
Stop ==
    /\ up
    /\ users = {}
    /\ up' = FALSE
    /\ UNCHANGED users

Next == Start \/ Stop \/ \E u \in Users : Join(u) \/ Leave(u)

Spec == Init /\ [][Next]_arVars

=============================================================================
