----------------------------- MODULE MCPrincipals -----------------------------
(***************************************************************************)
(* Principals for TLC, with three of the specs a Login may have: both      *)
(* policies, with and without a role and a default database.               *)
(***************************************************************************)
EXTENDS Principals

MCLoginSpecs ==
    {[roles |-> {}, db |-> "none", policy |-> "Retain"],
     [roles |-> {}, db |-> "app", policy |-> "Delete"],
     [roles |-> Role, db |-> "none", policy |-> "Delete"]}

==============================================================================
