----------------------------- MODULE MCDatabases ------------------------------
(***************************************************************************)
(* Databases for TLC: specs with both policies, both ways to name the      *)
(* server, a setting of each kind, and a collation that the database may   *)
(* not have.                                                               *)
(***************************************************************************)
EXTENDS Databases

MCDatabaseSpecs ==
    {[settings |-> [s \in {"owner", "recoveryModel"} |-> 1], collation |-> 0,
      byRef |-> FALSE, policy |-> "Delete"],
     [settings |-> [s \in {"compatibilityLevel", "option"} |-> 1], collation |-> 2,
      byRef |-> TRUE, policy |-> "Retain"]}

MCSchemaSpecs ==
    {[owner |-> 2, policy |-> "Delete"], [owner |-> 0, policy |-> "Retain"]}

==============================================================================
