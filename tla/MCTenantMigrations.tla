-------------------------- MODULE MCTenantMigrations --------------------------
(* Instances of TenantMigrations for TLC. *)
EXTENDS TenantMigrations
=============================================================================
