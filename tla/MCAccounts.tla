------------------------------ MODULE MCAccounts ------------------------------
(***************************************************************************)
(* Two residents, three addresses and three requests, so that two      *)
(* profiles can swap addresses while a registration wants one of them.     *)
(***************************************************************************)
EXTENDS Accounts, TLC

CONSTANTS u1, u2, e1, e2, e3, r1, r2, r3

\* Every handler, and each two that race for an address or a row.
Races == r1 :> {"register", "patch"} @@ r2 :> {"patch", "admin"} @@
         r3 :> {"register", "login", "logout"}

Known == u1 :> e1 @@ u2 :> e2
==============================================================================
