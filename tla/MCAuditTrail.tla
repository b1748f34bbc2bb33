---------------------------- MODULE MCAuditTrail ----------------------------
(* Four threads append, three of them in one process; three threads in two *)
(* processes sign; two checks overlap. The roles are provisioned by old    *)
(* code while new code is deployed: an API that still connects as the      *)
(* administrator, the migrate command, two APIs (one that may not migrate) *)
(* and a worker as the application.                                        *)
EXTENDS AuditTrail, TLC

CONSTANTS p1, p2, t1, t2, t3, t4, c1, c2, setup, admin, upgrader, web, reader, worker

ThreeAndOne == (t1 :> p1) @@ (t2 :> p1) @@ (t3 :> p1) @@ (t4 :> p2)
TwoAndOne   == (t1 :> p1) @@ (t2 :> p1) @@ (t3 :> p2)

Heads  == (setup :> 1) @@ (admin :> 2) @@ (upgrader :> 2) @@ (web :> 2) @@ (reader :> 2) @@ (worker :> 2)
Logins == (setup :> "admin") @@ (admin :> "admin") @@ (upgrader :> "migrator") @@ (web :> "app") @@ (reader :> "app")
              @@ (worker :> "app")
Roles  == (setup :> "provision") @@ (admin :> "api") @@ (upgrader :> "migrate") @@ (web :> "api") @@ (reader :> "reader")
              @@ (worker :> "worker")
=============================================================================
