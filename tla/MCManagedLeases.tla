-------------------------- MODULE MCManagedLeases --------------------------
(* Instances of ManagedLeases for TLC: small scenarios, checked as one. *)
EXTENDS ManagedLeases, TLC

CONSTANTS l1, l2, r1, r2, s1

MCLeases == {l1, l2}
MCRequests == {r1, r2}
MCSweepers == {s1}
MCSymmetry == Permutations(MCLeases) \cup Permutations(MCRequests)

\* One lease request meets two changes, for a member with role and grant
Meet(changes, providers, modes, role0, grant0, writes) ==
    [changes |-> changes, leases |-> 1, requests |-> 2, attempts |-> 1, providers |-> providers,
     modes |-> modes, role |-> role0, grant |-> grant0, writes |-> writes, fresh |-> TRUE]

\* Two lease requests of an administrator meet one change
Share(changes, prov, mode, fresh) ==
    [changes |-> changes, leases |-> 2, requests |-> 1, attempts |-> 1, providers |-> {prov},
     modes |-> {mode}, role |-> "admin", grant |-> "manage", writes |-> TRUE, fresh |-> fresh]

MCScenarios ==
    {Meet({"role", "remove"}, {"neon"}, {"read"}, "editor", "use", TRUE),
     Meet({"lower", "remove"}, {"vault", "neon"}, {"write"}, "editor", "use", TRUE),
     Meet({"role", "ungrant", "raise"}, {"gcpCloudSql"}, {"write"}, "editor", "use", TRUE),
     Meet({"readonly", "writable", "rename"}, {"planetScale"}, {"read", "write"}, "editor", "use", TRUE),
     Meet({"delete", "ungrant"}, {"neon", "gcpCloudSql"}, {"read"}, "viewer", "read", FALSE),
     Meet({"teamOff", "managedOff"}, {"vault"}, {"read"}, "viewer", "read", FALSE),
     Meet({"managedOff", "delete"}, {"neon"}, {"read"}, "viewer", "read", FALSE),
     Meet({"disconnect", "delete"}, {"neon", "vault"}, {"read"}, "viewer", "read", FALSE),
     Meet({"disconnect", "reconnect"}, {"planetScale", "gcpCloudSql"}, {"read"}, "viewer", "read", FALSE),
     Meet({"readonly", "role"}, {"gcpCloudSql"}, {"schema"}, "admin", "manage", TRUE),
     Share({"disconnect"}, "planetScale", "read", FALSE),
     [Meet({"lower"}, {"neon", "gcpCloudSql"}, {"read"}, "viewer", "use", TRUE) EXCEPT !.attempts = 2],
     Share({"readonly"}, "neon", "schema", TRUE)}
=============================================================================
