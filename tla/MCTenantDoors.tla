--------------------------- MODULE MCTenantDoors ---------------------------
(* Two tenants and an admin, who use the same job names: at the job doors,  *)
(* with repeatable jobs and their history, while the operator edits the     *)
(* sqlite store, and on servers with a key file and an environment key.     *)
EXTENDS TenantDoors

CONSTANTS k1, k2, adm

R(door, arg) == [door |-> door, arg |-> arg]

P(first, second, third) ==
  [c \in {k1, k2, adm} |-> IF c = k1 THEN first ELSE IF c = k2 THEN second ELSE third]

Sqlite(commands, sent) ==
  [auth |-> "sqlite", users |-> {k1, k2, adm}, admins |-> {adm}, grants |-> {k1, k2, adm}, edits |-> commands,
   mishaps |-> 0, old |-> {}, file |-> "none", envKey |-> None, post |-> sent]

File(state, key, sent) ==
  [auth |-> "file", users |-> {k1, k2}, admins |-> {}, grants |-> {k1}, edits |-> 0,
   mishaps |-> 0, old |-> {}, file |-> state, envKey |-> key, post |-> sent]

\* a server on which mishaps happen, one whose operator granted the device to a
\* key before adding it, and one that still has a scheduler of an earlier release
Mishaps(s, n) == [s EXCEPT !.mishaps = n]
GrantedFirst(s, k) == [s EXCEPT !.users = @ \ {k}]
Upgraded(s) == [s EXCEPT !.old = {[id |-> <<None, "n">>, owner |-> k1, name |-> "n"]}]

MCScenarios ==
  {Mishaps(Sqlite(0, P(<<R("add", "n"), R("cancel", 1)>>, <<R("get", 1), R("tasks", "n")>>, <<R("remove", 1)>>)), 1),
   Mishaps(Sqlite(0, P(<<R("add", "n"), R("history", "n")>>, <<R("add", "n")>>, <<>>)), 2),
   Sqlite(0, P(<<R("repeat", "n"), R("history", "n")>>, <<R("repeat", "n"), R("unrepeat", "n")>>, <<>>)),
   Sqlite(2, P(<<R("load", "n"), R("balance", "n")>>, <<R("add", "n"), R("devices", "n")>>, <<>>)),
   GrantedFirst(Sqlite(1, P(<<>>, <<R("add", "n"), R("devices", "n")>>, <<>>)), k2),
   File("good", adm, P(<<R("task", "n"), R("cancel", 1)>>, <<R("taskget", 1)>>, <<R("result", 1), R("history", "n")>>)),
   Upgraded(File("broken", adm, P(<<R("add", "n")>>, <<R("balance", "n")>>, <<R("unrepeat", "n")>>))),
   File("good", None, P(<<R("task", "n"), R("tasks", "n")>>, <<R("tasks", "n")>>, <<>>))}
=============================================================================
