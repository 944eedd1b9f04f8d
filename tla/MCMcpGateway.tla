---------------------------- MODULE MCMcpGateway ----------------------------
(* Two modules whose tools get the same slug, one of them with a second build; *)
(* two admins and a user of one module.                                        *)
EXTENDS McpGateway

CONSTANTS m1, m2, adm, adm2, usr

A(act, slug, text, out) == [act |-> act, slug |-> slug, text |-> text, out |-> out]

X  == <<"x">>
X2 == <<"x", 2>>

MCVersions ==
  [m \in {m1, m2} |->
     IF m = m1 THEN {<<A("a", X, "text", TRUE)>>, <<A("b", X2, "text", FALSE), A("f", X, "text", FALSE), A("c", X, "blank", FALSE)>>}
     ELSE {<<A("d", X, "text", FALSE), A("e", <<"balance">>, "text", FALSE)>>}]

MCReserved == {<<"balance">>, <<"load">>}
P(acts, calls) == [acts |-> acts, calls |-> calls]
MCPlans ==
  {P(<<A("p", X, "text", FALSE)>>, {}),
   P(<<A("p", X2, "text", FALSE), A("q", <<"y">>, "text", FALSE)>>, {<<m1, "c">>}),
   P(<<A("p", <<"y">>, "blank", FALSE), A("q", <<"z">>, "text", FALSE)>>, {}),
   P(<<A("p", <<"balance">>, "text", FALSE)>>, {})}

MCBalance == <<"balance">>
M(method, arg) == [method |-> method, arg |-> arg]

On(authoring, sandbox, mods) == [authoring |-> authoring, sandbox |-> sandbox, mods |-> mods]
S(o, first, second, third) ==
  [opts |-> o,
   post |-> [c \in {adm, adm2, usr} |-> IF c = adm THEN first ELSE IF c = adm2 THEN second ELSE third]]

MCScenarios ==
  {S(On(TRUE, TRUE, {m1, m2}), <<M("calltool", X)>>, <<>>, <<M("list", None), M("call", X)>>),
   S(On(TRUE, TRUE, {m1}), <<M("load", m1), M("calltool", X)>>, <<M("load", m1)>>, <<>>),
   S(On(TRUE, TRUE, {}), <<M("validate", None), M("plan", P(<<A("p", X, "text", FALSE)>>, {}))>>,
     <<M("validate", None), M("load", m1)>>, <<M("load", m1), M("validate", None)>>),
   S(On(TRUE, FALSE, {m2}), <<M("validate", None), M("calltool", MCBalance)>>, <<M("list", None)>>,
     <<M("notification", None), M("balance", None), M("task", X)>>),
   S(On(FALSE, TRUE, {m2}), <<M("load", m1), M("list", None)>>, <<M("unknown", None)>>, <<M("initialize", None), M("ping", None), M("tasks", None)>>)}

MCRole == [c \in {adm, adm2, usr} |-> IF c = usr THEN "user" ELSE "admin"]
MCOwns == [c \in {adm, adm2, usr} |-> IF c = usr THEN {m2} ELSE {m1, m2}]
=============================================================================
