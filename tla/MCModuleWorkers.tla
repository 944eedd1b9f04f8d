---- MODULE MCModuleWorkers ----
EXTENDS ModuleWorkers
====
