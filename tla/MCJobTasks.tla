---- MODULE MCJobTasks ----
EXTENDS JobTasks
====
