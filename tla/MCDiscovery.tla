---------------------------- MODULE MCDiscovery ----------------------------
(* ma, which composes mb's device, and mb are on the startup list; mc, where
   it is among the modules, claims mb's device and is loaded at run time. *)
EXTENDS Discovery, TLC

CONSTANTS ma, mb, mc, da, db

MCDeviceOf == [m \in Modules |-> IF m = ma THEN da ELSE db]
MCCalls    == [m \in Modules |-> IF m = ma THEN {db} ELSE {}]
MCStartup  == <<ma, mb>>

\* Bound: mc is loaded only where no worker ends.
EndsOrClaims == mc \notin Modules \/ worker[mc].gen = 0 \/ ends = 0
=============================================================================
