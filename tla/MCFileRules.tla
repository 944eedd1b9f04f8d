---------------------------- MODULE MCFileRules -----------------------------
(* The path check and the quota are two rules of one broker and share no     *)
(* state.  The instance explores each of them in full while the other rests: *)
(* the paths beside an empty disk, the quota beside a directory that is      *)
(* there.                                                                    *)
EXTENDS MCFilePaths, MCFileQuota

VARIABLE rule    \* the one that is explored

RulesInit ==
  /\ Init /\ QuotaInit
  /\ \/ rule = "paths" /\ \A n \in Names : dir[n] = Missing
     \/ rule = "quota" /\ real = Home

RulesNext ==
  \/ rule = "paths" /\ Next /\ UNCHANGED <<rule, quotaVars>>
  \/ rule = "quota" /\ QuotaNext /\ UNCHANGED <<rule, vars>>

RulesSpec == RulesInit /\ [][RulesNext]_<<rule, vars, quotaVars>>
Sym == SlotSym \cup QuotaSym
=============================================================================
