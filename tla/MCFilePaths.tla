---------------------------- MODULE MCFilePaths -----------------------------
EXTENDS FilePaths, TLC

CONSTANTS s, t
SlotSym == Permutations(Slots)

A == <<"srv", "a">>
RO == <<"srv", "ro">>
ETC == <<"etc">>
MCPlaces == {A, RO, ETC}
MCBase == {[real |-> <<"srv">>, writable |-> TRUE], [real |-> RO, writable |-> FALSE]}
MCDeclared == {[real |-> ETC, writable |-> TRUE]}
MCProtected == {<<"srv">>, <<"etc", "countinghouse">>}
=============================================================================
