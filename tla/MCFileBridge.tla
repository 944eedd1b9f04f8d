---------------------------- MODULE MCFileBridge ----------------------------
EXTENDS FileBridge

CONSTANTS a, b

MCBy == (1 :> a) @@ (2 :> a) @@ (3 :> a) @@ (4 :> b)
MCMay == (1 :> {<<"open", TRUE>>, <<"create", FALSE>>})
      @@ (2 :> {<<"rename", TRUE>>, <<"stat", FALSE>>, <<"read", FALSE>>})
      @@ (3 :> {<<"close", FALSE>>})
      @@ (4 :> {<<"stat", FALSE>>})
=============================================================================
