-------------------------- MODULE MCModuleManager --------------------------
(* Small instances of ModuleManager for TLC: two applications share a      *)
(* module, a third has one of its own.                                     *)
EXTENDS ModuleManager, TLC

CONSTANTS a1, a2, a3, f1, f2

MCModuleOf == a1 :> f1 @@ a2 :> f1 @@ a3 :> f2

MCSettings == <<a1, a2, a3>>
=============================================================================
