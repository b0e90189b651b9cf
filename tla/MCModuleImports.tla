--------------------------- MODULE MCModuleImports ---------------------------
(* The model values of ModuleImports' runs.                                *)
EXTENDS ModuleImports

CONSTANTS f, g

TwoFiles == {f, g}
UpToTwo == SeqOf(Files, 2)
EveryFault == {{}, {"runtime"}, {"missing"}, {"runtime", "missing"}}
=============================================================================
