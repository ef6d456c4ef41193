---------------------------- MODULE MCFileContext ----------------------------
(* A device with both ABIs and one module that has a library for each: the two *)
(* pool threads check a library of their own and then its parents, of which    *)
(* they share the module's directory.  init checks the library of Riru.        *)
EXTENDS FileContext

MCThreads == {"init", "modules", "modules64"}
MCFiles == {"libriru", "lib", "lib64", "moduleDir"}
MCPlan == [t \in MCThreads |->
  CASE t = "init" -> <<<<"libriru">>>>
    [] t = "modules" -> <<<<"lib">>, <<"moduleDir">>>>
    [] t = "modules64" -> <<<<"lib64">>, <<"moduleDir">>>>]
=============================================================================
