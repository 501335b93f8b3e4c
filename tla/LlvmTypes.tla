------------------------------ MODULE LlvmTypes ------------------------------
(***************************************************************************)
(* The LLVM type of a type of the language (pol_basictypes.cpp).           *)
(***************************************************************************)
EXTENDS TypeTrees, Ir

RECURSIVE LlvmTree(_)

\* A function is passed as a pointer to it.
LlvmTree(type) ==
  CASE type = Real        -> Double
    [] type = Integer     -> Int64
    [] type = Boolean     -> Bool
    [] type.name = "list" -> Pointer(LlvmTree(type.args[1]))
    [] type.name = "fun"  ->
         Pointer(FunctionType(LlvmTree(type.args[1]),
                   [i \in 1 .. Len(type.args) - 1 |-> LlvmTree(type.args[i + 1])]))
=============================================================================
