---------------------------- MODULE ToolRegistry ----------------------------
(***************************************************************************)
(* The tool registry and the start-up that fills it: importing the tool    *)
(* modules registers each definition, and a definition that takes a name   *)
(* in use throws, which ends the process before it listens.                *)
(*                                                                         *)
(* The map "tools" of the code is a function from names to positions of    *)
(* the import order, "aliasOf" one from aliases to names.                  *)
(***************************************************************************)
EXTENDS ToolKinds

CONSTANT ImportOrder  \* the definitions, in the order they are registered

ASSUME ImportOrderAssumption == ImportOrder \in Seq(ToolType)

VARIABLES
  tools,    \* name |-> position in ImportOrder
  aliasOf,  \* alias |-> name
  booted    \* number of definitions registered, or Len + 1 once one threw

registryVars == <<tools, aliasOf, booted>>

Positions == 1..Len(ImportOrder)
NoTool == 0
Dead == Len(ImportOrder) + 1

NamesOf(t) == {t.name} \cup t.aliases
Has(n) == n \in DOMAIN tools \cup DOMAIN aliasOf

(* A wrong variant, no part of Spec: aliases are not looked up.            *)
MutGet(n) == IF n \in DOMAIN tools THEN tools[n] ELSE NoTool

Get(n) ==
  IF n \in DOMAIN tools THEN tools[n]
  ELSE IF n \in DOMAIN aliasOf THEN tools[aliasOf[n]] ELSE NoTool

RegistryInit == tools = <<>> /\ aliasOf = <<>> /\ booted = 0

(* register checks every name before the first insertion.  The error it    *)
(* throws leaves an import: the process ends.                              *)
Register(i) ==
  LET t == ImportOrder[i]
      Clash == \E n \in NamesOf(t) : Has(n)
  IN /\ booted = i - 1
     /\ booted' = IF Clash THEN Dead ELSE i
     /\ tools' = IF Clash THEN tools
                 ELSE [n \in {t.name} \cup DOMAIN tools |-> IF n = t.name THEN i ELSE tools[n]]
     /\ aliasOf' = IF Clash THEN aliasOf
                   ELSE [a \in t.aliases \cup DOMAIN aliasOf |->
                           IF a \in t.aliases THEN t.name ELSE aliasOf[a]]

Boot == \E i \in Positions : Register(i)

Serving == booted = Len(ImportOrder)

-----------------------------------------------------------------------------
(* No two definitions have a name or alias in common.                      *)
NoClash ==
  \A i, j \in Positions :
    i # j => NamesOf(ImportOrder[i]) \cap NamesOf(ImportOrder[j]) = {}

(* What is registered under a name or alias is found under it, whatever    *)
(* the catalogue: no later registration takes a name over.                 *)
NamesResolve ==
  booted # Dead =>
    \A i \in 1..booted : \A n \in NamesOf(ImportOrder[i]) : Get(n) = i

=============================================================================
