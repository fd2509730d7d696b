---------------------------- MODULE MCToolCall ------------------------------
(* ToolCall with the catalogue of the repository.                          *)
EXTENDS ToolCall, ToolCatalog

(* The catalogue keeps to what the proofs ask of one.                      *)
ASSUME CatalogueAssumption == NoClash /\ WritesAlone /\ HintsTrue /\ CreatesEnd

(* getTodoById.tool.ts:174-175: "Returns `todo: null` if the ID is unknown *)
(* or the todo has been soft-deleted".  A todo fetch that fails is passed  *)
(* over as well: the tool answers todo null without an error or a warning. *)
NullTodoIsUnknown ==
  name = "get_todo_by_id" /\ Replied("success") =>
    res[TodoById] \in {"full", "empty"}
=============================================================================
