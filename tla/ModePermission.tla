--------------------------- MODULE ModePermission ---------------------------
(***************************************************************************)
(* What a permission mode means: the tools the model is told of            *)
(* (perm_tool_mode.py) and what is done with a call it makes all the same  *)
(* (mode_permission_policy.py).                                            *)
(***************************************************************************)

ReadTools == {"list_dir", "glob_file", "grep", "read_file", "read_symbol", "read_context_page",
              "kb_search", "kb_fetch"}
FileTools == {"write_file", "apply_patch"}
ShellTools == {"run_shell", "run_shell_session"}
AllTools == ReadTools \cup FileTools \cup ShellTools \cup {"kb_write_fact", "kb_promote", "shell_reset"}

(* tool_names_for_perm_mode *)
Exposed(mode) ==
    IF mode = "edit" THEN AllTools
    ELSE ReadTools \cup {"kb_write_fact"}
         \cup (IF mode = "read_plan" THEN FileTools ELSE {})
         \cup (IF mode = "explore" THEN ShellTools ELSE {})

(* read_plan_write_file_allowed: a text, or under docs or plan no program.  *)
PermPaths == {"text", "program"}

(* ModePermissionPolicy.evaluate; with edit the engine that is configured   *)
(* decides, which by default allows.                                        *)
Evaluate(mode, tool, path) ==
    IF mode = "edit" \/ tool \in ReadTools \cup {"kb_write_fact"} THEN "allow"
    ELSE IF tool \in ShellTools THEN (IF mode = "explore" THEN "allow" ELSE "deny")
    ELSE IF tool \in FileTools /\ mode = "read_plan" THEN (IF path = "text" THEN "allow" ELSE "ask")
    ELSE IF tool = "kb_promote" THEN "ask" ELSE "deny"

=============================================================================
