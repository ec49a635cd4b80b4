--------------------------- MODULE MCSkillLibrary ---------------------------
(* One skill file, whose texts nest an approval, repeat a step id, or do not *)
(* parse; two processes of one title.                                        *)
EXTENDS SkillLibrary, TLC

S(id, type, guards) == [id |-> id, type |-> type, guards |-> guards]

MCTexts == {"nested", "twice", "broken"}
MCSays ==
  "nested" :> [name |-> "file", valid |-> TRUE, steps |->
     <<S("f", "fetch_entity", 0), S("i", "if_then", 2), S("w", "write_entity", 0),
       S("a", "require_approval", 0), S("l", "log_decision", 0)>>] @@
  "twice" :> [name |-> "file", valid |-> TRUE, steps |->
     <<S("w", "write_entity", 0), S("w", "write_entity", 0)>>] @@
  "broken" :> [name |-> "file", valid |-> FALSE, steps |-> <<>>]
MCSlug == "p" :> "slug" @@ "q" :> "slug"
=============================================================================
