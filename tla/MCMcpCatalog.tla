---------------------------- MODULE MCMcpCatalog ----------------------------
(***************************************************************************)
(* Two servers whose listings share names, some with a repeated name or a  *)
(* blank one; renamings that keep, swap, prefix, merge and blank.          *)
(***************************************************************************)
EXTENDS McpCatalog, TLC

MCOrder == <<"files", "mail">>

MCListings ==
  [files |-> {<<"get", "put">>, <<"put", "get", "list">>, <<"get", "get">>, <<" ">>},
   mail |-> {<<"get", "put">>, <<"put", "put">>}]

MCCached == {"mail"}

MCNames == {"get", "put", "list", " "}

MCRenamings ==
  {[n \in MCNames |-> n],
   [n \in MCNames |-> CASE n = "get" -> "put" [] n = "put" -> "get" [] OTHER -> n],
   [n \in MCNames |-> CASE n = "get" -> "mail_get" [] n = "put" -> "mail_put" [] OTHER -> "list"],
   [n \in MCNames |-> "get"],
   [n \in MCNames |-> IF n = "put" THEN "" ELSE n]}

Result(structured, blocks, error) ==
  [structured |-> structured, blocks |-> blocks, error |-> error]

MCResults ==
  {Result(TRUE, <<"image">>, FALSE), Result(FALSE, <<>>, FALSE),
   Result(FALSE, <<"text", "resource link">>, FALSE),
   Result(FALSE, <<"text resource">>, TRUE), Result(FALSE, <<"text", "audio">>, TRUE),
   Result(FALSE, <<"blob resource">>, FALSE)}

=============================================================================
