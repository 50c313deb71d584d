---------------------------- MODULE ToolRegistry ----------------------------
(***************************************************************************)
(* tool::Tool and tool::ToolRegistry: a tool is a builder's product that   *)
(* may lack a schema or a handler, and a registry holds complete tools by  *)
(* name.  A registry is the set of its names, or Rejected when a           *)
(* registration failed.                                                    *)
(***************************************************************************)
EXTENDS SequencesExt

\* Tool: its name, and whether it has an input schema and a handler.
Tool(name, schema, handler) == [name |-> name, schema |-> schema, handler |-> handler]
Tools == [name : STRING, schema : BOOLEAN, handler : BOOLEAN]

\* `name.trim().is_empty()`
Blank(name) == name \in {"", " "}

\* Tool::into_registered
Registrable(tool) == ~ Blank(tool.name) /\ tool.schema /\ tool.handler

NewRegistry == [names |-> {}, rejected |-> FALSE]

\* ToolRegistry::register: the first tool that cannot be registered fails the
\* whole request; those before it stay in the registry, which is dropped.
Register(registry, tool) ==
  IF registry.rejected \/ ~ Registrable(tool) \/ tool.name \in registry.names
  THEN [registry EXCEPT !.rejected = TRUE]
  ELSE [registry EXCEPT !.names = @ \cup {tool.name}]

\* ToolRegistry::extend
Extend(registry, tools) == FoldLeft(Register, registry, tools)

\* Mutated: names are compared with the registry's only.
DefinitionsRejectedUnlessListed(registry, definitions) ==
  \E i \in 1..Len(definitions) :
    Blank(definitions[i]) \/ definitions[i] \in registry.names

\* RequestBuilder::effective_tool_definitions: the definitions sent along with
\* the registry's, unless a name is blank or appears twice.
DefinitionsRejected(registry, definitions) ==
  \/ \E i \in 1..Len(definitions) :
       Blank(definitions[i]) \/ definitions[i] \in registry.names
  \/ ~ IsInjective(definitions)

=============================================================================
