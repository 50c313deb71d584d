----------------------------- MODULE McpCatalog -----------------------------
(***************************************************************************)
(* mcp::McpTools from the server's listing to the model's tool call: a     *)
(* catalog is discovered page by page or bound from a cache, filtered and  *)
(* renamed, and attached to a request, as executable tools or as           *)
(* definitions whose calls the application routes to a catalog.  A server  *)
(* may change its listing at any moment and lose its place in it.          *)
(*                                                                         *)
(* A call that is dispatched is one step: McpCall has its schemas, its     *)
(* deadline and its cancellation, McpRequest its exchange with the server. *)
(***************************************************************************)
EXTENDS Messages, ToolRegistry, Naturals

CONSTANTS Order,      \* the servers, in the order their catalogs are attached
          Listings,   \* what each server may list: sequences of names
          Cached,     \* the servers whose catalog the application has cached
          Renamings,  \* what rename() is given: functions of a server's names
          Results,    \* what a tool may return
          PageSize    \* the most tools a page holds

VARIABLES
  catalog, \* the application's McpTools for each server
  listing, \* what a server lists while it is asked, else nothing
  changed, \* history: the servers whose listing changed while it was read
  offer,   \* what the request offers the model
  call     \* the model's tool call, and what became of it

catalogVars == <<catalog, listing, changed, offer, call>>

Servers == ToSet(Order)

\* What the servers may name their tools.
RemoteTools == UNION {UNION {ToSet(l) : l \in Listings[s]} : s \in Servers}

ASSUME McpCatalogAssumption ==
  /\ Order \in Seq(Servers)
  /\ \A s \in Servers : Listings[s] \subseteq Seq(STRING)
  /\ Cached \subseteq Servers
  /\ Renamings \subseteq [RemoteTools -> STRING]
  /\ Results \subseteq [structured : BOOLEAN, blocks : Seq(STRING), error : BOOLEAN]
  /\ PageSize \in Nat

\* McpTool: the name advertised to the model, and the name the server calls it.
McpTool(name, remote) == [name |-> name, remote |-> remote]
AdvertisedNames(tools) == [i \in 1..Len(tools) |-> tools[i].name]
RemoteNames(tools) == [i \in 1..Len(tools) |-> tools[i].remote]

Unread == [status |-> "unread"]
Reading(remotes, cursor, cursors) ==
  [status |-> "reading", remotes |-> remotes, cursor |-> cursor, cursors |-> cursors]
Bound(tools) == [status |-> "bound", tools |-> tools]
Failed == [status |-> "failed"]

NoOffer == [as |-> "none", entries |-> {}]
NoCall == [status |-> "none"]

CatalogInit ==
  /\ catalog = [s \in Servers |-> Unread]
  /\ listing = [s \in Servers |-> <<>>]
  /\ changed = {}
  /\ offer = NoOffer
  /\ call = NoCall

-----------------------------------------------------------------------------
(***************************************************************************)
(* The server, external.  A cursor is a place in the listing: a page       *)
(* starts there, may be empty, and hands out the place where it ends, or   *)
(* an earlier one when the server has lost its place.                      *)
(***************************************************************************)
ListingChanges(s) ==
  /\ catalog[s].status = "reading"
  /\ s \notin changed
  /\ \E l \in Listings[s] \ {listing[s]} : listing' = [listing EXCEPT ![s] = l]
  /\ changed' = changed \cup {s}
  /\ UNCHANGED <<catalog, offer, call>>

Page(rest, n, next) == [remotes |-> SubSeq(rest, 1, n), next |-> next]

PagesBefore(rest, from) ==
  UNION {{Page(rest, n, Some(to)) : to \in 0..(from + n)} : n \in 0..PageSize \cap 0..Len(rest)}

LastPages(rest) == {Page(rest, n, None) : n \in {Len(rest)} \cap 0..PageSize}

Pages(list, cursor) ==
  LET from == OrDefault(cursor, 0)
      rest == SubSeq(list, from + 1, Len(list))
  IN  PagesBefore(rest, from) \cup LastPages(rest)

-----------------------------------------------------------------------------

\* check_names
NamesAreGood(tools) ==
  /\ \A i \in 1..Len(tools) : ~ Blank(tools[i].name)
  /\ IsInjective(AdvertisedNames(tools))

Checked(tools) == IF NamesAreGood(tools) THEN Bound(tools) ELSE Failed

\* McpTools::from_catalog
FromCatalog(remotes) == Checked([i \in 1..Len(remotes) |-> McpTool(remotes[i], remotes[i])])

\* Mutated: an empty page ends the listing.
ReadUntilEmpty(reading, page) ==
  IF page.next = None \/ page.remotes = <<>> THEN FromCatalog(reading.remotes \o page.remotes)
  ELSE IF page.next[1] \in reading.cursors THEN Failed
  ELSE Reading(reading.remotes \o page.remotes, page.next, reading.cursors \cup {page.next[1]})

\* Mutated: a repeated cursor is followed again, its page known already.
ReadAgain(reading, page) ==
  IF page.next = None THEN FromCatalog(reading.remotes \o page.remotes)
  ELSE IF page.next[1] \in reading.cursors THEN [reading EXCEPT !.cursor = page.next]
  ELSE Reading(reading.remotes \o page.remotes, page.next, reading.cursors \cup {page.next[1]})

\* One round of McpTools::discover.
Read(reading, page) ==
  IF page.next = None THEN FromCatalog(reading.remotes \o page.remotes)
  ELSE IF page.next[1] \in reading.cursors THEN Failed
  ELSE Reading(reading.remotes \o page.remotes, page.next, reading.cursors \cup {page.next[1]})

Discover(s) ==
  /\ catalog[s] = Unread /\ s \notin Cached
  /\ catalog' = [catalog EXCEPT ![s] = Reading(<<>>, None, {})]
  /\ \E l \in Listings[s] : listing' = [listing EXCEPT ![s] = l]
  /\ UNCHANGED <<changed, offer, call>>

\* The server is asked no more once the catalog is read or given up.
Answered(s, read) ==
  /\ catalog' = [catalog EXCEPT ![s] = read]
  /\ IF read.status = "reading" THEN UNCHANGED <<listing, changed>>
     ELSE listing' = [listing EXCEPT ![s] = <<>>] /\ changed' = changed \ {s}
  /\ UNCHANGED <<offer, call>>

ReadPage(s) ==
  /\ catalog[s].status = "reading"
  /\ \E page \in Pages(listing[s], catalog[s].cursor) :
       Answered(s, Read(catalog[s], page))

ReadFails(s) ==
  /\ catalog[s].status = "reading"
  /\ Answered(s, Failed)

\* The application binds what the server once listed.
BindCached(s) ==
  /\ catalog[s] = Unread /\ s \in Cached
  /\ \E l \in Listings[s] : catalog' = [catalog EXCEPT ![s] = FromCatalog(l)]
  /\ UNCHANGED <<listing, changed, offer, call>>

Edit(s, tools) ==
  /\ offer = NoOffer
  /\ catalog' = [catalog EXCEPT ![s] = tools]
  /\ UNCHANGED <<listing, changed, offer, call>>

\* McpTools::filter, by the server's declarations.
Filter(s) ==
  /\ catalog[s].status = "bound"
  /\ LET tools == catalog[s].tools
     IN  \E keep \in SUBSET ToSet(RemoteNames(tools)) :
           Edit(s, Bound(Selection(tools, {i \in 1..Len(tools) : tools[i].remote \in keep})))

\* McpTools::rename, from the server's names whatever the tools were renamed to.
Rename(s) ==
  /\ catalog[s].status = "bound"
  /\ LET tools == catalog[s].tools
     IN  \E name \in Renamings :
           Edit(s, Checked([i \in 1..Len(tools) |-> McpTool(name[tools[i].remote], tools[i].remote)]))

-----------------------------------------------------------------------------

Attached == Selection(Order, {i \in 1..Len(Order) : catalog[Order[i]].status = "bound"})

\* McpTools::tools
CatalogTools(s) ==
  [j \in 1..Len(catalog[s].tools) |-> Tool(catalog[s].tools[j].name, TRUE, TRUE)]

\* McpTools::definitions: each tool's name, with what the server declares of it.
Entry(s, tool) == [name |-> tool.name, declared |-> <<s, tool.remote>>]
CatalogDefinitions(s) ==
  [j \in 1..Len(catalog[s].tools) |-> Entry(s, catalog[s].tools[j])]

\* All of them, on one request.
ExecutableTools == FlattenSeq([i \in 1..Len(Attached) |-> CatalogTools(Attached[i])])
Definitions == FlattenSeq([i \in 1..Len(Attached) |-> CatalogDefinitions(Attached[i])])

\* The request is made once the catalogs are there.
Offer(as, accepted) ==
  /\ offer = NoOffer
  /\ \A s \in Servers : catalog[s].status \in {"bound", "failed"}
  /\ offer' = IF accepted THEN [as |-> as, entries |-> ToSet(Definitions)]
                          ELSE [as |-> "rejected", entries |-> {}]
  /\ UNCHANGED <<catalog, listing, changed, call>>

OfferTools == Offer("tools", ~ Extend(NewRegistry, ExecutableTools).rejected)

OfferDefinitions ==
  Offer("definitions", ~ DefinitionsRejected(NewRegistry, AdvertisedNames(Definitions)))

-----------------------------------------------------------------------------

\* Mutated: a server's own name will do.
FindEither(tools, name) ==
  LET at == {i \in 1..Len(tools) : name \in {tools[i].name, tools[i].remote}}
  IN  IF at = {} THEN None ELSE Some(tools[Min(at)])

\* McpTools::find; McpTools::contains is that it finds one.
Find(tools, name) ==
  LET at == {i \in 1..Len(tools) : tools[i].name = name}
  IN  IF at = {} THEN None ELSE Some(tools[Min(at)])

\* The catalogs that may get the call: the one whose tool has the handler, or
\* the first that contains the name, or any, the application having not looked.
Routes(name) ==
  LET having == {i \in 1..Len(Attached) : IsSome(Find(catalog[Attached[i]].tools, name))}
  IN  IF having = {} THEN ToSet(Attached) ELSE {Attached[Min(having)]}

\* block_text: what is sent of a block, if it can be sent.
Sendable(block) == block \in {"text", "text resource", "resource link"}

\* tool_output, None for McpError::UnsupportedContent
ToolOutput(origin, result) ==
  IF result.structured
  THEN Some([content |-> <<origin, "structured">>, error |-> result.error])
  ELSE IF \A i \in 1..Len(result.blocks) : Sendable(result.blocks[i])
  THEN Some([content |-> <<origin>> \o result.blocks, error |-> result.error])
  ELSE None

\* ToolOutput::into_message
IntoMessage(output) ==
  IF output.error THEN ToolError(output.content, "call")
                  ELSE ToolResult(output.content, "call")

\* The tools' handler: a failure is sent to the model. McpTools::call: it is the
\* application's.
Fails == IF offer.as = "tools" THEN Some(ToolError(<<"failure">>, "call")) ELSE None

Settle(name, reached, result, message) ==
  call' = [status |-> "settled", name |-> name, reached |-> reached,
           result |-> result, message |-> message]

\* The model calls a tool it may have been offered; the loop gives no handler
\* a name that is not registered.
Called(name) ==
  /\ offer.as \in {"tools", "definitions"} /\ call = NoCall
  /\ offer.as = "tools" => \E e \in offer.entries : e.name = name
  /\ UNCHANGED <<catalog, listing, changed, offer>>

\* parameters(): a name the catalog has not, or arguments that are no object.
CallRefused(name) ==
  /\ Called(name)
  /\ \E s \in Routes(name) :
       IF Find(catalog[s].tools, name) = None
       THEN Settle(name, None, None, Fails)
       ELSE Settle(name, None, None, Some(ToolError(<<"arguments">>, "call")))

\* The server has the tool, or answers with an error when it has it no more.
CallDispatched(name) ==
  /\ Called(name)
  /\ \E s \in Routes(name) :
       LET found == Find(catalog[s].tools, name)
       IN  /\ IsSome(found)
           /\ LET origin == <<s, found[1].remote>>
              IN  \/ Settle(name, Some(origin), None, Fails)
                  \/ \E result \in Results :
                       LET output == ToolOutput(origin, result)
                       IN  Settle(name, Some(origin), Some(result),
                                  IF output = None THEN Fails ELSE Some(IntoMessage(output[1])))

Names == UNION {ToSet(f) : f \in Renamings}

CatalogNext ==
  \/ \E s \in Servers :
       \/ ListingChanges(s) \/ Discover(s) \/ ReadPage(s) \/ ReadFails(s)
       \/ BindCached(s) \/ Filter(s) \/ Rename(s)
  \/ OfferTools \/ OfferDefinitions
  \/ \E name \in Names : CallRefused(name) \/ CallDispatched(name)

\* The peer answers a page request or fails it.
Fairness == \A s \in Servers : WF_catalogVars(ReadPage(s) \/ ReadFails(s))

CatalogSpec == CatalogInit /\ [][CatalogNext]_catalogVars /\ Fairness

-----------------------------------------------------------------------------

\* discover() binds the server's whole listing, each tool once and in order, even
\* with empty pages and a server that loses its place, unless the listing
\* changed under it (discover, mcp.rs).
CatalogIsTheListing ==
  [][\A s \in Servers \ changed :
       catalog[s].status = "reading" /\ catalog'[s].status = "bound"
         => RemoteNames(catalog'[s].tools) = listing[s]]_catalogVars

\* discover() ends, for the cursors are never read twice and the server has
\* finitely many (discover, mcp.rs).
DiscoveryEnds ==
  \A s \in Servers : catalog[s].status = "reading" ~> catalog[s].status \in {"bound", "failed"}

\* A call reaches the tool whose declaration the model read under that name, on
\* that server, whatever was filtered and renamed and whoever routes it; and the
\* model is told an error exactly when the tool returned one or returned nothing
\* that can be sent, and the result in full otherwise (find, tools, tool_output).
AnsweredByTheAdvertisedTool ==
  call.status = "settled" =>
    LET advertised == {e.declared : e \in {d \in offer.entries : d.name = call.name}}
    IN  /\ \A origin \in ToSet(call.reached) : advertised = {origin}
        /\ \A message \in ToSet(call.message), result \in ToSet(call.result) :
             \/ message.failed /\ (result.error \/ message.content = <<"failure">>)
             \/ /\ ~ message.failed /\ ~ result.error
                /\ Len(message.content) = 1 + IF result.structured THEN 1 ELSE Len(result.blocks)
        /\ call.result = None => \A message \in ToSet(call.message) : message.failed
        /\ offer.as = "tools" => IsSome(call.message)

=============================================================================
