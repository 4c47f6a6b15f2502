---------------------------- MODULE SymbolResolution ----------------------------
(***************************************************************************)
(* What relationships resolve to, and which of them are resolved again when *)
(* one document changes.                                                   *)
(*                                                                         *)
(* A document is projected with the nodes and the facts of its analysis:   *)
(* its own facts are resolved, and those of other documents that the change *)
(* may concern; the others keep their edge or their candidates.  Reading   *)
(* and writing are one step here: GraphPublication shows that a batch whose *)
(* reads are older than the graph is refused.                              *)
(*                                                                         *)
(* Data abstraction.  One language.  A file's path is its qualified name.  *)
(* The aliases of a fact are the values its target expands to, its external *)
(* targets those of them that belong to an external root; its sibling is   *)
(* the qualified name its target has beside the source node.               *)
(***************************************************************************)
EXTENDS FiniteSets

CONSTANTS
    Docs,      \* documents
    Values,    \* keys, names, paths
    Simple,    \* values without a separator
    Contents   \* for each document, what its analysis can yield

FactKinds == {"local", "symbol", "module", "external", "unresolved"}

GraphNode == [key : Values, name : Values, qualified : Values, module : BOOLEAN]
NoSibling == "none"
Fact == [kind : FactKinds, target : Values, aliases : SUBSET Values,
         sibling : Values \cup {NoSibling}, external : SUBSET Values]
Analysis == [nodes : SUBSET GraphNode, facts : SUBSET Fact]

NodesOf(d) == UNION {c.nodes : c \in Contents[d]}
FactsOf(d) == UNION {c.facts : c \in Contents[d]}

ASSUME AnalysesGiven == Contents \in [Docs -> SUBSET Analysis] /\ Simple \subseteq Values
\* An analyzer's key spells out the path and the containers of a symbol; it is
\* UNIQUE in the workspace.
ASSUME KeysTellNames ==
    \A d, e \in Docs : \A n \in NodesOf(d), m \in NodesOf(e) :
        n.key = m.key => d = e /\ n.name = m.name /\ n.qualified = m.qualified
\* A qualified name ends in the name.
ASSUME SiblingsEndInTarget ==
    \A d, e \in Docs : \A f \in FactsOf(d), n \in NodesOf(e) :
        n.qualified = f.sibling => n.name = f.target
ASSUME NoSiblingIsNoValue == NoSibling \notin Values

VARIABLES
    analysis,   \* graph nodes and facts of each projected document
    projection  \* edges and unresolved relationships

resolutionVars == <<analysis, projection>>

Absent == [nodes |-> {}, facts |-> {}]

States == {"resolved", "ambiguous", "external", "unresolved"}
Projected == [state : States, nodes : SUBSET Values, external : SUBSET Values]
Unresolved == [state |-> "unresolved", nodes |-> {}, external |-> {}]

Asserted(a) == UNION {{<<d, f>> : f \in a[d].facts} : d \in Docs}

ResolutionInit ==
    /\ analysis = [d \in Docs |-> Absent]
    /\ projection = [x \in Asserted(analysis) |-> Unresolved]

-----------------------------------------------------------------------------
(* SymbolResolver::resolve_against_nodes *)

Placed(a) == UNION {{[doc |-> d, node |-> n] : n \in a[d].nodes} : d \in Docs}

Named(a, v) == {p \in Placed(a) : p.node.name = v}
Qualified(a, v) == {p \in Placed(a) : p.node.qualified = v}

StateOf(nodes, external) ==
    CASE nodes = {} /\ external = {} -> "unresolved"
      [] nodes = {} /\ (\E t \in external : external = {t}) -> "external"
      [] (\E p \in nodes : nodes = {p}) /\ external = {} -> "resolved"
      [] OTHER -> "ambiguous"

Found(nodes, external) ==
    [state |-> StateOf(nodes, external), nodes |-> {p.node.key : p \in nodes},
     external |-> external]

ByKey(a, f) == {p \in Placed(a) : p.node.key = f.target}

\* A relative name: beside the source, then by qualified name, then in the
\* document of the source, then anywhere.
ByName(a, d, f) ==
    LET simple == f.target \in Simple
        beside == IF simple THEN Qualified(a, f.sibling) ELSE {}
        named == IF simple THEN Named(a, f.target) ELSE {}
        own == {p \in named : p.doc = d}
    IN  CASE beside # {} -> beside
          [] beside = {} /\ Qualified(a, f.target) # {} -> Qualified(a, f.target)
          [] beside = {} /\ Qualified(a, f.target) = {} /\ own # {} -> own
          [] OTHER -> named

ResolveSymbol(a, d, f) ==
    LET aliased == UNION {Qualified(a, v) : v \in f.aliases}
    IN  IF aliased # {} THEN aliased ELSE ByName(a, d, f)

Modules(S) == {p \in S : p.node.module}

ResolveModule(a, f) ==
    LET expanded == IF f.aliases = {} THEN {f.target} ELSE f.aliases
        qualified == Modules(UNION {Qualified(a, v) : v \in expanded})
    IN  IF qualified # {} \/ f.target \notin Simple THEN qualified
        ELSE Modules(Named(a, f.target))

Resolve(a, d, f) ==
    LET module == ResolveModule(a, f)
    IN  CASE f.kind = "local" -> Found(ByKey(a, f), {})
          [] f.kind = "symbol" -> Found(ResolveSymbol(a, d, f), {})
          [] f.kind = "module" ->
                Found(module, IF f.aliases # {} \/ module = {} THEN f.external ELSE {})
          [] f.kind = "external" -> Found({}, {f.target})
          [] OTHER -> Found({}, {})

-----------------------------------------------------------------------------
(* Dependent invalidation *)

\* node_resolution_terms
Terms(n) ==
    {<<"local", n.key>>, <<"symbol", n.name>>, <<"symbol", n.qualified>>}
    \cup IF n.module THEN {<<"module", n.name>>, <<"module", n.qualified>>} ELSE {}

Surface(nodes, term) == {<<n.key, n.module>> : n \in {m \in nodes : term \in Terms(m)}}

\* mutated: additions to the surface are passed over
Vanishes(old, new, term) == ~(Surface(old, term) \subseteq Surface(new, term))
\* changed_resolution_terms
Changes(old, new, term) == Surface(old, term) # Surface(new, term)

KeysOf(nodes) == {n.key : n \in nodes}

\* affected_relationships: what the batch for d resolves, when its nodes become
\* new
Affected(d, new, x) ==
    \/ x[1] = d
    \/ Changes(analysis[d].nodes, new, <<x[2].kind, x[2].target>>)
    \/ /\ x \in DOMAIN projection /\ projection[x].state = "resolved"
       /\ projection[x].nodes \cap (KeysOf(analysis[d].nodes) \ KeysOf(new)) # {}

\* Candidates of an ambiguity go with their nodes.
Kept(d, new, x) ==
    [projection[x] EXCEPT !.nodes = @ \ (KeysOf(analysis[d].nodes) \ KeysOf(new))]

\* project_relationships and the application of the batch
Apply(d, content) ==
    LET after == [analysis EXCEPT ![d] = content]
    IN  /\ analysis' = after
        /\ projection' = [x \in Asserted(after) |->
              IF Affected(d, content.nodes, x) THEN Resolve(after, x[1], x[2])
              ELSE Kept(d, content.nodes, x)]

\* prepare_document_batch, of a new document or of one that has changed
ProjectDocument(d) == \E content \in Contents[d] : Apply(d, content)

\* prepare_deletion_batch
DeleteDocument(d) == analysis[d] # Absent /\ Apply(d, Absent)

ResolutionNext == \E d \in Docs : ProjectDocument(d) \/ DeleteDocument(d)

ResolutionSpec == ResolutionInit /\ [][ResolutionNext]_resolutionVars

-----------------------------------------------------------------------------
(* Properties *)

ResolutionTypeOK ==
    /\ analysis \in [Docs -> Analysis]
    /\ projection \in [Asserted(analysis) -> Projected]

AsResolvedNow(x) == projection[x] = Resolve(analysis, x[1], x[2])

\* A relationship without aliases is projected as if the whole workspace had
\* just been resolved, in whatever order documents were added, changed and
\* deleted, although a change resolves only what it may concern: an added
\* ambiguity, a name that moved, a vanished target are all noticed.
PlainFactsResolved ==
    \A x \in Asserted(analysis) : x[2].aliases = {} => AsResolvedNow(x)

\* The same of every relationship: also of an import, whose target is an alias
\* of the paths it may stand for.
EveryFactResolved == \A x \in Asserted(analysis) : AsResolvedNow(x)
=============================================================================
