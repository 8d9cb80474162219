------------------------ MODULE RelationshipExplorer ------------------------
(***************************************************************************)
(* Admin console, /admin/data-relationships: a graph of organizations,     *)
(* tenants, data products and datasets that the browser builds one         *)
(* expansion at a time.  Answers come back in any order, are merged into   *)
(* what is shown, and collapsing a node takes away what only it brought    *)
(* in.  Statuses, names and the filters of the canvas are left out.        *)
(***************************************************************************)
EXTENDS Naturals, FiniteSets

CONSTANTS
    OrgNodes, TenantNodes, ProductNodes, DatasetNodes,
    OwnerOf,        \* the organization of each tenant
    NoNode,
    MaxFetches,   \* requests in flight
    MaxWrites     \* changes of the catalog

\* What an instance gives the constants.
ExplorerBounds == MaxFetches \in Nat /\ MaxWrites \in Nat /\ OwnerOf \in [TenantNodes -> OrgNodes]

VARIABLES
    grants, linked, deleted,   \* the server: entitlements, dataset links, deleted datasets
    nodes, edges,               \* ExplorerState
    expanded, childrenOf,
    selectedNode,               \* an edge that is selected instead only shows its own panel
    fetches,                    \* requests in flight, with the answer once the server has read it
    crashed,                    \* a reducer call ran out of stack and took the page with it
    writes

server   == <<grants, linked, deleted>>
graph    == <<nodes, edges, expanded, childrenOf>>
explorer == <<server, graph, selectedNode, fetches, crashed, writes>>

All     == OrgNodes \cup TenantNodes \cup ProductNodes \cup DatasetNodes
OWNS(o, t)     == <<"OWNS", o, t>>
ENTITLED(t, p) == <<"ENTITLED", t, p>>
USES(p, d)     == <<"USES", p, d>>
Edges   == {OWNS(o, t) : o \in OrgNodes, t \in TenantNodes} \cup {ENTITLED(t, p) : t \in TenantNodes, p \in ProductNodes}
               \cup {USES(p, d) : p \in ProductNodes, d \in DatasetNodes}

\* createInitialState: the organizations, as the page was rendered.
ExplorerInit ==
    /\ grants \in SUBSET (TenantNodes \X ProductNodes) /\ linked \in SUBSET (ProductNodes \X DatasetNodes) /\ deleted = {}
    /\ nodes = OrgNodes /\ edges = {} /\ expanded = {} /\ childrenOf = [n \in All |-> {}]
    /\ selectedNode = NoNode /\ fetches = {} /\ crashed = FALSE /\ writes = 0

-----------------------------------------------------------------------------
\* The four expansions of GET /api/admin/data-relationships.
Answer(ns, es) == [nodes |-> ns, edges |-> es]
ExpandOrganization(o) ==
    LET own == {t \in TenantNodes : OwnerOf[t] = o} IN Answer({o} \cup own, {OWNS(o, t) : t \in own})
ExpandTenant(t) ==
    LET held == {p \in ProductNodes : <<t, p>> \in grants} IN Answer({t} \cup held, {ENTITLED(t, p) : p \in held})
ExpandDataProduct(p) ==
    LET used    == {d \in DatasetNodes \ deleted : <<p, d>> \in linked}
        holders == {t \in TenantNodes : <<t, p>> \in grants}
    IN Answer({p} \cup used \cup holders, {USES(p, d) : d \in used} \cup {ENTITLED(t, p) : t \in holders})
ExpandDataset(d) ==
    LET users == {p \in ProductNodes : <<p, d>> \in linked}
    IN Answer(({d} \ deleted) \cup users, {USES(p, d) : p \in users})

Expand(n) == CASE n \in OrgNodes -> ExpandOrganization(n) [] n \in TenantNodes -> ExpandTenant(n)
               [] n \in ProductNodes -> ExpandDataProduct(n) [] OTHER -> ExpandDataset(n)

\* fetchExpand: a request, the server's reading of its tables, and the answer's arrival are three moments.
AskFor(n) == [node |-> n, read |-> FALSE, answer |-> Answer({}, {})]
CanAsk(n) == Cardinality(fetches) < MaxFetches /\ AskFor(n) \notin fetches
Serve ==
    /\ \E f \in fetches :
        /\ ~f.read
        /\ fetches' = (fetches \ {f}) \cup {[node |-> f.node, read |-> TRUE, answer |-> Expand(f.node)]}
    /\ UNCHANGED <<server, graph, selectedNode, crashed, writes>>
FetchFails ==
    /\ \E f \in fetches : fetches' = fetches \ {f}
    /\ UNCHANGED <<server, graph, selectedNode, crashed, writes>>

\* mergeGraph: what is shown only grows; the parent's children are those of the answer that came last.
Merge ==
    /\ ~crashed
    /\ \E f \in fetches :
        /\ f.read /\ fetches' = fetches \ {f}
        /\ nodes' = nodes \cup f.answer.nodes /\ edges' = edges \cup f.answer.edges
        /\ expanded' = expanded \cup {f.node}
        /\ childrenOf' = [childrenOf EXCEPT ![f.node] = f.answer.nodes \ {f.node}]
    /\ UNCHANGED <<server, selectedNode, crashed, writes>>

-----------------------------------------------------------------------------
\* handleSelectNode: select, and expand once.
Select(n) ==
    /\ selectedNode' = n
    /\ IF n \in expanded THEN UNCHANGED fetches ELSE CanAsk(n) /\ fetches' = fetches \cup {AskFor(n)}

\* childrenOfType: the rows of the tree, every expanded node's edges downwards from the organizations.
RowsUnder(shown) == shown \cup {m \in nodes : \E n \in shown \cap expanded, e \in edges : e[2] = n /\ e[3] = m}
TreeRows == RowsUnder(RowsUnder(RowsUnder(nodes \cap OrgNodes)))

SelectNode ==
    /\ ~crashed /\ \E n \in nodes : Select(n)
    /\ UNCHANGED <<server, graph, crashed, writes>>

\* A search result is merged on its own, without a parent, and selected.
SelectSearchResult ==
    /\ ~crashed /\ \E n \in All \ deleted : Select(n) /\ nodes' = nodes \cup {n}
    /\ UNCHANGED <<server, edges, expanded, childrenOf, crashed, writes>>

SelectEdge ==
    /\ ~crashed /\ edges # {} /\ selectedNode' = NoNode
    /\ UNCHANGED <<server, graph, fetches, crashed, writes>>

-----------------------------------------------------------------------------
\* collapseNode calls itself for every expanded child before it forgets that the node is expanded.
Calls(n) == childrenOf[n] \cap expanded
Closed(S) == \A m \in S : Calls(m) \subseteq S
Below(n)  == {m \in expanded : \A S \in SUBSET expanded : Calls(n) \subseteq S /\ Closed(S) => m \in S}
Endless(n) == \E m \in {n} \cup Below(n) : m \in Below(m)

MutantStillReferenced(collapsed) == {}

StillReferenced(collapsed) == UNION {childrenOf[m] : m \in expanded \ collapsed}

EdgesLeft(gone) == {e \in edges : e[2] \notin gone /\ e[3] \notin gone}

\* The selection falls back on a node that was collapsed with it and is still there.
FallBack(gone, collapsed) == IF selectedNode \in gone THEN collapsed \ gone ELSE {selectedNode}

CollapseNode(n) ==
    LET collapsed == {n} \cup Below(n)
        gone      == (UNION {childrenOf[m] : m \in collapsed}) \ StillReferenced(collapsed)
    IN /\ nodes' = nodes \ gone /\ edges' = EdgesLeft(gone)
       /\ expanded' = expanded \ collapsed
       /\ childrenOf' = [m \in All |-> IF m \in collapsed THEN {} ELSE childrenOf[m]]
       /\ selectedNode' \in FallBack(gone, collapsed)

\* handleToggleCollapse on a row of the tree.
ToggleCollapse ==
    /\ ~crashed
    /\ \E n \in (TreeRows \cap expanded) \ DatasetNodes :
         IF Endless(n) THEN crashed' = TRUE /\ UNCHANGED <<graph, selectedNode>>
         ELSE CollapseNode(n) /\ UNCHANGED crashed
    /\ UNCHANGED <<server, fetches, writes>>

-----------------------------------------------------------------------------
\* What the detail panel and its dialogs offer for the selected node, judged by the edges that are shown.
PanelOffers ==
    CASE selectedNode \in TenantNodes  -> {<<"grant", selectedNode, p>> : p \in ProductNodes}
      [] selectedNode \in ProductNodes ->
               {<<"associate", selectedNode, d>> : d \in {x \in DatasetNodes : USES(selectedNode, x) \notin edges}}
          \cup {<<"dissociate", selectedNode, d>> : d \in {x \in DatasetNodes : USES(selectedNode, x) \in edges}}
      [] selectedNode \in DatasetNodes ->
               {<<"associateTo", selectedNode, p>> : p \in {x \in ProductNodes : USES(x, selectedNode) \notin edges}}
          \cup {<<"dissociateFrom", selectedNode, p>> : p \in {x \in ProductNodes : USES(x, selectedNode) \in edges}}
      [] OTHER -> {}

\* Onto the server, and then the refresh: of the tenant for a grant, of the product for a removal, of the node shown
\* for an association.
Refreshed(w) == IF w[1] = "dissociateFrom" THEN w[3] ELSE w[2]
Write ==
    /\ ~crashed /\ writes < MaxWrites /\ writes' = writes + 1
    /\ \E w \in PanelOffers :
        /\ grants' = IF w[1] = "grant" THEN grants \cup {<<w[2], w[3]>>} ELSE grants
        /\ linked' = CASE w[1] = "associate"      -> linked \cup {<<w[2], w[3]>>}
                       [] w[1] = "associateTo"    -> linked \cup {<<w[3], w[2]>>}
                       [] w[1] = "dissociate"     -> linked \ {<<w[2], w[3]>>}
                       [] w[1] = "dissociateFrom" -> linked \ {<<w[3], w[2]>>}
                       [] OTHER                   -> linked
        /\ IF Refreshed(w) \in nodes THEN CanAsk(Refreshed(w)) /\ fetches' = fetches \cup {AskFor(Refreshed(w))}
                                     ELSE UNCHANGED fetches
    /\ UNCHANGED <<deleted, graph, selectedNode, crashed>>

\* Another administrator removes a dataset and its links.
DatasetDeleted ==
    /\ writes < MaxWrites /\ writes' = writes + 1
    /\ \E d \in DatasetNodes \ deleted : deleted' = deleted \cup {d} /\ linked' = {x \in linked : x[2] # d}
    /\ UNCHANGED <<grants, graph, selectedNode, fetches, crashed>>

ExplorerNext == \/ Serve \/ FetchFails \/ Merge \/ SelectNode \/ SelectSearchResult \/ SelectEdge \/ ToggleCollapse
                \/ Write \/ DatasetDeleted

ExplorerSpec == ExplorerInit /\ [][ExplorerNext]_explorer

-----------------------------------------------------------------------------
\* Types; children are kept for expanded nodes only, and a deleted dataset alone may be expanded without being shown.
ExplorerTypeOK ==
    /\ nodes \subseteq All /\ edges \subseteq Edges /\ expanded \subseteq nodes \cup deleted
    /\ \A n \in All : childrenOf[n] \subseteq All \ {n} /\ (n \notin expanded => childrenOf[n] = {})

\* Collapsing never takes away a node that another expanded node still shows as its child.
ChildrenAreShown == \A n \in expanded : childrenOf[n] \subseteq nodes

\* Whatever order answers and collapses come in, no edge is drawn to a node that is not there.
EdgesHaveEnds == \A e \in edges : {e[2], e[3]} \subseteq nodes \cup deleted

\* The panel never describes a node that was collapsed away.
SelectionIsShown == selectedNode \in nodes \cup {NoNode}

\* The comment on childrenOf: a node's children are the nodes its expansion introduced.  Two nodes cannot each have
\* introduced the other.
ChildrenWereIntroduced == \A n, m \in expanded : ~(m \in childrenOf[n] /\ n \in childrenOf[m])

\* The explorer draws a graph that hangs together: children of an expanded node are shown, edges have both ends and
\* the panel describes a node that is there, whatever order answers, clicks and deletions come in.
ExplorerIsConsistent == ExplorerTypeOK /\ ChildrenAreShown /\ EdgesHaveEnds /\ SelectionIsShown
=============================================================================
