------------------------------ MODULE NodeTree ------------------------------
(***************************************************************************)
(* The tree of directories and files of one project: package repository's  *)
(* nodes.go, with the requests that insert nodes.                          *)
(*                                                                         *)
(* UpdateNode and DeleteNode are single transactions.  CreateDirectory is  *)
(* not: it looks at the parent, then at the parent's depth, then inserts,  *)
(* each on its own.  An upload looks at its parent when it is created and  *)
(* inserts its file when it is completed, hours later perhaps.  So a node  *)
(* is inserted under a parent that was moved or deleted in between.        *)
(*                                                                         *)
(* Names are left out: the unique index can end any insertion or move, and *)
(* that is one of the ways in which a request here ends without effect.    *)
(***************************************************************************)
EXTENDS Integers, FiniteSets

CONSTANTS
    Node,        \* fs_nodes.id
    Root,        \* parent_id IS NULL: the root of the project
    MaxDepth     \* 128 in the code

ASSUME TreeAssumption ==
    /\ IsFiniteSet(Node)
    /\ Root \notin Node
    /\ MaxDepth \in Nat \ {0}

VARIABLES
    state,       \* "none" before the row exists, "live", "deleted"
    kind,        \* node_type
    parent,      \* parent_id
    request      \* the request that is to insert the node

treeVars == <<state, kind, parent, request>>

TreeTypeOK ==
    /\ state \in [Node -> {"none", "live", "deleted"}]
    /\ kind \in [Node -> {"file", "directory"}]
    /\ parent \in [Node -> Node \cup {Root}]
    /\ request \in [Node -> {"idle", "ensured", "measured"}]

TreeInit ==
    /\ state = [n \in Node |-> "none"]
    /\ kind = [n \in Node |-> "file"]
    /\ parent = [n \in Node |-> Root]
    /\ request = [n \in Node |-> "idle"]

-----------------------------------------------------------------------------
Live == {n \in Node : state[n] = "live"}

(* The recursive queries of nodes.go follow parent_id through live rows.   *)
Closed(S) == \A m \in Live : parent[m] \in S => m \in S

(* Mutant: the queries stop at the children.                               *)
Family(n) == {n} \cup {m \in Live : parent[m] = n}

(* The rows the query "tree" returns: n and what is live below it.         *)
Subtree(n) ==
    {m \in Node : \A S \in SUBSET Node : n \in S /\ Closed(S) => m \in S}

(* ParentDepth and parentDepthTx: the length of the chain of live rows     *)
(* that ends in p, 0 for the root and for a deleted p.                     *)
Depth(p) == Cardinality({a \in Live : p \in Subtree(a)})

(* The depth check of UpdateNode for n with all that is below it.          *)
Fits(n, p) ==
    \A m \in Subtree(n) :
        Depth(p) + Cardinality({a \in Subtree(n) : m \in Subtree(a)}) <= MaxDepth

(* ensureDirectory accepts p as a parent.                                  *)
IsDirectory(p) == p = Root \/ (p \in Live /\ kind[p] = "directory")

-----------------------------------------------------------------------------
(* CreateDirectory or CreateUpload finds the parent.                       *)
EnsureDirectory(n, k, p) ==
    /\ state[n] = "none"
    /\ request[n] = "idle"
    /\ IsDirectory(p)
    /\ kind' = [kind EXCEPT ![n] = k]
    /\ parent' = [parent EXCEPT ![n] = p]
    /\ request' = [request EXCEPT ![n] = "ensured"]
    /\ UNCHANGED state

(* CreateDirectory reads the depth of the parent.                          *)
MeasureDepth(n) ==
    /\ request[n] = "ensured"
    /\ kind[n] = "directory"
    /\ Depth(parent[n]) + 1 <= MaxDepth
    /\ request' = [request EXCEPT ![n] = "measured"]
    /\ UNCHANGED <<state, kind, parent>>

(* Mutant: the directory is inserted without a look at its depth.          *)
InsertUnmeasured(n) ==
    /\ request[n] = "ensured"
    /\ state' = [state EXCEPT ![n] = "live"]
    /\ request' = [request EXCEPT ![n] = "idle"]
    /\ UNCHANGED <<kind, parent>>

(* CreateDirectory inserts the directory, FinalizeUpload the file.         *)
InsertNode(n) ==
    /\ request[n] = IF kind[n] = "directory" THEN "measured" ELSE "ensured"
    /\ state' = [state EXCEPT ![n] = "live"]
    /\ request' = [request EXCEPT ![n] = "idle"]
    /\ UNCHANGED <<kind, parent>>

(* The depth limit, a taken name, an upload that is aborted or expires.    *)
RequestEnds(n) ==
    /\ request[n] # "idle"
    /\ request' = [request EXCEPT ![n] = "idle"]
    /\ UNCHANGED <<state, kind, parent>>

(* Mutant: a directory is moved as if nothing were below it.               *)
UpdateNodeAlone(n, p) ==
    /\ n \in Live
    /\ p # n
    /\ IsDirectory(p)
    /\ Depth(p) + 1 <= MaxDepth
    /\ parent' = [parent EXCEPT ![n] = p]
    /\ UNCHANGED <<state, kind, request>>

(* UpdateNode with a new parent; a rename leaves the tree as it is.        *)
UpdateNode(n, p) ==
    /\ n \in Live
    /\ p # n
    /\ IsDirectory(p)
    /\ kind[n] = "directory" => p \notin Subtree(n)
    /\ Fits(n, p)
    /\ parent' = [parent EXCEPT ![n] = p]
    /\ UNCHANGED <<state, kind, request>>

(* Mutant: deleted nodes get the status blobs have.                        *)
DeleteNodeAsBlob(n) ==
    /\ n \in Live
    /\ state' = [m \in Node |-> IF m \in Subtree(n) THEN "deleting" ELSE state[m]]
    /\ UNCHANGED <<kind, parent, request>>

DeleteNode(n) ==
    /\ n \in Live
    /\ state' = [m \in Node |-> IF m \in Subtree(n) THEN "deleted" ELSE state[m]]
    /\ UNCHANGED <<kind, parent, request>>

TreeNext ==
    \E n \in Node :
        \/ \E k \in {"file", "directory"}, p \in Node \cup {Root} :
              EnsureDirectory(n, k, p)
        \/ MeasureDepth(n)
        \/ InsertNode(n)
        \/ RequestEnds(n)
        \/ \E p \in Node \cup {Root} : UpdateNode(n, p)
        \/ DeleteNode(n)

TreeSpec == TreeInit /\ [][TreeNext]_treeVars

-----------------------------------------------------------------------------
(* SAFETY                                                                  *)

(* The live rows form a forest: no set of live nodes is closed under       *)
(* "parent of".  On a cycle the recursive queries, UNION ALL all of them,  *)
(* would never end, in DeleteNode and in the check of every public share.  *)
Acyclic ==
    \A S \in SUBSET Live : S # {} => \E n \in S : parent[n] \notin S

(* However requests race with moves, a directory is at most one level      *)
(* deeper than the limit CreateDirectory and UpdateNode enforce.           *)
DepthBounded ==
    \A n \in Live : kind[n] = "directory" => Depth(n) <= MaxDepth + 1

HasLiveParent(n) == parent[n] = Root \/ parent[n] \in Live

Attached == \A n \in Live \cap Live' : HasLiveParent(n) => HasLiveParent(n)'

(* A node that is attached to the live tree stays attached as long as it   *)
(* lives: a deletion takes the whole subtree, a move finds a live parent.  *)
(* Only an insertion can put a live node under a deleted one.              *)
StaysAttached == [][Attached]_treeVars

(* docs/api.md, DELETE /nodes/{nodeID}: the subtree has been soft-deleted, *)
(* that is, no live node is left under a deleted directory.                *)
DeletedSubtreesAreGone == \A n \in Live : HasLiveParent(n)
=============================================================================
