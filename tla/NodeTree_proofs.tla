-------------------------- MODULE NodeTree_proofs --------------------------
(***************************************************************************)
(* What NodeTree.tla promises, proved for any number of nodes and any      *)
(* depth limit.  The tree is kept free of cycles by the one query that     *)
(* UpdateNode asks about the directory it moves; that the query may look   *)
(* at live rows only, and that it is not asked for files, is part of what  *)
(* the proof shows.                                                        *)
(***************************************************************************)
EXTENDS NodeTree, FiniteSetTheorems, TLAPS

(* A row has a parent that exists and is a directory, and so has the row a *)
(* request is about to insert.  The parent may be deleted.                 *)
ParentsAreDirectories ==
    \A n \in Node :
        (state[n] # "none" \/ request[n] # "idle") =>
            \/ parent[n] = Root
            \/ /\ parent[n] \in Node
               /\ state[parent[n]] # "none"
               /\ kind[parent[n]] = "directory"

(* Requests insert rows that do not exist yet.                             *)
RequestsAreNew == \A n \in Node : request[n] # "idle" => state[n] = "none"

TreeInv == TreeTypeOK /\ ParentsAreDirectories /\ RequestsAreNew /\ Acyclic

-----------------------------------------------------------------------------
(* A subtree holds its top and, with a node, the node's live children.     *)
LEMMA SubtreeTop ==
    ASSUME NEW n \in Node
    PROVE  n \in Subtree(n) /\ Closed(Subtree(n))
<1>1. n \in Subtree(n)
  BY DEF Subtree
<1>2. ASSUME NEW m \in Live, parent[m] \in Subtree(n)
      PROVE  m \in Subtree(n)
  <2>1. m \in Node
    BY DEF Live
  <2>2. ASSUME NEW S \in SUBSET Node, n \in S, Closed(S)
        PROVE  m \in S
    <3>1. parent[m] \in S
      BY <1>2, <2>2 DEF Subtree
    <3>2. QED
      BY <3>1, <2>2 DEF Closed
  <2>3. QED
    BY <2>1, <2>2 DEF Subtree
<1>3. QED
  BY <1>1, <1>2 DEF Closed

(* A node nobody has as parent is alone in its subtree.                    *)
LEMMA LeafSubtree ==
    ASSUME NEW n \in Node, \A m \in Live : parent[m] # n
    PROVE  Subtree(n) = {n}
<1>1. Closed({n})
  BY DEF Closed
<1>2. QED
  BY <1>1, SubtreeTop DEF Subtree

-----------------------------------------------------------------------------
LEMMA InitInv == TreeInit => TreeInv
  BY TreeAssumption DEF TreeInit, TreeInv, TreeTypeOK, ParentsAreDirectories,
     RequestsAreNew, Acyclic, Live

LEMMA EnsureInv ==
    ASSUME TreeInv, NEW n \in Node, NEW k \in {"file", "directory"},
           NEW p \in Node \cup {Root}, EnsureDirectory(n, k, p)
    PROVE  TreeInv'
<1> USE DEF TreeInv
<1>1. TreeTypeOK'
  BY DEF EnsureDirectory, TreeTypeOK
<1>2. /\ state[n] = "none"
      /\ state' = state
      /\ \A m \in Node \ {n} : kind'[m] = kind[m] /\ parent'[m] = parent[m]
                                /\ request'[m] = request[m]
      /\ parent'[n] = p
  BY DEF EnsureDirectory, TreeTypeOK
<1>3. p = Root \/ (p \in Node /\ state[p] = "live" /\ kind[p] = "directory")
  BY DEF EnsureDirectory, IsDirectory, Live
<1>4. ParentsAreDirectories'
  <2> SUFFICES ASSUME NEW m \in Node, state'[m] # "none" \/ request'[m] # "idle"
               PROVE  \/ parent'[m] = Root
                      \/ /\ parent'[m] \in Node
                         /\ state'[parent'[m]] # "none"
                         /\ kind'[parent'[m]] = "directory"
    BY DEF ParentsAreDirectories
  <2>1. CASE m = n
    BY <2>1, <1>2, <1>3
  <2>2. CASE m # n
    BY <2>2, <1>2 DEF ParentsAreDirectories
  <2>3. QED
    BY <2>1, <2>2
<1>5. RequestsAreNew'
  BY <1>2 DEF RequestsAreNew
<1>6. Acyclic'
  BY <1>2 DEF Acyclic, Live
<1>7. QED
  BY <1>1, <1>4, <1>5, <1>6

LEMMA MeasureInv ==
    ASSUME TreeInv, NEW n \in Node, MeasureDepth(n)
    PROVE  TreeInv'
  BY DEF TreeInv, MeasureDepth, TreeTypeOK, ParentsAreDirectories,
     RequestsAreNew, Acyclic, Live

LEMMA RequestEndsInv ==
    ASSUME TreeInv, NEW n \in Node, RequestEnds(n)
    PROVE  TreeInv'
  BY DEF TreeInv, RequestEnds, TreeTypeOK, ParentsAreDirectories,
     RequestsAreNew, Acyclic, Live

(* The inserted row has no child yet, so it closes no cycle.               *)
LEMMA InsertInv ==
    ASSUME TreeInv, NEW n \in Node, InsertNode(n)
    PROVE  TreeInv'
<1> USE DEF TreeInv
<1>1. /\ state[n] = "none"
      /\ request[n] # "idle"
      /\ parent' = parent
      /\ kind' = kind
      /\ state' = [state EXCEPT ![n] = "live"]
      /\ request' = [request EXCEPT ![n] = "idle"]
  BY DEF InsertNode, TreeTypeOK, RequestsAreNew
<1>2. TreeTypeOK' /\ ParentsAreDirectories' /\ RequestsAreNew'
  BY <1>1 DEF TreeTypeOK, ParentsAreDirectories, RequestsAreNew
<1>3. Live' = Live \cup {n}
  BY <1>1 DEF Live, TreeTypeOK
<1>4. ASSUME NEW S \in SUBSET Live', S # {}
      PROVE  \E m \in S : parent'[m] \notin S
  <2>1. \A m \in Live \cup {n} : parent[m] # n
    BY <1>1, TreeAssumption DEF ParentsAreDirectories, Live
  <2>2. CASE S \ {n} = {}
    BY <2>2, <2>1, <1>1, <1>3, <1>4
  <2>3. CASE S \ {n} # {}
    <3>1. PICK m \in S \ {n} : parent[m] \notin S \ {n}
      BY <2>3, <1>3 DEF Acyclic
    <3>2. QED
      BY <3>1, <2>1, <1>1, <1>3
  <2>4. QED
    BY <2>2, <2>3
<1>5. QED
  BY <1>2, <1>4 DEF Acyclic

(* Suppose the move closed a cycle S.  It would run through n and p; the   *)
(* part of S outside the subtree of n holds p, does not hold n, and was    *)
(* closed under "parent of" before the move.                               *)
LEMMA UpdateInv ==
    ASSUME TreeInv, NEW n \in Node, NEW p \in Node \cup {Root}, UpdateNode(n, p)
    PROVE  TreeInv'
<1> USE DEF TreeInv
<1>1. /\ n \in Live
      /\ parent' = [parent EXCEPT ![n] = p]
      /\ UNCHANGED <<state, kind, request>>
      /\ p # n
      /\ p = Root \/ (p \in Live /\ kind[p] = "directory")
  BY DEF UpdateNode, IsDirectory
<1>2. TreeTypeOK' /\ RequestsAreNew'
  BY <1>1 DEF TreeTypeOK, RequestsAreNew
<1>3. ParentsAreDirectories'
  BY <1>1 DEF ParentsAreDirectories, Live, TreeTypeOK
<1>4. p \notin Subtree(n)
  <2>1. CASE kind[n] = "directory"
    BY <2>1 DEF UpdateNode
  <2>2. CASE kind[n] # "directory"
    <3>1. \A m \in Live : parent[m] # n
      BY <2>2, TreeAssumption DEF ParentsAreDirectories, Live
    <3>2. QED
      BY <3>1, <1>1, LeafSubtree
  <2>3. QED
    BY <2>1, <2>2
<1>5. ASSUME NEW S \in SUBSET Live', S # {}, \A m \in S : parent'[m] \in S
      PROVE  FALSE
  <2> DEFINE T == S \ Subtree(n)
  <2>1. Live' = Live
    BY <1>1 DEF Live
  <2>2. \A m \in Live : parent'[m] = IF m = n THEN p ELSE parent[m]
    BY <1>1 DEF TreeTypeOK, Live
  <2>3. n \in S
    BY <1>5, <2>1, <2>2 DEF Acyclic
  <2>4. p \in T
    BY <2>3, <2>2, <1>5, <1>4, <2>1
  <2>5. ASSUME NEW m \in T
        PROVE  parent[m] \in T
    <3>1. m # n /\ m \in Live
      BY <2>5, <2>1, SubtreeTop
    <3>2. parent[m] \in S
      BY <3>1, <2>2, <1>5, <2>5
    <3>3. parent[m] \notin Subtree(n)
      BY <3>1, <2>5, SubtreeTop DEF Closed
    <3>4. QED
      BY <3>2, <3>3
  <2>6. QED
    BY <2>4, <2>5, <2>1 DEF Acyclic
<1>6. Acyclic'
  BY <1>5 DEF Acyclic
<1>7. QED
  BY <1>2, <1>3, <1>6

LEMMA DeleteInv ==
    ASSUME TreeInv, NEW n \in Node, DeleteNode(n)
    PROVE  TreeInv'
<1> USE DEF TreeInv
<1>1. /\ UNCHANGED <<kind, parent, request>>
      /\ state' = [m \in Node |-> IF m \in Subtree(n) THEN "deleted" ELSE state[m]]
  BY DEF DeleteNode
<1>2. TreeTypeOK'
  BY <1>1 DEF TreeTypeOK
<1>3. \A m \in Subtree(n) : m \in Live
  <2>1. Closed(Live)
    BY DEF Closed
  <2>2. n \in Live /\ Live \subseteq Node
    BY DEF DeleteNode, Live
  <2>3. QED
    BY <2>1, <2>2 DEF Subtree
<1>4. ParentsAreDirectories' /\ RequestsAreNew'
  BY <1>1, <1>3 DEF ParentsAreDirectories, RequestsAreNew, Live
<1>5. Live' \subseteq Live
  BY <1>1 DEF Live
<1>6. QED
  BY <1>1, <1>2, <1>4, <1>5 DEF Acyclic

LEMMA TreeStep == TreeInv /\ [TreeNext]_treeVars => TreeInv'
<1> SUFFICES ASSUME TreeInv, [TreeNext]_treeVars
             PROVE  TreeInv'
  OBVIOUS
<1>1. CASE UNCHANGED treeVars
  BY <1>1 DEF TreeInv, treeVars, TreeTypeOK, ParentsAreDirectories,
     RequestsAreNew, Acyclic, Live
<1>2. CASE TreeNext
  BY <1>2, EnsureInv, MeasureInv, InsertInv, RequestEndsInv, UpdateInv,
     DeleteInv DEF TreeNext
<1>3. QED
  BY <1>1, <1>2

LEMMA TreeInvariance == TreeSpec => []TreeInv
  BY InitInv, TreeStep, PTL DEF TreeSpec

-----------------------------------------------------------------------------
(* The rows hold what the columns admit, whatever requests run.            *)
THEOREM TreeTypeCorrect == TreeSpec => []TreeTypeOK
<1>1. TreeInv => TreeTypeOK
  BY DEF TreeInv
<1>2. QED
  BY <1>1, TreeInvariance, PTL

(* No interleaving of moves, insertions and deletions closes a cycle: the  *)
(* recursive queries of the repository terminate.                          *)
THEOREM TreeIsAcyclic == TreeSpec => []Acyclic
<1>1. TreeInv => Acyclic
  BY DEF TreeInv
<1>2. QED
  BY <1>1, TreeInvariance, PTL

(* A node attached to the live tree stays attached while it lives.         *)
THEOREM AttachedNodesStay == TreeSpec => StaysAttached
<1>1. ASSUME TreeInv, TreeNext, NEW m \in Live \cap Live', HasLiveParent(m)
      PROVE  HasLiveParent(m)'
  <2> USE DEF TreeInv
  <2>1. m \in Node /\ state[m] = "live" /\ request[m] = "idle"
    BY <1>1 DEF Live, RequestsAreNew, TreeTypeOK
  <2>2. ASSUME NEW n \in Node, NEW k \in {"file", "directory"},
               NEW p \in Node \cup {Root}, EnsureDirectory(n, k, p)
        PROVE  HasLiveParent(m)'
    BY <2>1, <2>2, <1>1 DEF EnsureDirectory, HasLiveParent, Live, TreeTypeOK
  <2>3. ASSUME NEW n \in Node, MeasureDepth(n) \/ RequestEnds(n)
        PROVE  HasLiveParent(m)'
    BY <2>3, <1>1 DEF MeasureDepth, RequestEnds, HasLiveParent, Live
  <2>4. ASSUME NEW n \in Node, InsertNode(n)
        PROVE  HasLiveParent(m)'
    BY <2>4, <1>1 DEF InsertNode, HasLiveParent, Live, TreeTypeOK
  <2>5. ASSUME NEW n \in Node, NEW p \in Node \cup {Root}, UpdateNode(n, p)
        PROVE  HasLiveParent(m)'
    BY <2>5, <2>1, <1>1 DEF UpdateNode, IsDirectory, HasLiveParent, Live, TreeTypeOK
  <2>6. ASSUME NEW n \in Node, DeleteNode(n)
        PROVE  HasLiveParent(m)'
    <3>1. Closed(Subtree(n))
      BY SubtreeTop
    <3>2. m \notin Subtree(n)
      BY <2>6, <2>1, <1>1 DEF DeleteNode, Live
    <3>3. parent[m] \notin Subtree(n)
      BY <3>1, <3>2, <1>1 DEF Closed
    <3>4. QED
      BY <3>3, <2>6, <1>1 DEF DeleteNode, HasLiveParent, Live
  <2>7. QED
    BY <1>1, <2>2, <2>3, <2>4, <2>5, <2>6 DEF TreeNext
<1>2. TreeInv /\ [TreeNext]_treeVars => [Attached]_treeVars
  BY <1>1 DEF Attached
<1>3. QED
  BY <1>2, TreeInvariance, PTL DEF TreeSpec, StaysAttached

-----------------------------------------------------------------------------
(* What the depth of a node counts.                                        *)
Above(m) == {a \in Live : m \in Subtree(a)}

(* A directory is inserted at most one level below what was measured, and  *)
(* a move cannot carry what was measured beyond the limit.                 *)
DepthInv ==
    /\ \A m \in Live : kind[m] = "directory" => Depth(m) <= MaxDepth + 1
    /\ \A m \in Node : request[m] = "measured" => Depth(parent[m]) <= MaxDepth

(* A set that holds a and the live children of its members after a step    *)
(* holds the subtree of a after that step.                                 *)
LEMMA NextSubtree ==
    ASSUME NEW a \in Node, NEW S \in SUBSET Node, a \in S,
           \A x \in Live' : parent'[x] \in S => x \in S
    PROVE  \A m \in Subtree(a)' : m \in S
  BY DEF Subtree, Closed

LEMMA SubtreeNodes == \A a : \A m \in Subtree(a) : m \in Node
  BY DEF Subtree

(* Nothing is above the root of the project.                               *)
LEMMA RootDepth == Depth(Root) = 0 /\ Depth(Root)' = 0
<1>1. Above(Root) = {} /\ Above(Root)' = {}
  BY TreeAssumption DEF Above, Subtree
<1>2. QED
  BY <1>1, FS_EmptySet DEF Depth, Above

LEMMA AboveFinite ==
    \A m : /\ IsFiniteSet(Above(m)) /\ IsFiniteSet(Above(m)')
           /\ Depth(m) \in Nat /\ Depth(m)' \in Nat
<1> SUFFICES ASSUME NEW m
             PROVE  /\ IsFiniteSet(Above(m)) /\ IsFiniteSet(Above(m)')
                    /\ Depth(m) \in Nat /\ Depth(m)' \in Nat
  OBVIOUS
<1>1. Above(m) \in SUBSET Node /\ Above(m)' \in SUBSET Node
  BY DEF Above, Live
<1>2. IsFiniteSet(Above(m)) /\ IsFiniteSet(Above(m)')
  BY <1>1, FS_Subset, TreeAssumption
<1>3. QED
  BY <1>2, FS_CardinalityType DEF Depth, Above

(* With fewer nodes above it, a node is not deeper.                        *)
LEMMA DepthShrinks ==
    ASSUME NEW m, Above(m)' \subseteq Above(m)
    PROVE  Depth(m)' <= Depth(m)
<1>1. Above(m)' \in SUBSET Above(m) /\ IsFiniteSet(Above(m))
  BY AboveFinite
<1>2. Cardinality(Above(m)') <= Cardinality(Above(m))
  BY <1>1, FS_Subset
<1>3. QED
  BY <1>2 DEF Depth, Above

(* With one node more above it, a node is at most one level deeper.        *)
LEMMA DepthOfChild ==
    ASSUME NEW m, NEW n, NEW p, Above(m)' \subseteq {n} \cup Above(p)
    PROVE  Depth(m)' <= Depth(p) + 1
<1> DEFINE U == Above(p) \cup {n}
<1>1. IsFiniteSet(U) /\ Cardinality(U) <= Cardinality(Above(p)) + 1
  <2>1. IsFiniteSet(Above(p))
    BY AboveFinite
  <2>2. Cardinality(Above(p)) \in Nat
    BY <2>1, FS_CardinalityType
  <2>3. /\ IsFiniteSet(U)
        /\ Cardinality(U) = IF n \in Above(p) THEN Cardinality(Above(p))
                                             ELSE Cardinality(Above(p)) + 1
    BY <2>1, FS_AddElement, Zenon
  <2> HIDE DEF U
  <2>4. QED
    BY <2>2, <2>3
<1>2. Above(m)' \in SUBSET U
  OBVIOUS
<1>3. Cardinality(Above(m)') <= Cardinality(U)
  BY <1>1, <1>2, FS_Subset
<1> HIDE DEF U
<1>4. Cardinality(Above(m)') <= Cardinality(Above(p)) + 1
  BY <1>1, <1>3, AboveFinite, FS_CardinalityType
<1>5. QED
  BY <1>4 DEF Depth, Above

(* A node whose ancestors all change depends on two counts.                *)
LEMMA DepthOfMoved ==
    ASSUME NEW m, NEW n \in Node, NEW p,
           Above(m)' \subseteq {a \in Subtree(n) : m \in Subtree(a)} \cup Above(p)
    PROVE  Depth(m)' <= Depth(p) + Cardinality({a \in Subtree(n) : m \in Subtree(a)})
<1> DEFINE B == {a \in Subtree(n) : m \in Subtree(a)}
<1>1. IsFiniteSet(B)
  <2>1. B \in SUBSET Node
    BY SubtreeNodes
  <2>2. QED
    BY <2>1, FS_Subset, TreeAssumption
<1>2. IsFiniteSet(B \cup Above(p))
      /\ Cardinality(B \cup Above(p)) <= Cardinality(B) + Cardinality(Above(p))
  <2> HIDE DEF B
  <2>0. B \cap Above(p) \in SUBSET Above(p)
    OBVIOUS
  <2>1. /\ IsFiniteSet(B \cap Above(p))
        /\ Cardinality(B \cap Above(p)) \in Nat
        /\ Cardinality(B) \in Nat
        /\ Cardinality(Above(p)) \in Nat
    BY <1>1, <2>0, AboveFinite, FS_Subset, FS_CardinalityType
  <2>2. IsFiniteSet(Above(p))
    BY AboveFinite
  <2>3. /\ IsFiniteSet(B \cup Above(p))
        /\ Cardinality(B \cup Above(p)) =
             Cardinality(B) + Cardinality(Above(p)) - Cardinality(B \cap Above(p))
    BY <1>1, <2>2, FS_Union, Zenon
  <2>4. QED
    BY <2>1, <2>3
<1>3. Cardinality(Above(m)') <= Cardinality(B \cup Above(p))
  <2>1. Above(m)' \in SUBSET (B \cup Above(p))
    OBVIOUS
  <2> HIDE DEF B
  <2>2. QED
    BY <1>2, <2>1, FS_Subset
<1>4. Cardinality(Above(m)') <= Cardinality(B) + Cardinality(Above(p))
  <2> HIDE DEF B
  <2>1. QED
    BY <1>1, <1>2, <1>3, AboveFinite, FS_CardinalityType
<1>5. Cardinality(Above(p)) = Depth(p) /\ Cardinality(Above(m)') = Depth(m)'
  BY DEF Depth, Above
<1>6. Cardinality(B) \in Nat
  <2> HIDE DEF B
  <2>1. QED
    BY <1>1, FS_CardinalityType
<1>7. QED
  BY <1>4, <1>5, <1>6, AboveFinite

(* Subtrees are nested, and a node comes into one through its parent.      *)
LEMMA SubtreeNested ==
    ASSUME NEW n \in Node, NEW a \in Subtree(n)
    PROVE  \A m \in Subtree(a) : m \in Subtree(n)
<1>1. Closed(Subtree(n)) /\ Subtree(n) \in SUBSET Node
  BY SubtreeTop, SubtreeNodes
<1>2. QED
  BY <1>1 DEF Subtree

LEMMA SubtreeParent ==
    ASSUME NEW n \in Node, NEW x \in Subtree(n), x # n
    PROVE  parent[x] \in Subtree(n)
<1> SUFFICES ASSUME parent[x] \notin Subtree(n)
             PROVE  FALSE
  OBVIOUS
<1>1. Closed(Subtree(n)) /\ n \in Subtree(n)
  BY SubtreeTop
<1>2. Closed(Subtree(n) \ {x})
  BY <1>1 DEF Closed
<1>3. Subtree(n) \ {x} \in SUBSET Node
  BY SubtreeNodes
<1>4. x \in Subtree(n) \ {x}
  BY <1>1, <1>2, <1>3 DEF Subtree
<1>5. QED
  BY <1>4

(* Where rows only disappear, no node gets more ancestors.                 *)
LEMMA AboveShrinks ==
    ASSUME \A x \in Live' : x \in Live /\ parent'[x] = parent[x], NEW m
    PROVE  Above(m)' \subseteq Above(m)
<1>1. ASSUME NEW a \in Live, m \in Subtree(a)'
      PROVE  m \in Subtree(a)
  <2>1. a \in Node /\ Subtree(a) \in SUBSET Node
    BY SubtreeNodes DEF Live
  <2>2. a \in Subtree(a) /\ \A x \in Live' : parent'[x] \in Subtree(a) => x \in Subtree(a)
    BY <2>1, SubtreeTop DEF Closed
  <2>3. QED
    BY <2>1, <2>2, <1>1, NextSubtree
<1>2. QED
  BY <1>1 DEF Above

LEMMA DepthInit == TreeInit => DepthInv
  BY DEF TreeInit, DepthInv, Live

LEMMA DepthEnsure ==
    ASSUME TreeInv, DepthInv, NEW n \in Node, NEW k \in {"file", "directory"},
           NEW p \in Node \cup {Root}, EnsureDirectory(n, k, p)
    PROVE  DepthInv'
<1>1. /\ \A x \in Live' : x \in Live /\ parent'[x] = parent[x] /\ kind'[x] = kind[x]
      /\ \A m \in Node : request'[m] = "measured" =>
            request[m] = "measured" /\ parent'[m] = parent[m]
  BY DEF EnsureDirectory, TreeInv, TreeTypeOK, Live
<1>2. \A m : Depth(m)' <= Depth(m) /\ Depth(m) \in Nat /\ Depth(m)' \in Nat
  BY <1>1, AboveShrinks, DepthShrinks, AboveFinite
<1>3. QED
  BY <1>1, <1>2, TreeAssumption DEF DepthInv

LEMMA DepthMeasure ==
    ASSUME TreeInv, DepthInv, NEW n \in Node, MeasureDepth(n) \/ RequestEnds(n)
    PROVE  DepthInv'
<1>1. /\ UNCHANGED <<state, kind, parent>>
      /\ \A m \in Node : request'[m] = "measured" =>
            request[m] = "measured" \/ Depth(parent[m]) + 1 <= MaxDepth
  BY DEF MeasureDepth, RequestEnds, TreeInv, TreeTypeOK
<1>2. \A x \in Live' : x \in Live /\ parent'[x] = parent[x] /\ kind'[x] = kind[x]
  BY <1>1 DEF Live
<1>3. \A m : Depth(m)' <= Depth(m) /\ Depth(m) \in Nat /\ Depth(m)' \in Nat
  BY <1>2, AboveShrinks, DepthShrinks, AboveFinite
<1>4. QED
  BY <1>1, <1>2, <1>3, TreeAssumption DEF DepthInv

LEMMA DepthDelete ==
    ASSUME TreeInv, DepthInv, NEW n \in Node, DeleteNode(n)
    PROVE  DepthInv'
<1>1. /\ UNCHANGED <<kind, parent, request>>
      /\ \A x \in Live' : x \in Live
  BY DEF DeleteNode, Live
<1>2. \A m : Depth(m)' <= Depth(m) /\ Depth(m) \in Nat /\ Depth(m)' \in Nat
  BY <1>1, AboveShrinks, DepthShrinks, AboveFinite
<1>3. QED
  BY <1>1, <1>2, TreeAssumption DEF DepthInv

(* Nothing is below a row that is inserted: only its own depth is new.     *)
LEMMA DepthInsert ==
    ASSUME TreeInv, DepthInv, NEW n \in Node, InsertNode(n)
    PROVE  DepthInv'
<1>1. /\ request[n] # "idle"
      /\ state[n] = "none"
      /\ UNCHANGED <<kind, parent>>
      /\ state' = [state EXCEPT ![n] = "live"]
      /\ request' = [request EXCEPT ![n] = "idle"]
      /\ kind[n] = "directory" => request[n] = "measured"
  BY DEF InsertNode, TreeInv, TreeTypeOK, RequestsAreNew
<1>2. Live' = Live \cup {n} /\ n \notin Live
  BY <1>1 DEF Live, TreeInv, TreeTypeOK
<1>3. /\ \A x \in Live' : parent[x] # n
      /\ \A x \in Node : request[x] # "idle" => parent[x] # n
  BY <1>1, <1>2, TreeAssumption DEF TreeInv, ParentsAreDirectories, Live
<1>4. ASSUME NEW m, m \in Subtree(n)'
      PROVE  m = n
  <2>1. \A x \in Live' : parent'[x] \in {n} => x \in {n}
    BY <1>1, <1>3
  <2>2. m \in {n}
    BY <2>1, <1>4, NextSubtree
  <2>3. QED
    BY <2>2
<1>5. ASSUME NEW a \in Live, NEW m, m \in Subtree(a)', m # n
      PROVE  m \in Subtree(a)
  <2> DEFINE S == Subtree(a) \cup {n}
  <2>1. a \in Node /\ S \in SUBSET Node
    BY SubtreeNodes DEF Live
  <2>2. a \in S /\ \A x \in Live' : parent'[x] \in S => x \in S
    BY <2>1, <1>1, <1>2, <1>3, SubtreeTop DEF Closed
  <2> HIDE DEF S
  <2>3. m \in S
    BY <2>1, <2>2, <1>5, NextSubtree
  <2>4. QED
    BY <2>3, <1>5 DEF S
<1>6. ASSUME NEW a \in Live, n \in Subtree(a)'
      PROVE  parent[n] \in Subtree(a)
  <2> SUFFICES ASSUME parent[n] \notin Subtree(a)
               PROVE  FALSE
    OBVIOUS
  <2> DEFINE S == Subtree(a) \ {n}
  <2>1. a \in Node /\ a # n /\ S \in SUBSET Node
    BY <1>2, SubtreeNodes DEF Live
  <2>2. a \in S /\ \A x \in Live' : parent'[x] \in S => x \in S
    BY <2>1, <1>1, <1>2, SubtreeTop DEF Closed
  <2> HIDE DEF S
  <2>3. n \in S
    BY <2>1, <2>2, <1>6, NextSubtree
  <2>4. QED
    BY <2>3 DEF S
<1>7. ASSUME NEW m, m # n
      PROVE  Depth(m)' <= Depth(m)
  <2>1. Above(m)' \subseteq Above(m)
    BY <1>7, <1>2, <1>4, <1>5 DEF Above
  <2>2. QED
    BY <2>1, DepthShrinks
<1>8. Depth(n)' <= Depth(parent[n]) + 1
  <2>1. Above(n)' \subseteq {n} \cup Above(parent[n])
    BY <1>2, <1>6 DEF Above
  <2>2. QED
    BY <2>1, DepthOfChild
<1>9. ASSUME NEW m \in Live', kind'[m] = "directory"
      PROVE  Depth(m)' <= MaxDepth + 1
  <2>1. CASE m = n
    <3>1. Depth(parent[n]) <= MaxDepth /\ Depth(parent[n]) \in Nat /\ Depth(n)' \in Nat
      BY <2>1, <1>1, <1>9, AboveFinite DEF DepthInv
    <3>2. QED
      BY <2>1, <3>1, <1>8, TreeAssumption
  <2>2. CASE m # n
    <3>1. Depth(m) <= MaxDepth + 1 /\ Depth(m) \in Nat /\ Depth(m)' \in Nat
      BY <2>2, <1>1, <1>2, <1>9, AboveFinite DEF DepthInv
    <3>2. QED
      BY <2>2, <3>1, <1>7, TreeAssumption
  <2>3. QED
    BY <2>1, <2>2
<1>10. ASSUME NEW m \in Node, request'[m] = "measured"
       PROVE  Depth(parent[m])' <= MaxDepth
  <2>1. m # n /\ request[m] = "measured" /\ parent[m] # n
    BY <1>1, <1>3, <1>10 DEF TreeInv, TreeTypeOK
  <2>2. PICK q : q = parent[m] /\ q = parent'[m]
    BY <1>1
  <2>3. /\ Depth(q) <= MaxDepth
        /\ Depth(q) \in Nat
        /\ Depth(q)' \in Nat
    BY <2>1, <2>2, AboveFinite DEF DepthInv
  <2>4. Depth(q)' <= Depth(q)
    BY <2>1, <2>2, <1>7
  <2>5. Depth(q)' <= MaxDepth
    BY <2>3, <2>4, TreeAssumption
  <2>6. QED
    BY <2>2, <2>5
<1>11. QED
  BY <1>9, <1>10 DEF DepthInv

(* What is below the moved node has been counted by Fits; what is not      *)
(* keeps the ancestors it had, or loses some.                              *)
LEMMA DepthUpdate ==
    ASSUME TreeInv, DepthInv, NEW n \in Node, NEW p \in Node \cup {Root},
           UpdateNode(n, p)
    PROVE  DepthInv'
<1>1. /\ n \in Live
      /\ UNCHANGED <<state, kind, request>>
      /\ Live' = Live
      /\ parent'[n] = p
      /\ \A x \in Node : x # n => parent'[x] = parent[x]
      /\ Fits(n, p)
  BY DEF UpdateNode, Live, TreeInv, TreeTypeOK
<1>2. p \notin Subtree(n)
  <2>1. CASE kind[n] = "directory"
    BY <2>1 DEF UpdateNode
  <2>2. CASE kind[n] # "directory"
    <3>1. \A m \in Live : parent[m] # n
      BY <2>2, TreeAssumption DEF TreeInv, ParentsAreDirectories, Live
    <3>2. QED
      BY <3>1, LeafSubtree DEF UpdateNode
  <2>3. QED
    BY <2>1, <2>2
<1>3. ASSUME NEW a \in Live, NEW m, m \in Subtree(a)', m \notin Subtree(n)
      PROVE  m \in Subtree(a)
  <2> DEFINE S == Subtree(a) \cup Subtree(n)
  <2>1. a \in Node /\ S \in SUBSET Node
    BY SubtreeNodes DEF Live
  <2>2. a \in S /\ \A x \in Live' : parent'[x] \in S => x \in S
    BY <2>1, <1>1, SubtreeTop DEF Closed, Live
  <2> HIDE DEF S
  <2>3. m \in S
    BY <2>1, <2>2, <1>3, NextSubtree
  <2>4. QED
    BY <2>3, <1>3 DEF S
<1>4. ASSUME NEW a \in Live, NEW m, m \in Subtree(a)', a \in Subtree(n)
      PROVE  m \in Subtree(a)
  <2>1. a \in Node /\ Subtree(a) \in SUBSET Node /\ p \notin Subtree(a)
    BY <1>2, <1>4, SubtreeNodes, SubtreeNested
  <2>2. a \in Subtree(a) /\ \A x \in Live' : parent'[x] \in Subtree(a) => x \in Subtree(a)
    BY <2>1, <1>1, SubtreeTop DEF Closed, Live
  <2>3. QED
    BY <2>1, <2>2, <1>4, NextSubtree
<1>5. ASSUME NEW a \in Live, NEW m \in Subtree(n), m \in Subtree(a)', a \notin Subtree(n)
      PROVE  p \in Subtree(a)
  <2> SUFFICES ASSUME p \notin Subtree(a)
               PROVE  FALSE
    OBVIOUS
  <2> DEFINE S == Subtree(a) \ Subtree(n)
  <2>1. a \in Node /\ a \in S /\ S \in SUBSET Node
    BY <1>5, SubtreeNodes, SubtreeTop DEF Live
  <2>2. ASSUME NEW x \in Live', parent'[x] \in S
        PROVE  x \in S
    <3>1. x \in Live /\ x \in Node /\ x # n /\ parent[x] \in S
      BY <2>2, <1>1 DEF Live
    <3>2. x \in Subtree(a)
      BY <3>1, <2>1, SubtreeTop DEF Closed
    <3>3. x \notin Subtree(n)
      BY <3>1, SubtreeParent
    <3>4. QED
      BY <3>2, <3>3
  <2> HIDE DEF S
  <2>3. m \in S
    BY <2>1, <2>2, <1>5, NextSubtree
  <2>4. QED
    BY <2>3, <1>5 DEF S
<1>6. ASSUME NEW m, m \notin Subtree(n)
      PROVE  Depth(m)' <= Depth(m)
  <2>1. Above(m)' \subseteq Above(m)
    BY <1>6, <1>1, <1>3 DEF Above
  <2>2. QED
    BY <2>1, DepthShrinks
<1>7. ASSUME NEW m \in Subtree(n)
      PROVE  Depth(m)' <= MaxDepth
  <2> DEFINE B == {a \in Subtree(n) : m \in Subtree(a)}
  <2>1. Above(m)' \subseteq B \cup Above(p)
    BY <1>7, <1>1, <1>4, <1>5 DEF Above
  <2>2. Depth(m)' <= Depth(p) + Cardinality(B)
    BY <2>1, DepthOfMoved
  <2>3. Depth(p) + Cardinality(B) <= MaxDepth
    BY <1>1, <1>7 DEF Fits
  <2>4. B \in SUBSET Node
    BY SubtreeNodes
  <2> HIDE DEF B
  <2>5. Cardinality(B) \in Nat /\ Depth(p) \in Nat /\ Depth(m)' \in Nat
    BY <2>4, AboveFinite, FS_Subset, FS_CardinalityType, TreeAssumption
  <2>6. QED
    BY <2>2, <2>3, <2>5, TreeAssumption
<1>8. ASSUME NEW m \in Live', kind'[m] = "directory"
      PROVE  Depth(m)' <= MaxDepth + 1
  <2>1. Depth(m) <= MaxDepth + 1 /\ Depth(m) \in Nat /\ Depth(m)' \in Nat
    BY <1>1, <1>8, AboveFinite DEF DepthInv
  <2>2. QED
    BY <2>1, <1>6, <1>7, TreeAssumption
<1>9. ASSUME NEW m \in Node, request'[m] = "measured"
      PROVE  Depth(parent[m])' <= MaxDepth
  <2>1. request[m] = "measured" /\ m # n
    BY <1>1, <1>9 DEF TreeInv, RequestsAreNew, Live
  <2>2. PICK q : q = parent[m] /\ q = parent'[m]
    BY <2>1, <1>1
  <2>3. /\ Depth(q) <= MaxDepth
        /\ Depth(q) \in Nat
        /\ Depth(q)' \in Nat
    BY <2>1, <2>2, AboveFinite DEF DepthInv
  <2>4. Depth(q)' <= MaxDepth
    <3>1. CASE q \in Subtree(n)
      BY <3>1, <1>7
    <3>2. CASE q \notin Subtree(n)
      BY <3>2, <2>3, <1>6, TreeAssumption
    <3>3. QED
      BY <3>1, <3>2
  <2>5. QED
    BY <2>2, <2>4
<1>10. QED
  BY <1>8, <1>9 DEF DepthInv

LEMMA DepthStep == TreeInv /\ DepthInv /\ [TreeNext]_treeVars => DepthInv'
<1> SUFFICES ASSUME TreeInv, DepthInv, [TreeNext]_treeVars
             PROVE  DepthInv'
  OBVIOUS
<1>1. CASE UNCHANGED treeVars
  <2>1. \A m : Depth(m)' = Depth(m)
    BY <1>1 DEF treeVars, Depth, Live, Subtree, Closed
  <2>2. Live' = Live /\ kind' = kind /\ parent' = parent /\ request' = request
    BY <1>1 DEF treeVars, Live
  <2>3. QED
    BY <2>1, <2>2 DEF DepthInv
<1>2. CASE TreeNext
  BY <1>2, DepthEnsure, DepthMeasure, DepthInsert, DepthUpdate, DepthDelete
     DEF TreeNext
<1>3. QED
  BY <1>1, <1>2

(* However requests race with moves, no directory is more than one level   *)
(* deeper than the limit of CreateDirectory and UpdateNode.                *)
THEOREM TreeDepthIsBounded == TreeSpec => []DepthBounded
<1>1. DepthInv => DepthBounded
  BY DEF DepthInv, DepthBounded
<1>2. QED
  BY <1>1, DepthInit, DepthStep, TreeInvariance, PTL DEF TreeSpec
=============================================================================
