--------------------------- MODULE RouteHandler ---------------------------
(***************************************************************************)
(* routine::http::RouteHandler (include/http/route_handler.hpp): handlers  *)
(* without a brace in their path in a map from whole paths, the others in  *)
(* a tree of path parts, where a part that begins with a brace is a        *)
(* parameter.  add_handler<T>() fills both, route() searches the map and   *)
(* then the tree, without backtracking.                                    *)
(*                                                                         *)
(* A path is the sequence of its non-empty parts, which is what            *)
(* utils::split_string and utils::format_path make of it.  A node of the   *)
(* tree is the sequence of the keys that lead to it.                       *)
(***************************************************************************)
EXTENDS Naturals, Sequences

CONSTANTS
  Literals,     \* path parts that do not begin with a brace
  Braced,       \* those of them with a brace further on
  Params,       \* path parts like {argument}
  Paths,        \* the T::path of the handler types
  Targets,      \* the path parts of the requests
  MaxAdds,      \* bound on the calls of add_handler
  None          \* nullptr

ASSUME RouteAssumption ==
  /\ Literals \cap Params = {} /\ Braced \subseteq Literals
  /\ Paths \subseteq Seq(Literals \cup Params)
  /\ Targets \subseteq Seq(Literals \cup Params)
  /\ MaxAdds \in Nat
  /\ None \notin Nat /\ None \notin Seq(Literals \cup Params)

VARIABLES
  static,       \* static_handlers_: path -> handler
  nodes,        \* the nodes of dynamic_handlers_, its root included
  resource,     \* resource of the nodes that have one: node -> handler
  added,        \* the path of each handler added so far, by its number
  thrown        \* the last add_handler() threw

vars == <<static, nodes, resource, added, thrown>>

Handlers == 1 .. MaxAdds

TypeOK ==
  /\ DOMAIN static \subseteq Paths
  /\ \A p \in DOMAIN static : static[p] \in Handlers
  /\ nodes \subseteq Seq(Literals \cup Params) /\ <<>> \in nodes
  /\ DOMAIN resource \subseteq nodes
  /\ \A n \in DOMAIN resource : resource[n] \in Handlers
  /\ added \in Seq(Paths) /\ Len(added) <= MaxAdds
  /\ thrown \in BOOLEAN

\* f with k mapped to v.
Assign(f, k, v) == [x \in DOMAIN f \cup {k} |-> IF x = k THEN v ELSE f[x]]

Init ==
  /\ static   = <<>>
  /\ nodes    = {<<>>}
  /\ resource = <<>>
  /\ added    = <<>>
  /\ thrown   = FALSE

-----------------------------------------------------------------------------
(* add_handler<T>().                                                       *)

\* T::path has a brace somewhere.
IsDynamic(path) == \E k \in DOMAIN path : path[k] \in Params \cup Braced

Prefix(path, k) == SubSeq(path, 1, k)

\* The parameters among the keys of a node.
ParamKeys(node) == {x \in Params : Append(node, x) \in nodes}

\* The key at position k is a parameter, and its level has another one.
Conflict(path, k) ==
  /\ path[k] \in Params
  /\ ParamKeys(Prefix(path, k - 1)) \ {path[k]} # {}

\* A handler without a brace replaces the one with the same path.
AddStatic(path) ==
  /\ ~IsDynamic(path) /\ Len(added) < MaxAdds
  /\ added' = Append(added, path)
  /\ static' = Assign(static, path, Len(added'))
  /\ thrown' = FALSE
  /\ UNCHANGED <<nodes, resource>>

\* Mutant: the resource is set only where there is none.
AddFirstOnly(path) ==
  /\ IsDynamic(path) /\ Len(added) < MaxAdds
  /\ \A k \in DOMAIN path : ~Conflict(path, k)
  /\ added' = Append(added, path)
  /\ nodes' = nodes \cup {Prefix(path, k) : k \in DOMAIN path}
  /\ resource' = IF path \in DOMAIN resource THEN resource
                 ELSE Assign(resource, path, Len(added'))
  /\ thrown' = FALSE
  /\ UNCHANGED static

\* Mutant: the conflict is looked for at the root only.
AddUnchecked(path) ==
  /\ IsDynamic(path) /\ Len(added) < MaxAdds
  /\ ~Conflict(path, 1)
  /\ added' = Append(added, path)
  /\ nodes' = nodes \cup {Prefix(path, k) : k \in DOMAIN path}
  /\ resource' = Assign(resource, path, Len(added'))
  /\ thrown' = FALSE
  /\ UNCHANGED static

\* Mutant: the resource goes to the last node but one.
AddToParent(path) ==
  /\ IsDynamic(path) /\ Len(added) < MaxAdds
  /\ \A k \in DOMAIN path : ~Conflict(path, k)
  /\ added' = Append(added, path)
  /\ nodes' = nodes \cup {Prefix(path, k) : k \in DOMAIN path}
  /\ resource' = Assign(resource, Prefix(path, Len(path) - 1), Len(added'))
  /\ thrown' = FALSE
  /\ UNCHANGED static

\* Every level has no parameter or the same one.
AddDynamic(path) ==
  /\ IsDynamic(path) /\ Len(added) < MaxAdds
  /\ \A k \in DOMAIN path : ~Conflict(path, k)
  /\ added' = Append(added, path)
  /\ nodes' = nodes \cup {Prefix(path, k) : k \in DOMAIN path}
  /\ resource' = Assign(resource, path, Len(added'))
  /\ thrown' = FALSE
  /\ UNCHANGED static

\* Mutant: nodes[key] creates the node before the level is checked.
ThrowTooLate(path) ==
  /\ IsDynamic(path)
  /\ \E k \in DOMAIN path :
       /\ Conflict(path, k) /\ \A j \in 1 .. k - 1 : ~Conflict(path, j)
       /\ nodes' = nodes \cup {Prefix(path, j) : j \in 1 .. k}
  /\ thrown' = TRUE
  /\ UNCHANGED <<static, resource, added>>

\* Mutant: the conflict is logged, and the resource set without its node.
ConflictLogged(path) ==
  /\ IsDynamic(path) /\ Len(added) < MaxAdds
  /\ \E k \in DOMAIN path : Conflict(path, k)
  /\ added' = Append(added, path)
  /\ resource' = Assign(resource, path, Len(added'))
  /\ thrown' = FALSE
  /\ UNCHANGED <<static, nodes>>

\* A level has another parameter: the nodes above it are made, then the
\* exception leaves the function.
AddThrows(path) ==
  /\ IsDynamic(path)
  /\ \E k \in DOMAIN path :
       /\ Conflict(path, k) /\ \A j \in 1 .. k - 1 : ~Conflict(path, j)
       /\ nodes' = nodes \cup {Prefix(path, j) : j \in 1 .. k - 1}
  /\ thrown' = TRUE
  /\ UNCHANGED <<static, resource, added>>

Next == \E path \in Paths :
  AddStatic(path) \/ AddDynamic(path) \/ AddThrows(path)

Spec == Init /\ [][Next]_vars

-----------------------------------------------------------------------------
(* route().  A request is the parts of its path, and whether it came with  *)
(* a query: Request::Request() formats the path only if it did not.        *)

Requests == [parts : Targets, query : BOOLEAN]

\* Mutant: a parameter of the level is preferred to the key itself.
ParamFirst(node, key) ==
  IF ParamKeys(node) # {} THEN Append(node, CHOOSE x \in ParamKeys(node) : TRUE)
  ELSE IF Append(node, key) \in nodes THEN Append(node, key) ELSE None

\* The key itself, or else the parameter of the level.
Child(node, key) ==
  IF Append(node, key) \in nodes THEN Append(node, key)
  ELSE IF ParamKeys(node) # {}
         THEN Append(node, CHOOSE x \in ParamKeys(node) : TRUE)
         ELSE None

\* The nodes that the first parts of a request lead to, one after the other.
Walk(parts) ==
  LET walk[k \in 0 .. Len(parts)] ==
        IF k = 0 THEN <<>>
        ELSE IF walk[k - 1] = None THEN None
        ELSE Child(walk[k - 1], parts[k])
  IN walk

\* The node that all the parts lead to.
FindNode(parts) == Walk(parts)[Len(parts)]

\* A path that kept its first '/' is no key of static_handlers_.
StaticHit(req) == ~req.query /\ req.parts \in DOMAIN static

Route(req) ==
  IF StaticHit(req) THEN static[req.parts]
  ELSE IF FindNode(req.parts) \in DOMAIN resource
         THEN resource[FindNode(req.parts)]
         ELSE None

-----------------------------------------------------------------------------
(* Properties.                                                             *)

(* A level of the tree never has two parameters, whatever is added in      *)
(* whatever order: route() takes the first one an unordered_map yields,    *)
(* and nothing else makes that choice unique (route_handler.hpp:55-66).    *)
OneParameterPerLevel ==
  \A n \in nodes : \A x, y \in ParamKeys(n) : x = y

Matches(path, parts) ==
  /\ Len(path) = Len(parts)
  /\ \A k \in DOMAIN path : path[k] \in Params \/ path[k] = parts[k]

(* A request only reaches a handler whose path it matches, and a static    *)
(* handler goes before a dynamic one (route_handler.hpp:77-103).           *)
RoutesMatch ==
  \A req \in Requests : Route(req) # None =>
    /\ Matches(added[Route(req)], req.parts)
    /\ StaticHit(req) => ~IsDynamic(added[Route(req)])

\* Handler h is the last one added with its path.
Latest(h) == \A g \in h + 1 .. Len(added) : added[g] # added[h]

\* No key of the tree stands where parts has a value for a parameter of path.
NothingShadows(path, parts) ==
  \A k \in DOMAIN path : path[k] \in Params =>
    Append(Prefix(path, k - 1), parts[k]) \notin nodes

(* The handler added last for a path is reached by the requests that       *)
(* match it, unless a value of a parameter is itself a key of the tree:    *)
(* then the search goes down there and does not come back.  A static       *)
(* handler is not reached with a query, a dynamic one yields to a static   *)
(* one (route_handler.hpp:78-102, request.cpp:17-22).                      *)
LatestIsReached ==
  \A h \in DOMAIN added : Latest(h) => \A req \in Requests :
    IF IsDynamic(added[h])
      THEN /\ Matches(added[h], req.parts)
           /\ NothingShadows(added[h], req.parts)
           /\ ~StaticHit(req)
           => Route(req) = h
      ELSE req = [parts |-> added[h], query |-> FALSE] => Route(req) = h

(* An add_handler() that throws has changed nothing, although it creates   *)
(* nodes before it meets the conflict: those were there already            *)
(* (route_handler.hpp:53-68).                                              *)
ThrowChangesNothing ==
  [][thrown' => UNCHANGED <<static, nodes, resource>>]_vars

=============================================================================
