-------------------------- MODULE MCRouteHandler --------------------------
(* Model checking of RouteHandler: all paths of at most three parts over a  *)
(* small alphabet, and requests with a part that no path has.               *)
EXTENDS RouteHandler

SeqsUpTo(S, n) == UNION {[1 .. k -> S] : k \in 0 .. n}

Fresh == "value"

\* Every path of two parts, and the deeper ones that can conflict with them.
MCPaths ==
  SeqsUpTo((Literals \ {Fresh}) \cup Params, 2)
    \cup {<<l, x, m>> : l, m \in Literals \ {Fresh}, x \in Params}

MCTargets == SeqsUpTo(Literals, 3)

=============================================================================
