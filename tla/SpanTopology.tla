---------------------------- MODULE SpanTopology ----------------------------
(***************************************************************************)
(* The tree of spans of one trace revision: depths, the stable order and   *)
(* the pages a reader is given.  A topology is the function from each span *)
(* to its parent: NoParent, a span of the revision or one that never       *)
(* arrived.  Spans are numbered by start time, so their order is < .       *)
(***************************************************************************)
EXTENDS Integers, FiniteSets, FiniteSetsExt, Sequences, SequencesExt

CONSTANTS Spans, NoParent, Missing

Topologies(S) == [S -> S \cup {NoParent, Missing}]

(* The spans of S in the order of their start times.                       *)
InOrder(S) ==
  [k \in 1..Cardinality(S) |-> CHOOSE s \in S : Cardinality({t \in S : t <= s}) = k]

(* The entries of `new`, and those of `old` that it does not replace.      *)
Over(new, old) ==
  [x \in DOMAIN new \cup DOMAIN old |-> IF x \in DOMAIN new THEN new[x] ELSE old[x]]

-----------------------------------------------------------------------------
(* Depths.                                                                 *)

(* The k-th span on the way from `id` up to a root, k up to one more than  *)
(* there are spans: within that a chain ends or comes back to itself.      *)
Chain(f, id) ==
  LET up[k \in 0..Cardinality(DOMAIN f)] ==
        IF k = 0 THEN id
        ELSE IF up[k - 1] \in DOMAIN f THEN f[up[k - 1]] ELSE NoParent
  IN up

(* How many steps the walk takes before it meets a resolved span, leaves   *)
(* the revision or repeats itself.                                         *)
WalkLength(f, resolved, up) ==
  Min({k \in DOMAIN up : \/ up[k] \notin DOMAIN f
                         \/ up[k] \in DOMAIN resolved
                         \/ \E j \in 0..(k - 1) : up[j] = up[k]})

(* One span resolved on top of what was resolved before.  Every span on a  *)
(* walk into a cycle is put at the root, so the result depends on which    *)
(* span is resolved first.                                                 *)
Resolve(f, resolved, id) ==
  LET up == Chain(f, id)
      n == WalkLength(f, resolved, up)
      walk == {up[j] : j \in 0..(n - 1)}
      position(s) == CHOOSE j \in 0..(n - 1) : up[j] = s
      base == IF up[n] \in DOMAIN resolved THEN resolved[up[n]] + 1 ELSE 0
  IN IF id \in DOMAIN resolved \/ id \notin DOMAIN f THEN resolved
     ELSE IF up[n] \in walk
     THEN Over(resolved, [s \in walk |-> 0])
     ELSE Over(resolved, [s \in walk |-> base + (n - 1) - position(s)])

(* The spans of `order` resolved one after another.                        *)
Resolved(f, resolved, order) ==
  LET after[k \in 0..Len(order)] ==
        IF k = 0 THEN resolved ELSE Resolve(f, after[k - 1], order[k])
  IN after

ResolveAll(f, resolved, order) == Resolved(f, resolved, order)[Len(order)]

(* topology_layout.                                                        *)
Layout(f) == ResolveAll(f, <<>>, InOrder(DOMAIN f))

-----------------------------------------------------------------------------
(* The persisted projection.                                               *)

(* A child of its parent in the projected tree; inside a cycle and at its  *)
(* edge nothing is a child.                                                *)
HasValidParent(f, depths, s) == f[s] \in DOMAIN f /\ depths[s] = depths[f[s]] + 1

ChildrenIn(f, depths, p) == InOrder({s \in DOMAIN f : HasValidParent(f, depths, s) /\ f[s] = p})

Roots(f, depths) == InOrder({s \in DOMAIN f : ~HasValidParent(f, depths, s)})

(* One turn of the walk, depth first: what was visited, and the stack with *)
(* its top in front.                                                       *)
Turn(f, depths, t) ==
  IF t.stack = <<>> THEN t
  ELSE IF Head(t.stack) \in ToSet(t.visited) THEN [t EXCEPT !.stack = Tail(@)]
  ELSE [visited |-> Append(t.visited, Head(t.stack)),
        stack |-> ChildrenIn(f, depths, Head(t.stack)) \o Tail(t.stack)]

Turns(f, depths) ==
  LET turn[n \in 0..Cardinality(DOMAIN f)] ==
        IF n = 0 THEN [visited |-> <<>>, stack |-> Roots(f, depths)]
        ELSE Turn(f, depths, turn[n - 1])
  IN turn

(* Spans the walk missed come last.                                        *)
DepthFirst(f, depths) ==
  LET visited == Turns(f, depths)[Cardinality(DOMAIN f)].visited
  IN visited \o InOrder(DOMAIN f \ ToSet(visited))

(* build_topology_projection: the rows in their order.                     *)
Projection(f) ==
  LET depths == Layout(f)
      order == DepthFirst(f, depths)
  IN [k \in DOMAIN order |->
        [span |-> order[k], order |-> k, depth |-> depths[order[k]],
         children |-> ChildrenIn(f, depths, order[k]) # <<>>]]

(* The columns that the rows leave on the spans.                           *)
Columns(f) ==
  LET rows == Projection(f)
  IN [s \in DOMAIN f |-> rows[CHOOSE k \in DOMAIN rows : rows[k].span = s]]

-----------------------------------------------------------------------------
(* The pages of span_tree_page, from the persisted columns.                *)

RootPage(f, column) == {s \in DOMAIN f : column[s].depth = 0}
ChildPage(f, column, p) == {s \in DOMAIN f : f[s] = p /\ column[s].depth > 0}

(* Whoever opens the persisted tree from its roots sees every span exactly *)
(* once, also those of cycles and below a missing parent; the marker for   *)
(* children tells the truth, and the stored order lists every child within *)
(* the block that follows its parent, before any span that is not below.   *)
TreeIsComplete(f, column) ==
  LET pages == {RootPage(f, column)} \cup {ChildPage(f, column, p) : p \in DOMAIN f}
  IN /\ {column[s].order : s \in DOMAIN f} = 1..Cardinality(DOMAIN f)
     /\ UNION pages = DOMAIN f
     /\ \A s \in DOMAIN f : column[s].depth > 0 =>
          f[s] \in DOMAIN f /\ column[f[s]].depth = column[s].depth - 1
     /\ \A p \in DOMAIN f : column[p].children <=> ChildPage(f, column, p) # {}
     /\ \A p \in DOMAIN f : \A s \in ChildPage(f, column, p) :
          /\ column[p].order < column[s].order
          /\ \A x \in DOMAIN f : column[x].order \in column[p].order + 1 .. column[s].order
               => column[x].depth > column[p].depth

=============================================================================
