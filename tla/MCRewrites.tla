----------------------------- MODULE MCRewrites -----------------------------
(* TLC instance of Rewrites: one thread under every small rule, two threads *)
(* under chosen pairs of rules, and connections under port rules.           *)
EXTENDS Rewrites, SequencesExt

CONSTANTS t1, t2

Letters == {"a", "b"}
Chars == Letters \cup {"/"}
Texts(n) == BoundedSeq(Letters, n)

(* Items are a token and its sign; groups are disjoint intervals of items.  *)
Items == {One({"a"}), One(Letters)} \X {"", "*", "+", "?"}
Groupings(n) ==
  {G \in SUBSET {g \in (1..n) \X (1..n) : g[1] <= g[2]} :
     \A g, h \in G : g = h \/ g[2] < h[1] \/ h[2] < g[1]}
Pattern(items, G) ==
  FlattenSeq([i \in 1..Len(items) |->
    (IF \E g \in G : g[1] = i THEN <<Sign("(")>> ELSE <<>>)
      \o <<items[i][1]>>
      \o (IF items[i][2] = "" THEN <<>> ELSE <<Sign(items[i][2])>>)
      \o (IF \E g \in G : g[2] = i THEN <<Sign(")")>> ELSE <<>>)])
Patterns ==
  UNION {{Pattern(items, G) : items \in [1..n -> Items], G \in Groupings(n)} : n \in 1..2}
    \cup {Pattern(items, G) : items \in Items \X Items \X {<<One({"a"}), "">>, <<One(Letters), "*">>},
                              G \in Groupings(3)}

(* "/$1$0$", and whatever follows the last sign is dropped. *)
Slashed == <<Lit("/"), Ref(1), Ref(0), Dropped>>

OneRule ==
  {[urls |-> <<[from |-> p, to |-> Slashed]>>, ports |-> <<>>,
    texts |-> Texts(3), addrs |-> {}, callers |-> {t1}] : p \in Patterns}

\* A rule that is settled, and one that opens its second group again.
A == One({"a"})
AB == One(Letters)
Two == <<[from |-> <<Sign("("), A, Sign("*"), Sign(")"), One({"b"}), Sign("("), AB, Sign(")")>>,
          to |-> <<Ref(1), Ref(0)>>],
         [from |-> <<Sign("("), AB, Sign("*"), Sign(")"), A, Sign("("), AB, Sign(")")>>,
          to |-> <<Ref(1), Lit("/"), Ref(0)>>]>>
TwoThreads ==
  {[urls |-> Two, ports |-> <<>>, texts |-> Texts(2) \cup {<<"b", "a", "a">>},
    addrs |-> {}, callers |-> {t1, t2}]}

PortSetups ==
  {[urls |-> <<>>,
    ports |-> <<[from |-> 1, to |-> 2], [from |-> 3, to |-> 1], [from |-> 1, to |-> 3]>>,
    texts |-> {}, addrs |-> {[ip |-> "far", port |-> n] : n \in 1..3}, callers |-> {t1, t2}]}

AllSetups == OneRule \cup TwoThreads \cup PortSetups
=============================================================================
