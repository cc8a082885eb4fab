------------------------------ MODULE MCMatcher ------------------------------
(***************************************************************************)
(* The model checked for Matcher: recipes of the kinds the content has, on *)
(* every arrangement of up to three cards on a root.                       *)
(***************************************************************************)
EXTENDS Matcher, TLC

CONSTANTS C1, C2, C3, Axe1, Twig, Soul, NoSoul,
          Corpus, Dust, Axe,   \* definitions
          Wood, Lit            \* aspects

Is(slot, attr) == [slot |-> slot, attr |-> attr, op |-> "ge"]
IsNot(slot, attr) == [slot |-> slot, attr |-> attr, op |-> "lt"]
AllOf(reads) == [any |-> FALSE, reads |-> reads]
AnyOf(reads) == [any |-> TRUE, reads |-> reads]
S(b, o) == <<<<b, o>>>>
Owned(b, o, b2, o2) == <<<<b, o>>, <<b2, o2>>>>

CorpusBTop == <<AllOf({Is(S(2, 0), Corpus)}), AllOf({Is(S(2, 1), Corpus)})>>
TripleCorpus == CorpusBTop \o <<AllOf({Is(S(2, 2), Corpus)})>>
CorpusDust == <<AllOf({Is(S(0, 0), Corpus)}), AllOf({Is(S(2, 0), Dust)})>>
CutTree == <<AllOf({Is(S(1, 0), Wood)}), AllOf({Is(S(2, 0), Lit)}),
             AllOf({Is(Owned(2, 0, 2, 0), Axe)})>>
Kindle == <<AnyOf({Is(S(2, 0), Lit), Is(S(2, 0), Wood)}), AllOf({Is(S(3, 0), Dust)})>>
Damp == <<AllOf({Is(S(3, 0), Dust), IsNot(S(3, 0), Wood)})>>
MCRecipes == <<CorpusBTop, TripleCorpus, CorpusDust, CutTree, Kindle, Damp>>
\* Two cards in one line.
Pile == <<AllOf({Is(S(2, 0), Corpus), Is(S(2, 1), Corpus)})>>
PileRecipes == <<CorpusDust, Pile>>
\* A root-anchored recipe that looks into the chain of the root's owner.
RootedRecipes == <<<<AllOf({Is(S(0, 0), Corpus)}), AllOf({Is(Owned(0, 0, 2, 0), Axe)})>>>>

Order == <<C1, C2, C3>>
Lengths == {l \in (0 .. 1) \X (0 .. 3) \X (0 .. 3) : l[1] + l[2] + l[3] <= 3}
Stacks == {<<SubSeq(Order, 1, l[1]), SubSeq(Order, l[1] + 1, l[1] + l[2]),
             SubSeq(Order, l[1] + l[2] + 1, l[1] + l[2] + l[3])>> : l \in Lengths}
Kinds == {{Corpus, Lit}, {Dust}, {Dust, Wood}}
Tools == (Axe1 :> {Axe}) @@ (Twig :> {Wood})
Owners == [c \in Member |-> IF c \in {C2, Root} THEN Soul ELSE IF c = C1 THEN NoSoul ELSE NoOwner]
Chains == (Soul :> <<<<>>, <<Axe1>>, <<>>>>) @@ (NoSoul :> <<<<>>, <<Twig, Axe1>>, <<>>>>)

Scene(stack, kinds, root, tile) ==
  [stack |-> stack, has |-> (Root :> root) @@ kinds @@ Tools, tile |-> tile, owner |-> Owners]
Moments == {Scene(s, k, r, t) : s \in Stacks, k \in [Stackable -> Kinds],
                                 r \in {{Corpus, Lit}, {Dust}}, t \in {NoTile, {Wood}}}
\* What became of the zone after the viewer left it.
Later == {Scene(<<<<>>, Order, <<>>>>, [c \in Stackable |-> {Corpus, Lit}], {Dust}, NoTile),
          Scene(<<<<C1>>, <<>>, <<C2>>>>, [c \in Stackable |-> {Dust}], {Corpus, Lit}, {Wood})}
Situation(knows, was, is, held) ==
  [knows |-> knows, was |-> was, is |-> is, held |-> held, chain |-> Chains]
MCWorlds == {Situation("present", m, m, h) : m \in Moments, h \in {{}, {C1}, {C2}, {Axe1}}}
            \cup {Situation("present", m, m, {Root}) : m \in {m \in Moments : m.tile = NoTile}}
            \cup {Situation("frozen", m, l, h) : m \in Moments, l \in Later, h \in {{}, {C2}}}
            \cup {Situation("unknown", m, m, {}) : m \in Later}
=============================================================================
