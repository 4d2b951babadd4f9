------------------------------ MODULE SetFacts ------------------------------
(***************************************************************************)
(* What the proofs use of sets, as formulas.  The lemmas on the steps of a *)
(* component assume them; they are proved from the library's theorems on   *)
(* finite sets and well-founded orders where the component's theorems are. *)
(***************************************************************************)
EXTENDS Integers, FiniteSets

\* The empty set is finite, and the only finite set without a member.
EmptySetFacts ==
    /\ IsFiniteSet({}) /\ Cardinality({}) = 0
    /\ \A S : IsFiniteSet(S) /\ Cardinality(S) = 0 => S = {}

\* Finite sets are counted by natural numbers.
CardinalityFacts == \A S : IsFiniteSet(S) => Cardinality(S) \in Nat

\* A subset of a finite set is finite, and has fewer members unless it is the set itself.
SubsetFacts ==
    \A S : IsFiniteSet(S) =>
        \A T \in SUBSET S : /\ IsFiniteSet(T) /\ Cardinality(T) <= Cardinality(S)
                            /\ Cardinality(T) = Cardinality(S) => T = S

\* One element more.
AddFacts ==
    \A S, x : IsFiniteSet(S) =>
        /\ IsFiniteSet(S \cup {x})
        /\ Cardinality(S \cup {x}) = IF x \in S THEN Cardinality(S) ELSE Cardinality(S) + 1

\* One element less.
RemoveFacts ==
    \A S, x : IsFiniteSet(S) =>
        /\ IsFiniteSet(S \ {x})
        /\ Cardinality(S \ {x}) = IF x \in S THEN Cardinality(S) - 1 ELSE Cardinality(S)

\* A set of one element.
SingletonFacts == \A x : IsFiniteSet({x}) /\ Cardinality({x}) = 1

FiniteFacts ==
    /\ EmptySetFacts /\ CardinalityFacts /\ SubsetFacts
    /\ AddFacts /\ RemoveFacts /\ SingletonFacts

\* Numbers of which there are any have a least.
LeastFacts == \A S \in SUBSET Nat : S # {} => \E m \in S : \A k \in S : m <= k

=============================================================================
