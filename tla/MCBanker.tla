------------------------------- MODULE MCBanker -------------------------------
(* Every small scenario for Banker.                                        *)
EXTENDS Banker

Vector(S) == [Resources -> S]

\* Every state of a system with three units of the first resource and one of
\* every other, of which a process claims at most two.
Units == [r \in Resources |-> IF r = 1 THEN 3 ELSE 1]
Claims == {v \in Vector(0..2) : AtMost(v, Units)}
InUse(allocation_) == [r \in Resources |-> Held(Customers, allocation_, r)]
SmallScenarios ==
  UNION {{[available |-> Minus(Units, InUse(a)), maximum |-> m, allocation |-> a] :
            m \in {m \in [Customers -> Claims] :
                     \A p \in Customers : AtMost(a[p], m[p])}} :
         a \in {a \in [Customers -> Claims] : AtMost(InUse(a), Units)}}
SmallRequests == Claims
=============================================================================
