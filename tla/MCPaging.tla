------------------------------- MODULE MCPaging -------------------------------
(* Every reference string of a length, and the one of the programs.        *)
EXTENDS Paging

CONSTANTS Length,  \* of the strings
          Few      \* the pages of the strings

Given == <<7, 0, 1, 2, 0, 3, 0, 4, 2, 3, 0, 3, 2>>

\* Page numbers are only compared, so it is enough that a page that has not
\* occurred before is always the smallest one.
InOrderOfAppearance(s) ==
  \A i \in DOMAIN s : \A p \in Few :
    p < s[i] => \E j \in 1..i - 1 : s[j] = p

Strings == {s \in [1..Length -> Few] : InOrderOfAppearance(s)} \union {Given}
AllPages == Few \union Entries(Given)

\* The second page of a string, and two of the given one, are not mapped.
Mapped == [p \in {0, 2, 3, 4} |-> 9 - p]

-----------------------------------------------------------------------------
\* What is the smallest number of faults that a choice of victims makes of
\* the references from i on, with the pages S in memory?
RECURSIVE Fewest(_, _)
Fewest(i, S) ==
  IF i > Len(reference) THEN 0
  ELSE IF reference[i] \in S THEN Fewest(i + 1, S)
  ELSE IF Cardinality(S) < NumFrames
       THEN 1 + Fewest(i + 1, S \union {reference[i]})
  ELSE 1 + Min({Fewest(i + 1, (S \ {victim}) \union {reference[i]}) : victim \in S})

\* OptimalIsOptimal: the look-ahead makes as few faults as any choice of
\* victims could, so no more than FIFO and LRU.
OptimalIsOptimal ==
  time = Len(reference) =>
    /\ faults.optimal = Fewest(1, {})
    /\ faults.optimal <= faults.queue /\ faults.optimal <= faults.lru
=============================================================================
