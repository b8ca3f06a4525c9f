--------------------------- MODULE PageReplacement ---------------------------
(***************************************************************************)
(* The page replacement simulators of Lab8 and Lab9, side by side on one   *)
(* reference string: the FIFO of Lab8/page_replacement_algorithm.cpp, a    *)
(* queue and a set of pages; the FIFO of                                   *)
(* Lab9/FIFO_page_replacement_algorithm.cpp, an array of frames and a      *)
(* queue of their indices; the time stamps of                              *)
(* Lab9/LRU_page_replacement_algorithm.cpp; the look-ahead of              *)
(* Lab9/Obtimal_page_replacement_algorithm.cpp; and the window of          *)
(* Lab9/Work_set_simulator.cpp.  The programs share nothing but the string *)
(* 7 0 1 2 0 3 0 4 2 3 0 3 2 that they all are given (Lab8 also reads one  *)
(* from the user).                                                         *)
(***************************************************************************)
EXTENDS Integers, Sequences, FiniteSets, FiniteSetsExt

CONSTANTS NumFrames,  \* frames, numFrames or framesSize
          Pages,      \* page numbers
          References  \* the reference strings

NoPage == -1

ASSUME NumFramesAssumption == NumFrames \in Nat \ {0}
ASSUME PagesAssumption == Pages \subseteq Nat
ASSUME ReferencesAssumption == References \subseteq Seq(Pages)

VARIABLES reference,            \* the string
          time,                 \* references made so far
          frameQueue, frameSet, \* Lab8 FIFO
          memory, fifo,         \* Lab9 FIFO: the frames, a queue of indices
          frames,               \* Lab9 LRU: page and last access of each frame
          optimal,              \* Lab9 optimal: the pages, in order of arrival
          faults                \* the page faults each of them has counted

vars == <<reference, time, frameQueue, frameSet, memory, fifo, frames,
          optimal, faults>>

Indices == 0..NumFrames - 1

Init ==
  /\ reference \in References
  /\ time = 0
  /\ frameQueue = <<>> /\ frameSet = {}
  /\ memory = [i \in Indices |-> NoPage] /\ fifo = <<>>
  /\ frames = [i \in Indices |-> [pageNumber |-> NoPage, lastAccess |-> 0]]
  /\ optimal = <<>>
  /\ faults = [queue |-> 0, slots |-> 0, lru |-> 0, optimal |-> 0]

Entries(s) == {s[i] : i \in 1..Len(s)}

-----------------------------------------------------------------------------
(* Mutated forms of the operations below.                                  *)

\* Room is made only when there is one page too many already.
QueueFaultLate(page) ==
  /\ page \notin frameSet
  /\ \/ /\ Len(frameQueue) > NumFrames
        /\ frameQueue' = Append(Tail(frameQueue), page)
        /\ frameSet' = (frameSet \ {Head(frameQueue)}) \union {page}
     \/ /\ Len(frameQueue) <= NumFrames
        /\ frameQueue' = Append(frameQueue, page)
        /\ frameSet' = frameSet \union {page}

\* A hit also moves its frame to the end, as LRU would.
SlotHitMoving(page) ==
  /\ \E i \in Indices : memory[i] = page
  /\ fifo' = LET hit == CHOOSE i \in Indices : memory[i] = page
             IN Append(SelectSeq(fifo, LAMBDA i : i # hit), hit)
  /\ UNCHANGED memory

\* The look-ahead takes the page that is needed first.
predictNearest(index) ==
  LET NextUse(i) == {j \in index..Len(reference) : reference[j] = optimal[i]}
      Never == {i \in 1..Len(optimal) : NextUse(i) = {}}
  IN IF Never # {} THEN Min(Never)
     ELSE CHOOSE i \in 1..Len(optimal) :
            \A k \in 1..Len(optimal) : Min(NextUse(i)) <= Min(NextUse(k))

-----------------------------------------------------------------------------
(* PageReplacementFIFO::referencePage.                                     *)

QueueHit(page) == page \in frameSet /\ UNCHANGED <<frameQueue, frameSet>>

\* The oldest page goes if the frames are full, and the new one is queued.
QueueFault(page) ==
  /\ page \notin frameSet
  /\ \/ /\ Len(frameQueue) >= NumFrames
        /\ frameQueue' = Append(Tail(frameQueue), page)
        /\ frameSet' = (frameSet \ {Head(frameQueue)}) \union {page}
     \/ /\ Len(frameQueue) < NumFrames
        /\ frameQueue' = Append(frameQueue, page)
        /\ frameSet' = frameSet \union {page}

(* The loop of the Lab9 FIFO.                                              *)

SlotHit(page) ==
  /\ \E i \in Indices : memory[i] = page
  /\ UNCHANGED <<memory, fifo>>

\* The next free frame is used, or else the one at the head of the queue.
SlotFault(page) ==
  /\ \A i \in Indices : memory[i] # page
  /\ \/ /\ Len(fifo) < NumFrames
        /\ memory' = [memory EXCEPT ![Len(fifo)] = page]
        /\ fifo' = Append(fifo, Len(fifo))
     \/ /\ Len(fifo) >= NumFrames
        /\ memory' = [memory EXCEPT ![Head(fifo)] = page]
        /\ fifo' = Append(Tail(fifo), Head(fifo))

(* The loop of the Lab9 LRU.                                               *)

\* pageHit: the first frame with the page is stamped.
pageHit(page) ==
  /\ \E i \in Indices :
       /\ frames[i].pageNumber = page
       /\ \A j \in Indices : j < i => frames[j].pageNumber # page
       /\ frames' = [frames EXCEPT ![i].lastAccess = time + 1]

\* findLRU: the first frame with the smallest time stamp.
findLRU ==
  CHOOSE i \in Indices :
    \A j \in Indices : \/ frames[i].lastAccess < frames[j].lastAccess
                       \/ frames[i].lastAccess = frames[j].lastAccess /\ i <= j

LRUFault(page) ==
  /\ \A i \in Indices : frames[i].pageNumber # page
  /\ frames' = [frames EXCEPT
       ![findLRU] = [pageNumber |-> page, lastAccess |-> time + 1]]

(* optimalPage.                                                            *)

\* predict: the first frame whose page is not needed from index on; if there
\* is none, the frame whose page is needed last; the first frame if no page
\* is needed after index itself (that is: if there is one frame only).
predict(index) ==
  LET NextUse(i) == {j \in index..Len(reference) : reference[j] = optimal[i]}
      Never == {i \in 1..Len(optimal) : NextUse(i) = {}}
      Later == {i \in 1..Len(optimal) : Min(NextUse(i)) > index}
  IN IF Never # {} THEN Min(Never)
     ELSE IF Later = {} THEN 1
     ELSE CHOOSE i \in Later : \A k \in Later : Min(NextUse(k)) <= Min(NextUse(i))

OptimalHit(page) == page \in Entries(optimal) /\ UNCHANGED optimal

OptimalFault(page) ==
  /\ page \notin Entries(optimal)
  /\ \/ /\ Len(optimal) < NumFrames
        /\ optimal' = Append(optimal, page)
     \/ /\ Len(optimal) >= NumFrames
        /\ optimal' = [optimal EXCEPT ![predict(time + 2)] = page]

-----------------------------------------------------------------------------
\* One more page of the string is referenced, in each of the programs.
Reference ==
  /\ time < Len(reference)
  /\ LET page == reference[time + 1]
         One(missed) == IF missed THEN 1 ELSE 0
     IN /\ QueueHit(page) \/ QueueFault(page)
        /\ SlotHit(page) \/ SlotFault(page)
        /\ pageHit(page) \/ LRUFault(page)
        /\ OptimalHit(page) \/ OptimalFault(page)
        /\ faults' =
             [queue   |-> faults.queue + One(page \notin frameSet),
              slots   |-> faults.slots + One(\A i \in Indices : memory[i] # page),
              lru     |-> faults.lru
                            + One(\A i \in Indices : frames[i].pageNumber # page),
              optimal |-> faults.optimal + One(page \notin Entries(optimal))]
  /\ time' = time + 1
  /\ UNCHANGED reference

Over == time = Len(reference) /\ UNCHANGED vars

Next == Reference \/ Over

Spec == Init /\ [][Next]_vars

\* Work_set_simulator: the pages of the last delta references.
workingSet(delta) ==
  LET start == Max({0, (time - 1) - delta + 1})
  IN {reference[i + 1] : i \in start..time - 1}

-----------------------------------------------------------------------------
TypeOK ==
  /\ reference \in References
  /\ time \in 0..Len(reference)
  /\ frameQueue \in Seq(Pages) /\ Len(frameQueue) <= NumFrames
  /\ frameSet \subseteq Pages
  /\ memory \in [Indices -> Pages \union {NoPage}]
  /\ fifo \in Seq(Indices) /\ Len(fifo) <= NumFrames
  /\ frames \in [Indices -> [pageNumber : Pages \union {NoPage},
                             lastAccess : 0..time]]
  /\ optimal \in Seq(Pages) /\ Len(optimal) <= NumFrames
  /\ faults \in [{"queue", "slots", "lru", "optimal"} -> 0..time]

\* FIFOsAgree: the queue and the set of Lab8 and the array and the queue of
\* indices of Lab9 are two forms of one algorithm: the same pages in the same
\* order of age, the same number of faults; and the set is what is queued.
FIFOsAgree ==
  /\ frameQueue = [i \in 1..Len(fifo) |-> memory[fifo[i]]]
  /\ frameSet = Entries(frameQueue)
  /\ faults.queue = faults.slots
=============================================================================
