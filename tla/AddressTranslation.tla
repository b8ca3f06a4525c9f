-------------------------- MODULE AddressTranslation --------------------------
(***************************************************************************)
(* The class PageTable of Lab8/address_translation_simulator.cpp, whose    *)
(* constructor maps pages to random frames, and the class                  *)
(* SegmentationSystem of Lab8/segmentation_simulation.cpp, which places    *)
(* segments itself or where the caller says.                               *)
(***************************************************************************)
EXTENDS Integers, FiniteSets

CONSTANTS NUM_PAGES, NUM_FRAMES, PAGE_SIZE,
          MAX_SEGMENTS,
          SegmentSizes,
          MaxAddress      \* bound: where segments may be placed

ASSUME TranslationAssumption ==
  /\ {NUM_PAGES, NUM_FRAMES, PAGE_SIZE, MAX_SEGMENTS} \subseteq Nat \ {0}
  /\ SegmentSizes \subseteq Nat \ {0}
  /\ MaxAddress \in Nat

PageNumbers == 0..NUM_PAGES - 1
Frames == 0..NUM_FRAMES - 1
Segments == 0..MAX_SEGMENTS - 1
Invalid == -1                       \* the frame of a page that is not in memory
NoSegment == [base |-> 0, limit |-> 0]   \* the entry of which valid is false

VARIABLES nextPage,      \* i: the page the constructor is at
          frameOf,       \* the table: a frame, or Invalid
          usedFrames,
          drawing        \* no frame is left, and `do rand() while (used)` goes on

tableVars == <<nextPage, frameOf, usedFrames, drawing>>

VARIABLES segmentTable, nextAvailableAddress,
          byHand         \* history: the segments that addSegment has placed

segmentVars == <<segmentTable, nextAvailableAddress, byHand>>

TableInit ==
  /\ nextPage = 0
  /\ frameOf = [p \in PageNumbers |-> Invalid]
  /\ usedFrames = {}
  /\ drawing = FALSE

SegmentInit ==
  /\ segmentTable = [s \in Segments |-> NoSegment]
  /\ nextAvailableAddress = 0
  /\ byHand = {}

-----------------------------------------------------------------------------
(* Mutated forms of the operations below.                                  *)

\* Segments are placed one unit too close to each other.
PlaceShort(s, size) ==
  /\ segmentTable' = [segmentTable EXCEPT ![s] =
                        [base |-> nextAvailableAddress, limit |-> size]]
  /\ nextAvailableAddress' = nextAvailableAddress + size - 1
  /\ byHand' = byHand \ {s}

-----------------------------------------------------------------------------
\* The frames that end the loop of draws.
Drawable == Frames \ usedFrames

MapPage ==
  /\ nextPage < NUM_PAGES /\ ~drawing
  /\ \E frame \in Drawable :
       /\ frameOf' = [frameOf EXCEPT ![nextPage] = frame]
       /\ usedFrames' = usedFrames \union {frame}
  /\ nextPage' = nextPage + 1
  /\ UNCHANGED drawing

SkipPage ==
  /\ nextPage < NUM_PAGES /\ ~drawing
  /\ nextPage' = nextPage + 1
  /\ UNCHANGED <<frameOf, usedFrames, drawing>>

\* Three quarters of 64 pages are meant to be valid, and there are 32 frames.
DrawForEver ==
  /\ nextPage < NUM_PAGES /\ ~drawing
  /\ Drawable = {}
  /\ drawing' = TRUE
  /\ UNCHANGED <<nextPage, frameOf, usedFrames>>

TableNext == MapPage \/ SkipPage \/ DrawForEver

\* The physical address, or -1.  main passes no negative address.
translatePage(logicalAddress) ==
  LET pageNumber == logicalAddress \div PAGE_SIZE
  IN IF pageNumber >= NUM_PAGES \/ frameOf[pageNumber] = Invalid THEN -1
     ELSE frameOf[pageNumber] * PAGE_SIZE + (logicalAddress % PAGE_SIZE)

-----------------------------------------------------------------------------
addSegment(s, base, limit) ==
  /\ base + limit <= MaxAddress
  /\ segmentTable' = [segmentTable EXCEPT ![s] = [base |-> base, limit |-> limit]]
  /\ byHand' = byHand \union {s}
  /\ UNCHANGED nextAvailableAddress

Place(s, size) ==
  /\ segmentTable' = [segmentTable EXCEPT ![s] =
                        [base |-> nextAvailableAddress, limit |-> size]]
  /\ nextAvailableAddress' = nextAvailableAddress + size
  /\ byHand' = byHand \ {s}

addSegmentAuto(s, size) ==
  /\ nextAvailableAddress + size <= MaxAddress
  /\ Place(s, size)

SegmentNext ==
  \E s \in Segments, size \in SegmentSizes :
    \/ \E base \in 0..MaxAddress - 1 : addSegment(s, base, size)
    \/ addSegmentAuto(s, size)

\* The physical address, or -1 after a segmentation fault.
translateSegment(s, offset) ==
  IF s \notin Segments \/ segmentTable[s] = NoSegment THEN -1
  ELSE IF offset < 0 \/ offset >= segmentTable[s].limit THEN -1
  ELSE segmentTable[s].base + offset

-----------------------------------------------------------------------------
LogicalAddresses == 0..(NUM_PAGES + 1) * PAGE_SIZE - 1

\* No two logical addresses of a finished page table lead to the same physical
\* one, and a physical address is one of the frames'.
PagesApart ==
  nextPage = NUM_PAGES =>
    \A a, b \in LogicalAddresses :
      /\ translatePage(a) \in -1..NUM_FRAMES * PAGE_SIZE - 1
      /\ a # b /\ translatePage(a) # -1 => translatePage(a) # translatePage(b)

Offsets == -1..MaxAddress

\* Two segments share a physical address only if the caller placed one of them:
\* addSegmentAuto takes nothing away from the others, whatever it overwrites.
SegmentsApart ==
  \A s, t \in -1..MAX_SEGMENTS : \A x, y \in Offsets :
    /\ s # t /\ translateSegment(s, x) # -1
    /\ translateSegment(s, x) = translateSegment(t, y)
    => s \in byHand \/ t \in byHand
=============================================================================
