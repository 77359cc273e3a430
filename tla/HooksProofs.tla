----------------------------- MODULE HooksProofs -----------------------------
(***************************************************************************)
(* Proofs about Hooks, for any number of calls and hooks and for lists of  *)
(* any length.                                                             *)
(*                                                                         *)
(* A call walks the first copied[c] slots of an array without the lock.    *)
(* While that array is still the list's, the list is at least as long, so  *)
(* an append in place writes behind what is walked; once it is not,        *)
(* nobody writes to it any more.                                           *)
(***************************************************************************)
EXTENDS Hooks, SequenceTheorems, TLAPS

Slots == HookFuncs \cup {None}

\* A list is a slice: it fits in its array, and its slots hold hooks.
ListsAreSlices ==
  \A k \in Lists :
    /\ len[k] <= Len(array[k])
    /\ \A i \in 1 .. len[k] : array[k][i] \in HookFuncs

\* What a call walks lies within the slots that nobody writes to.
WalkIsSafe ==
  \A c \in Calls :
    pc[c] \in Lists =>
      IF left[c] = None THEN copied[c] <= len[pc[c]]
                        ELSE copied[c] <= Len(left[c])

IInv ==
  /\ TypeOK
  /\ ListsAreSlices
  /\ WalkIsSafe
  /\ SnapshotsHold

-----------------------------------------------------------------------------
(* Arrays *)

\* The first n elements are those of any other sequence that agrees on them.
LEMMA SamePrefix ==
  ASSUME NEW s \in Seq(Slots), NEW t \in Seq(Slots), NEW n \in Nat,
         n <= Len(s), n <= Len(t), \A i \in 1 .. n : s[i] = t[i]
  PROVE  SubSeq(s, 1, n) = SubSeq(t, 1, n)
<1>1. /\ \A i \in 1 .. n : s[i] \in Slots
      /\ \A i \in 1 .. n : t[i] \in Slots
  OBVIOUS
<1>2. /\ SubSeq(s, 1, n) \in Seq(Slots) /\ SubSeq(t, 1, n) \in Seq(Slots)
      /\ Len(SubSeq(s, 1, n)) = n /\ Len(SubSeq(t, 1, n)) = n
      /\ \A i \in 1 .. n : SubSeq(s, 1, n)[i] = s[i]
      /\ \A i \in 1 .. n : SubSeq(t, 1, n)[i] = t[i]
  BY <1>1, SubSeqProperties
<1> QED
  BY <1>2, SeqEqual

\* A list that fits in its array is a sequence of hooks.
LEMMA ListIsSeq ==
  ASSUME NEW s, NEW n \in Nat, \A i \in 1 .. n : s[i] \in HookFuncs
  PROVE  SubSeq(s, 1, n) \in Seq(HookFuncs)
BY SubSeqProperties

\* The array that append makes when there is no room: the old hooks, the new
\* one and spare slots.
LEMMA GrownArray ==
  ASSUME NEW s \in Seq(Slots), NEW h \in HookFuncs, NEW b \in Seq(Slots)
  PROVE  /\ Append(s, h) \o b \in Seq(Slots)
         /\ Len(s) + 1 <= Len(Append(s, h) \o b)
         /\ (Append(s, h) \o b)[Len(s) + 1] = h
         /\ \A i \in 1 .. Len(s) : (Append(s, h) \o b)[i] = s[i]
<1> DEFINE a == Append(s, h)
<1>1. /\ a \in Seq(Slots) /\ Len(a) = Len(s) + 1
      /\ a[Len(s) + 1] = h /\ \A i \in 1 .. Len(s) : a[i] = s[i]
  BY DEF Slots
<1> HIDE DEF a
<1>2. /\ a \o b \in Seq(Slots) /\ Len(a \o b) = Len(a) + Len(b)
      /\ \A i \in 1 .. Len(a) + Len(b) :
           (a \o b)[i] = IF i <= Len(a) THEN a[i] ELSE b[i - Len(a)]
  BY <1>1, ConcatProperties
<1>3. Len(s) \in Nat /\ Len(b) \in Nat
  OBVIOUS
<1>4. /\ Len(s) + 1 <= Len(a \o b)
      /\ (a \o b)[Len(s) + 1] = h
      /\ \A i \in 1 .. Len(s) : (a \o b)[i] = s[i]
  BY <1>1, <1>2, <1>3
<1> QED
  BY <1>2, <1>4 DEF a

-----------------------------------------------------------------------------
(* The invariant *)

\* The array that call c walks.
Base(c) == IF left[c] = None THEN array[pc[c]] ELSE left[c]

\* At first the lists are empty and nobody walks them.
LEMMA InitInv == Init => IInv
<1> SUFFICES ASSUME Init PROVE IInv
  OBVIOUS
<1>1. TypeOK
  <2>1. /\ array \in [Lists -> Seq(Slots)]
        /\ registered \in [Calls -> Seq(HookFuncs)]
    BY DEF Init
  <2> QED
    BY <2>1 DEF Init, TypeOK, Slots
<1>2. ListsAreSlices
  BY DEF Init, ListsAreSlices
<1>3. WalkIsSafe /\ SnapshotsHold
  BY DEF Init, WalkIsSafe, SnapshotsHold, Lists
<1> QED
  BY <1>1, <1>2, <1>3 DEF IInv

\* Where a call walks, its array is a sequence that holds all of its walk.
LEMMA BaseHoldsWalk ==
  ASSUME TypeOK, ListsAreSlices, WalkIsSafe,
         NEW c \in Calls, pc[c] \in Lists
  PROVE  /\ Base(c) \in Seq(Slots)
         /\ copied[c] \in Nat /\ copied[c] <= Len(Base(c))
<1>1. CASE left[c] = None
  BY <1>1 DEF TypeOK, ListsAreSlices, WalkIsSafe, Base, Slots
<1>2. CASE left[c] # None
  BY <1>2 DEF TypeOK, WalkIsSafe, Base, Slots
<1> QED
  BY <1>1, <1>2

\* A change of the lists that leaves what every call walks as it is keeps the
\* snapshots.
LEMMA SnapshotsKept ==
  ASSUME TypeOK, ListsAreSlices, WalkIsSafe, SnapshotsHold,
         TypeOK', ListsAreSlices', WalkIsSafe',
         UNCHANGED <<pc, copied, registered>>,
         \A c \in Calls : pc[c] \in Lists =>
           \A i \in 1 .. copied[c] : Base(c)'[i] = Base(c)[i]
  PROVE  SnapshotsHold'
<1> SUFFICES ASSUME NEW c \in Calls, pc[c] \in Lists
             PROVE  Walked(c)' = registered[c]
  BY DEF SnapshotsHold
<1>1. Base(c) \in Seq(Slots) /\ copied[c] \in Nat /\ copied[c] <= Len(Base(c))
  BY BaseHoldsWalk
<1>2. Base(c)' \in Seq(Slots) /\ copied[c] <= Len(Base(c)')
  <2>1. CASE left'[c] = None
    BY <1>1, <2>1 DEF TypeOK, ListsAreSlices, WalkIsSafe, Base, Slots
  <2>2. CASE left'[c] # None
    BY <2>2 DEF TypeOK, WalkIsSafe, Base, Slots
  <2> QED
    BY <2>1, <2>2
<1>3. SubSeq(Base(c)', 1, copied[c]) = SubSeq(Base(c), 1, copied[c])
  BY <1>1, <1>2, SamePrefix
<1> QED
  BY <1>3 DEF SnapshotsHold, Walked, Base

\* The invariant of the lists and of those who walk them.
ListInv == TypeOK /\ ListsAreSlices /\ WalkIsSafe /\ SnapshotsHold

\* When list k gets a new array that is a slice again, the calls that walk the
\* old array keep it.
LEMMA NewArrayInv ==
  ASSUME ListInv, NEW k \in Lists, NEW a \in Seq(Slots), NEW n \in Nat,
         n <= Len(a), \A i \in 1 .. n : a[i] \in HookFuncs,
         NewArray(k, a, n),
         UNCHANGED <<pc, copied, registered, next>>
  PROVE  ListInv'
<1> USE HooksAssumption DEF ListInv
<1>1. /\ array' = [array EXCEPT ![k] = a]
      /\ len' = [len EXCEPT ![k] = n]
      /\ left' = [c \in Calls |-> IF pc[c] = k /\ left[c] = None THEN array[k]
                                                                ELSE left[c]]
  BY DEF NewArray
<1>2. TypeOK'
  BY <1>1 DEF TypeOK, Slots
<1>3. ListsAreSlices'
  BY <1>1 DEF TypeOK, ListsAreSlices
<1>4. ASSUME NEW c \in Calls, pc[c] \in Lists
      PROVE  /\ Base(c)' = Base(c)
             /\ IF left'[c] = None THEN copied[c] <= len'[pc[c]]
                                   ELSE copied[c] <= Len(left'[c])
  <2>1. CASE pc[c] = k /\ left[c] = None
    <3>1. left'[c] = array[k] /\ array[k] \in Seq(Slots) /\ array[k] # None
      BY <1>1, <2>1 DEF TypeOK, Slots
    <3> QED
      BY <1>4, <2>1, <3>1 DEF TypeOK, WalkIsSafe, ListsAreSlices, Base
  <2>2. CASE ~(pc[c] = k /\ left[c] = None)
    BY <1>1, <1>4, <2>2 DEF TypeOK, WalkIsSafe, Base
  <2> QED
    BY <2>1, <2>2
<1>5. WalkIsSafe'
  BY <1>4 DEF WalkIsSafe
<1> QED
  BY <1>2, <1>3, <1>4, <1>5, SnapshotsKept

\* An append in place writes behind what anybody walks.
LEMMA AddHookInv ==
  ASSUME ListInv, NEW k \in Lists, NEW h \in HookFuncs, AddHook(k, h)
  PROVE  ListInv'
<1> DEFINE spare == IF len[k] = 0 THEN 0 ELSE len[k] - 1
<1> USE DEF ListInv
<1>1. array[k] \in Seq(Slots) /\ len[k] \in Nat /\ spare \in Nat
  BY DEF TypeOK, Slots
<1>2. UNCHANGED <<pc, copied, registered, next>>
  BY DEF AddHook
<1>3. CASE /\ len[k] < Len(array[k])
           /\ array' = [array EXCEPT ![k][len[k] + 1] = h]
           /\ len' = [len EXCEPT ![k] = @ + 1]
           /\ UNCHANGED left
  <2>1. TypeOK'
    <3>1. [array[k] EXCEPT ![len[k] + 1] = h] \in Seq(Slots)
      BY <1>1, <1>3, ExceptSeq DEF Slots
    <3> QED
      BY <1>2, <1>3, <3>1 DEF TypeOK, Slots
  <2>2. ListsAreSlices'
    BY <1>1, <1>3 DEF TypeOK, ListsAreSlices
  <2>3. WalkIsSafe'
    BY <1>2, <1>3 DEF TypeOK, WalkIsSafe
  <2>4. ASSUME NEW c \in Calls, pc[c] \in Lists, NEW i \in 1 .. copied[c]
        PROVE  Base(c)'[i] = Base(c)[i]
    BY <1>1, <1>2, <1>3, <2>4 DEF TypeOK, WalkIsSafe, ListsAreSlices, Base
  <2> QED
    BY <1>2, <2>1, <2>2, <2>3, <2>4, SnapshotsKept
<1>4. CASE /\ len[k] = Len(array[k])
           /\ NewArray(k, Append(array[k], h) \o [i \in 1 .. spare |-> None],
                       len[k] + 1)
  <2> DEFINE b == [i \in 1 .. spare |-> None]
             a == Append(array[k], h) \o b
  <2>0. b \in Seq(Slots)
    BY <1>1 DEF Slots
  <2> HIDE DEF b
  <2>1. /\ a \in Seq(Slots) /\ Len(array[k]) + 1 <= Len(a)
        /\ a[Len(array[k]) + 1] = h
        /\ \A i \in 1 .. Len(array[k]) : a[i] = array[k][i]
    BY <1>1, <2>0, GrownArray
  <2> HIDE DEF a
  <2>2. \A i \in 1 .. len[k] + 1 : a[i] \in HookFuncs
    BY <1>1, <1>4, <2>1 DEF ListsAreSlices
  <2>3. NewArray(k, a, len[k] + 1)
    BY <1>4 DEF a, b
  <2>4. len[k] + 1 \in Nat /\ len[k] + 1 <= Len(a) /\ a \in Seq(Slots)
    BY <1>1, <1>4, <2>1
  <2> HIDE DEF ListInv
  <2> QED
    BY <1>2, <2>2, <2>3, <2>4, NewArrayInv
<1> QED
  BY <1>3, <1>4 DEF AddHook

\* A reset takes a new array.
LEMMA ResetHooksInv ==
  ASSUME ListInv, NEW k \in Lists, ResetHooks(k)
  PROVE  ListInv'
<1>1. /\ << >> \in Seq(Slots) /\ 0 <= Len(<< >>)
      /\ \A i \in 1 .. 0 : << >>[i] \in HookFuncs
  OBVIOUS
<1> QED
  BY <1>1, NewArrayInv DEF ResetHooks

\* A call that takes a list walks a prefix of the list's array.
LEMMA TakeListInv ==
  ASSUME ListInv, NEW c \in Calls, NEW k \in Lists, TakeList(c, k),
         UNCHANGED listVars
  PROVE  ListInv'
<1> USE DEF ListInv
<1>1. SubSeq(array[k], 1, len[k]) \in Seq(HookFuncs)
  BY ListIsSeq DEF TypeOK, ListsAreSlices
<1>2. TypeOK'
  <2>1. /\ pc' \in [Calls -> Lists \cup {"idle", "send"}]
        /\ copied' \in [Calls -> Nat] /\ next' \in [Calls -> Nat \ {0}]
    BY DEF TakeList, Goto, TypeOK
  <2>2. /\ left' \in [Calls -> Seq(HookFuncs \cup {None}) \cup {None}]
        /\ registered' \in [Calls -> Seq(HookFuncs)]
    BY <1>1 DEF TakeList, TypeOK
  <2> QED
    BY <2>1, <2>2 DEF listVars, TypeOK
<1>3. ListsAreSlices'
  BY DEF listVars, ListsAreSlices
<1>4. WalkIsSafe'
  BY DEF TakeList, Goto, listVars, TypeOK, WalkIsSafe
<1>5. SnapshotsHold'
  BY DEF TakeList, Goto, listVars, TypeOK, SnapshotsHold, Walked
<1> QED
  BY <1>2, <1>3, <1>4, <1>5

\* A call that leaves a list walks nothing.
LEMMA LeaveInv ==
  ASSUME ListInv, NEW c \in Calls, NEW state \in {"idle", "send"},
         Leave(c, state), UNCHANGED listVars
  PROVE  ListInv'
<1> USE DEF ListInv
<1>1. TypeOK'
  <2>1. /\ pc' \in [Calls -> Lists \cup {"idle", "send"}]
        /\ copied' \in [Calls -> Nat] /\ next' \in [Calls -> Nat \ {0}]
    BY DEF Leave, Goto, TypeOK
  <2>2. /\ left' \in [Calls -> Seq(HookFuncs \cup {None}) \cup {None}]
        /\ registered' \in [Calls -> Seq(HookFuncs)]
    BY DEF Leave, TypeOK
  <2> QED
    BY <2>1, <2>2 DEF listVars, TypeOK
<1>2. ListsAreSlices'
  BY DEF listVars, ListsAreSlices
<1>3. WalkIsSafe'
  BY DEF Leave, Goto, listVars, TypeOK, WalkIsSafe, Lists
<1>4. SnapshotsHold'
  BY DEF Leave, Goto, listVars, TypeOK, SnapshotsHold, Walked, Lists
<1> QED
  BY <1>1, <1>2, <1>3, <1>4

\* Every step keeps the lists and the walks.
LEMMA StepLists == ListInv /\ [Next]_vars => ListInv'
<1> SUFFICES ASSUME ListInv, [Next]_vars PROVE ListInv'
  OBVIOUS
<1>1. ASSUME NEW k \in Lists, ResetHooks(k) PROVE ListInv'
  BY <1>1, ResetHooksInv
<1>2. ASSUME NEW k \in Lists, NEW h \in HookFuncs, AddHook(k, h) PROVE ListInv'
  BY <1>2, AddHookInv
<1>3. ASSUME NEW c \in Calls, Do(c) PROVE ListInv'
  BY <1>3, TakeListInv DEF Do, Lists
<1>4. ASSUME NEW c \in Calls, NEW k \in Lists, HookPasses(c, k) PROVE ListInv'
  BY <1>4
     DEF HookPasses, listVars, ListInv, TypeOK, ListsAreSlices, WalkIsSafe,
         SnapshotsHold, Walked
<1>5. ASSUME NEW c \in Calls, NEW k \in Lists, ListDone(c, k) PROVE ListInv'
  <2>1. \E state \in {"idle", "send"} : Leave(c, state)
    BY <1>5 DEF ListDone
  <2> QED
    BY <1>5, <2>1, LeaveInv DEF ListDone
<1>6. ASSUME NEW c \in Calls, PreHookFails(c) PROVE ListInv'
  BY <1>6, LeaveInv DEF PreHookFails
<1>7. ASSUME NEW c \in Calls, PostHookFails(c) PROVE ListInv'
  BY <1>7, LeaveInv DEF PostHookFails
<1>8. ASSUME NEW c \in Calls, Send(c) PROVE ListInv'
  BY <1>8, TakeListInv DEF Send, Lists
<1>9. CASE UNCHANGED vars
  BY <1>9 DEF vars, listVars, walkVars, ListInv, TypeOK, ListsAreSlices,
              WalkIsSafe, SnapshotsHold, Walked
<1> QED
  BY <1>1, <1>2, <1>3, <1>4, <1>5, <1>6, <1>7, <1>8, <1>9 DEF Next

-----------------------------------------------------------------------------
(* The theorems *)

\* The inductive invariant holds in every reachable state.
THEOREM Invariance == Spec => []IInv
<1>1. IInv /\ [Next]_vars => IInv'
  BY StepLists DEF IInv, ListInv
<1> QED
  BY InitInv, <1>1, PTL DEF Spec

\* A call runs the hooks that were registered when it took the list, in their
\* order, whatever is appended in place or reset while it walks.
THEOREM SnapshotsAreStable == Spec => []SnapshotsHold
<1>1. IInv => SnapshotsHold
  BY DEF IInv
<1> QED
  BY Invariance, <1>1, PTL

\* The hook that a call reaches next has been added.
NoNilHook ==
  \A c \in Calls :
    pc[c] \in Lists /\ next[c] <= copied[c] =>
      Walked(c)[next[c]] \in HookFuncs

\* Every hook that a call reaches is one that was added, never a spare slot of
\* the array: the walk stays within the list.
THEOREM NoNilHookIsRun == Spec => []NoNilHook
<1>1. ASSUME IInv, NEW c \in Calls, pc[c] \in Lists, next[c] <= copied[c]
      PROVE  Walked(c)[next[c]] \in HookFuncs
  <2>1. Walked(c) \in Seq(HookFuncs) /\ next[c] \in Nat \ {0}
    BY <1>1 DEF IInv, TypeOK, SnapshotsHold
  <2>2. /\ Base(c) \in Seq(Slots)
        /\ copied[c] \in Nat /\ copied[c] <= Len(Base(c))
    BY <1>1, BaseHoldsWalk DEF IInv
  <2>3. \A i \in 1 .. copied[c] : Base(c)[i] \in Slots
    BY <2>2
  <2>4. Len(Walked(c)) = copied[c]
    BY <2>2, <2>3, SubSeqProperties DEF Walked, Base
  <2> QED
    BY <1>1, <2>1, <2>2, <2>4
<1>2. IInv => NoNilHook
  BY <1>1 DEF NoNilHook
<1> QED
  BY Invariance, <1>2, PTL

=============================================================================
