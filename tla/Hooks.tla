-------------------------------- MODULE Hooks --------------------------------
(***************************************************************************)
(* The hooks of tls-client (client.go): Do runs the pre-request hooks, the *)
(* request and the post-response hooks, while other goroutines add hooks   *)
(* and reset the lists.                                                    *)
(*                                                                         *)
(* What Do returns is left out: a failing pre-request hook ends the call,   *)
(* and the post-response hooks run whatever the request came to.           *)
(*                                                                         *)
(* A hook list is a Go slice: a backing array and a length.  A request     *)
(* copies the slice under the lock and walks it without, and an append     *)
(* writes in place when the array has room.                                *)
(***************************************************************************)
EXTENDS Naturals, Sequences

CONSTANTS
  Calls,      \* callers of Do
  HookFuncs,  \* hook functions
  MaxPre,     \* bound on the length of preHooks
  MaxPost,    \* bound on the length of postHooks
  None

ASSUME HooksAssumption ==
  /\ MaxPre \in Nat /\ MaxPost \in Nat
  /\ None \notin HookFuncs
  /\ None \notin Seq(HookFuncs \cup {None})  \* no list is mistaken for None

Lists == {"pre", "post"}
MaxHooks == [pre |-> MaxPre, post |-> MaxPost]

VARIABLES
  array,       \* by list: its backing array, a sequence as long as its capacity
  len,         \* by list: its length
  pc,          \* where a call of Do is
  copied,      \* the length of the slice it walks
  left,        \* the array of that slice, or None while it is the list's array
  registered,  \* the hooks of that slice when it was copied
  next         \* the index it has reached

listVars == <<array, len>>
walkVars == <<copied, left, registered, next>>
vars == <<listVars, pc, walkVars>>

Init ==
  /\ array = [k \in Lists |-> << >>]
  /\ len = [k \in Lists |-> 0]
  /\ pc = [c \in Calls |-> "idle"]
  /\ copied = [c \in Calls |-> 0]
  /\ left = [c \in Calls |-> None]
  /\ registered = [c \in Calls |-> << >>]
  /\ next = [c \in Calls |-> 1]

-----------------------------------------------------------------------------
(* The lists *)

\* The hooks call c walks.
Walked(c) ==
  SubSeq(IF left[c] = None THEN array[pc[c]] ELSE left[c], 1, copied[c])

\* List k gets a new array; the calls that walk the old one keep it.
NewArray(k, a, n) ==
  /\ array' = [array EXCEPT ![k] = a]
  /\ len' = [len EXCEPT ![k] = n]
  /\ left' = [c \in Calls |-> IF pc[c] = k /\ left[c] = None THEN array[k]
                                                            ELSE left[c]]

\* append: in place if the array has room, else into one of twice its size.
AddHook(k, h) ==
  LET spare == IF len[k] = 0 THEN 0 ELSE len[k] - 1
  IN /\ len[k] < MaxHooks[k]
     /\ \/ /\ len[k] < Len(array[k])
           /\ array' = [array EXCEPT ![k][len[k] + 1] = h]
           /\ len' = [len EXCEPT ![k] = @ + 1]
           /\ UNCHANGED left
        \/ /\ len[k] = Len(array[k])
           /\ NewArray(k, Append(array[k], h) \o [i \in 1 .. spare |-> None],
                       len[k] + 1)
     /\ UNCHANGED <<pc, copied, registered, next>>

\* Faulty variant: the list is cut to length zero and its array kept.
ResetHooks_KeepsArray(k) ==
  /\ len' = [len EXCEPT ![k] = 0]
  /\ UNCHANGED <<array, pc, walkVars>>

\* A new empty list, of capacity zero.
ResetHooks(k) ==
  /\ NewArray(k, << >>, 0)
  /\ UNCHANGED <<pc, copied, registered, next>>

-----------------------------------------------------------------------------
(* Do *)

Goto(c, state) == pc' = [pc EXCEPT ![c] = state]

\* Copy list k, the slice and not its array, under its read lock.
TakeList(c, k) ==
  /\ Goto(c, k)
  /\ copied' = [copied EXCEPT ![c] = len[k]]
  /\ left' = [left EXCEPT ![c] = None]
  /\ registered' = [registered EXCEPT ![c] = SubSeq(array[k], 1, len[k])]
  /\ next' = [next EXCEPT ![c] = 1]

\* executePreHooks begins.
Do(c) ==
  /\ pc[c] = "idle"
  /\ TakeList(c, "pre")
  /\ UNCHANGED listVars

\* The walk of a list is over.
Leave(c, state) ==
  /\ Goto(c, state)
  /\ copied' = [copied EXCEPT ![c] = 0]
  /\ left' = [left EXCEPT ![c] = None]
  /\ registered' = [registered EXCEPT ![c] = << >>]
  /\ next' = [next EXCEPT ![c] = 1]

\* A hook returns nil or an error that wraps ErrContinueHooks.
HookPasses(c, k) ==
  /\ pc[c] = k
  /\ next[c] <= copied[c]
  /\ next' = [next EXCEPT ![c] = @ + 1]
  /\ UNCHANGED <<listVars, pc, copied, left, registered>>

\* Another error, or a panic, which is recovered: the request is aborted.
PreHookFails(c) ==
  /\ pc[c] = "pre"
  /\ next[c] <= copied[c]
  /\ Leave(c, "idle")
  /\ UNCHANGED listVars

\* A post hook fails or panics: the ones after it are not run.
PostHookFails(c) ==
  /\ pc[c] = "post"
  /\ next[c] <= copied[c]
  /\ Leave(c, "idle")
  /\ UNCHANGED listVars

\* Every hook of the list has run.
ListDone(c, k) ==
  /\ pc[c] = k
  /\ next[c] > copied[c]
  /\ Leave(c, IF k = "pre" THEN "send" ELSE "idle")
  /\ UNCHANGED listVars

\* do returns: a response, an error, or neither if it panicked and catchPanics
\* is set.  executePostHooks begins in each case.
Send(c) ==
  /\ pc[c] = "send"
  /\ TakeList(c, "post")
  /\ UNCHANGED listVars

-----------------------------------------------------------------------------

Next ==
  \/ \E k \in Lists : ResetHooks(k) \/ \E h \in HookFuncs : AddHook(k, h)
  \/ \E c \in Calls :
       \/ Do(c)
       \/ \E k \in Lists : HookPasses(c, k) \/ ListDone(c, k)
       \/ PreHookFails(c)
       \/ PostHookFails(c)
       \/ Send(c)

Spec == Init /\ [][Next]_vars

-----------------------------------------------------------------------------
(* Properties *)

\* Types of the lists and of the calls; a slot beyond a list's length is None.
TypeOK ==
  /\ array \in [Lists -> Seq(HookFuncs \cup {None})]
  /\ len \in [Lists -> Nat]
  /\ pc \in [Calls -> Lists \cup {"idle", "send"}]
  /\ copied \in [Calls -> Nat]
  /\ left \in [Calls -> Seq(HookFuncs \cup {None}) \cup {None}]
  /\ registered \in [Calls -> Seq(HookFuncs)]
  /\ next \in [Calls -> Nat \ {0}]

\* A call runs the hooks that were registered when it took the list, in their
\* order, while hooks are appended in place and lists are reset: "This method
\* is thread-safe."
SnapshotsHold ==
  \A c \in Calls :
    pc[c] \in Lists => Walked(c) = registered[c]

=============================================================================
