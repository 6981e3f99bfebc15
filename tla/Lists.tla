------------------------------- MODULE Lists -------------------------------
(***************************************************************************)
(* What the vectors and the strings of src/util.c promise: each is a list, *)
(* and what is done to one is not seen in another.                         *)
(***************************************************************************)
EXTENDS Integers, Sequences

CONSTANTS Handles,    \* pointers to lists
          Values,     \* what a list holds
          Initial     \* what a list can be made with

VARIABLES lists,      \* of every list there is, what it holds
          result,     \* what the last reading returned
          status      \* running, exit1 (a message) or aborted
vars == <<lists, result, status>>

Made(l)    == l \in DOMAIN lists
MadeNow(l) == l \in DOMAIN lists'

Init ==
    /\ lists = [l \in {} |-> <<>>]
    /\ result = <<>>
    /\ status = "running"

(* What is done to l is not seen in another list.                          *)
OnlyOn(l) ==
    /\ \A h \in Handles \ {l} : MadeNow(h) = Made(h) /\ (Made(h) => lists'[h] = lists[h])
    /\ UNCHANGED <<result, status>>

New(l)   == ~Made(l) /\ MadeNow(l) /\ lists'[l] \in Initial
Clone(l) == ~Made(l) /\ MadeNow(l) /\ \E h \in DOMAIN lists : lists'[l] = lists[h]
Push(l)  == Made(l) /\ MadeNow(l) /\ \E x \in Values : lists'[l] = Append(lists[l], x)
Set(l)   == /\ Made(l) /\ MadeNow(l)
            /\ \E i \in DOMAIN lists[l], x \in Values : lists'[l] = [lists[l] EXCEPT ![i] = x]

Use(l) == OnlyOn(l) /\ (New(l) \/ Clone(l) \/ Push(l) \/ Set(l))

Get ==
    /\ \E l \in DOMAIN lists : \E i \in DOMAIN lists[l] : result' = <<lists[l][i]>>
    /\ UNCHANGED <<lists, status>>

FreeAll ==
    /\ DOMAIN lists' = {}
    /\ UNCHANGED <<result, status>>

(* An index out of range, or no memory left.                               *)
GiveUp == status' \in {"exit1", "aborted"} /\ UNCHANGED <<lists, result>>

Next == /\ status = "running"
        /\ GiveUp \/ Get \/ FreeAll \/ \E l \in Handles : Use(l)

Spec == Init /\ [][Next]_vars

=============================================================================
