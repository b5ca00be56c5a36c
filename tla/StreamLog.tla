------------------------------ MODULE StreamLog ------------------------------
(***************************************************************************)
(* What a workflow stream promises to those who publish to it and to one   *)
(* subscriber, with no signals, updates, retries or runs in sight: an      *)
(* append-only log of distinct items with stable offsets, a base below     *)
(* which items have been discarded, and the items the subscriber has been  *)
(* given, in order and with no gap but discarded ones.                     *)
(***************************************************************************)
EXTENDS Integers, Sequences

CONSTANTS Wanted(_),    \* whether the subscriber asked for an item's topic
          FromOffset    \* where it asked to start

VARIABLES items,    \* everything ever appended: offset o is items[o + 1]
          base,     \* offsets below it have been discarded
          given     \* the sequence of [offset, item] the subscriber was given

logVars == <<items, base, given>>

LogInit == items = <<>> /\ base = 0 /\ given = <<>>

\* A batch is appended whole, and no item is ever appended twice.
AppendBatch ==
  /\ Len(items') > Len(items)
  /\ SubSeq(items', 1, Len(items)) = items
  /\ \A i, j \in DOMAIN items' : items'[i] = items'[j] => i = j
  /\ UNCHANGED <<base, given>>

Discard ==
  /\ base' \in base + 1 .. Len(items)
  /\ UNCHANGED <<items, given>>

\* The first offset the subscriber has not been given yet.
Resume == IF given = <<>> THEN FromOffset ELSE given[Len(given)].offset + 1

\* The next item, skipping unwanted items and items that are gone.
Give ==
  /\ \E o \in Resume .. Len(items) - 1 :
        /\ Wanted(items[o + 1])
        /\ \A p \in Resume .. o - 1 : Wanted(items[p + 1]) => p < base
        /\ given' = Append(given, [offset |-> o, item |-> items[o + 1]])
  /\ UNCHANGED <<items, base>>

LogNext == AppendBatch \/ Discard \/ Give

LogSpec == LogInit /\ [][LogNext]_logVars
=============================================================================
