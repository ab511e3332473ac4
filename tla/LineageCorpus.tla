---------------------------- MODULE LineageCorpus ----------------------------
(***************************************************************************)
(* What the query queue promises to the fuzzing loop, without objects,     *)
(* pointers or indexes into a shared structure.                            *)
(*                                                                         *)
(* The corpus is a list of lineages, each represented by its latest        *)
(* sequence.  A run writes a draft.  It either starts a lineage or picks   *)
(* the next one in turn; a run that picked one may end by replacing that   *)
(* one, and no other, with its draft, and then the same lineage is the     *)
(* next to be picked.  Nothing else changes the corpus.                    *)
(***************************************************************************)
EXTENDS Integers, Sequences

CONSTANTS
  Kind,     \* what a sequence is made of
  Opening   \* what every draft begins with

None == -1

VARIABLES
  corpus,   \* the latest sequence of every lineage
  cursor,   \* how many lineages the current round has been through
  picked,   \* the lineage the run picked, or None
  draft     \* what the run has written; empty between runs

corpusVars == <<corpus, cursor, picked, draft>>

Init ==
  /\ corpus = <<>> /\ cursor = 0
  /\ picked = None /\ draft = <<>>

Begin ==
  /\ draft = <<>>
  /\ draft' = Opening
  /\ UNCHANGED <<corpus, cursor, picked>>

(* Lineages are picked round robin.                                        *)
Pick ==
  /\ draft # <<>> /\ picked = None /\ corpus # <<>>
  /\ picked' = cursor % Len(corpus)
  /\ cursor' = picked' + 1
  /\ UNCHANGED <<corpus, draft>>

Write ==
  /\ draft # <<>>
  /\ \E k \in Kind : draft' = Append(draft, k)
  /\ UNCHANGED <<corpus, cursor, picked>>

Finish ==
  /\ draft # <<>>
  /\ draft' = <<>> /\ picked' = None

Discard ==
  /\ Finish
  /\ UNCHANGED <<corpus, cursor>>

Found ==
  /\ Finish
  /\ picked = None
  /\ corpus' = Append(corpus, draft)
  /\ UNCHANGED cursor

Improve ==
  /\ Finish
  /\ picked # None
  /\ corpus' = [corpus EXCEPT ![picked + 1] = draft]
  /\ cursor' = picked

Next == Begin \/ Pick \/ Write \/ Discard \/ Found \/ Improve

Spec == Init /\ [][Next]_corpusVars
=============================================================================
