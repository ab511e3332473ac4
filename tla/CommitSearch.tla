----------------------------- MODULE CommitSearch -----------------------------
(***************************************************************************)
(* What the search for the commit that introduced a bug promises: two      *)
(* commits, a newer and an older one, are moved towards each other over    *)
(* commits that were probed, and the search ends only when every commit    *)
(* between them was given up because no server of it runs.                 *)
(* Commits are numbered from the newest, 1, to the oldest, N.              *)
(***************************************************************************)
EXTENDS Naturals

CONSTANT N   \* the number of commits

VARIABLES searching, newest, oldest, skipped

vars == <<searching, newest, oldest, skipped>>

Between(newer, older) == {c \in 1..N : newer < c /\ c < older}

Init ==
  /\ searching = FALSE
  /\ newest = 1 /\ oldest = N /\ skipped = {}

Begin ==
  /\ ~searching /\ searching' = TRUE
  /\ newest' = 1 /\ oldest' = N
  /\ UNCHANGED skipped

Probe ==
  /\ searching
  /\ \E c \in Between(newest, oldest) \ skipped :
       \/ newest' = c /\ UNCHANGED <<oldest, skipped>>
       \/ oldest' = c /\ UNCHANGED <<newest, skipped>>
       \/ skipped' = skipped \cup {c} /\ UNCHANGED <<newest, oldest>>
  /\ UNCHANGED searching

End ==
  /\ searching /\ searching' = FALSE
  /\ Between(newest, oldest) \subseteq skipped
  /\ UNCHANGED <<newest, oldest, skipped>>

Next == Begin \/ Probe \/ End

Spec == Init /\ [][Next]_vars
=============================================================================
