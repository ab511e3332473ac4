------------------------------ MODULE Bisecting ------------------------------
(***************************************************************************)
(* The script that looks for the commit of MySQL that introduced a bug     *)
(* (bisecting_scripts).  It takes the reports one by one: first it tries   *)
(* the pairs of commits that explained earlier reports, then it searches   *)
(* the list of all commits, newest first.  The list belongs to the whole   *)
(* session: a commit whose server does not come up is deleted from it, for *)
(* this report and for all that follow.                                    *)
(*                                                                         *)
(* Commits are numbered in the order of the list, the newest is 1; indices *)
(* of the list begin at 0, as in the script.                               *)
(***************************************************************************)
EXTENDS Integers, Sequences, FiniteSets, SequencesExt

CONSTANTS
  N,         \* the number of commits
  MaxFiles,  \* a bound on the reports
  MaxFlaky   \* a bound on servers that do not come up although they were built

ASSUME BisectingAssumption ==
  N \in Nat \ {0, 1} /\ MaxFiles \in Nat /\ MaxFlaky \in Nat

Commits == 1..N

VARIABLES
  pc,
  file,          \* the report at hand
  crashing,      \* the commits whose server its query brings down
  broken,        \* the commits that cannot be compiled
  failed,        \* FAILED_COMPILE_COMMITS.json
  flaky,
  known, k,      \* unique_bug.json, and where filter_known_bugs is in it
  all_commits, newer, older,
  report         \* the result for the report at hand, or the last one

vars == <<pc, file, crashing, broken, failed, flaky, known, k, all_commits, newer, older,
          report>>

NoReport == [buggy |-> 0, corr |-> 0]

Init ==
  /\ pc = "idle" /\ file = 0 /\ crashing = {}
  /\ broken \in SUBSET Commits /\ failed = {} /\ flaky = 0
  /\ known = <<>> /\ k = 0
  /\ all_commits = [i \in Commits |-> i]
  /\ newer = 0 /\ older = N - 1
  /\ report = NoReport

CommitAt(i) == all_commits[i + 1]

-----------------------------------------------------------------------------
(* Slip: a server that is not there afterwards was brought down by the     *)
(* query, whether it was there before or not.                              *)
ExecuteQueriesUnasked(c, verdict) ==
  /\ verdict = (IF c \in failed \cup broken \cup crashing THEN "SEG_FAULT" ELSE "PASS")
  /\ UNCHANGED flaky

(* execute_queries: start the server of a commit, run the query, look      *)
(* whether the server is still there.  Commits that failed before are not  *)
(* tried again; now and then a server does not come up in time.            *)
ExecuteQueries(c, verdict) ==
  \/ /\ c \in failed \cup broken
     /\ verdict = "FAIL_TO_COMPILE"
     /\ UNCHANGED flaky
  \/ /\ c \notin failed \cup broken /\ flaky < MaxFlaky
     /\ verdict = "FAIL_TO_COMPILE"
     /\ flaky' = flaky + 1
  \/ /\ c \notin failed \cup broken
     /\ verdict = (IF c \in crashing THEN "SEG_FAULT" ELSE "PASS")
     /\ UNCHANGED flaky

Results == {"PASS", "SEG_FAULT", "FAIL_TO_COMPILE"}

(* Slip: every report gets an entry of its own.                            *)
DumpBuggyCommitAnew(r) ==
  /\ report' = r
  /\ known' = Append(known, [buggy |-> r.buggy, corr |-> r.corr, srcs |-> {file}])

(* dump_buggy_commit: another report of a commit on file is filed with it. *)
DumpBuggyCommit(r) ==
  /\ report' = r
  /\ known' = IF \E i \in DOMAIN known : known[i].buggy = r.buggy
              THEN [i \in DOMAIN known |->
                      IF known[i].buggy = r.buggy
                      THEN [known[i] EXCEPT !.srcs = @ \cup {file}] ELSE known[i]]
              ELSE Append(known, [buggy |-> r.buggy, corr |-> r.corr, srcs |-> {file}])

-----------------------------------------------------------------------------
(* The next report.                                                        *)
StartBisect ==
  /\ pc = "idle" /\ file < MaxFiles
  /\ pc' = "filter" /\ file' = file + 1 /\ k' = 1
  /\ crashing' \in SUBSET Commits
  /\ report' = NoReport
  /\ UNCHANGED <<broken, failed, flaky, known, all_commits, newer, older>>

(* filter_known_bugs: does the query crash the buggy commit of a known bug *)
TryBuggy ==
  /\ pc = "filter" /\ k \in DOMAIN known
  /\ \E verdict \in Results :
       /\ ExecuteQueries(known[k].buggy, verdict)
       /\ IF verdict = "SEG_FAULT" THEN pc' = "confirm" /\ UNCHANGED k
                                   ELSE k' = k + 1 /\ UNCHANGED pc
  /\ failed' = failed \cup ({known[k].buggy} \cap broken)
  /\ UNCHANGED <<file, crashing, broken, known, all_commits, newer, older, report>>

(* ... and not the one before?                                             *)
TryCorrect ==
  /\ pc = "confirm"
  /\ \E verdict \in Results :
       /\ ExecuteQueries(known[k].corr, verdict)
       /\ IF verdict = "PASS"
          THEN /\ DumpBuggyCommit([buggy |-> known[k].buggy, corr |-> known[k].corr])
               /\ pc' = "idle" /\ UNCHANGED k
          ELSE pc' = "filter" /\ k' = k + 1 /\ UNCHANGED <<known, report>>
  /\ failed' = failed \cup ({known[k].corr} \cap broken)
  /\ UNCHANGED <<file, crashing, broken, all_commits, newer, older>>

(* Slip: the length of the list for its last index.                        *)
BeginSearchPastEnd ==
  /\ pc = "filter" /\ k \notin DOMAIN known
  /\ pc' = "bisect"
  /\ newer' = 0 /\ older' = Len(all_commits)
  /\ UNCHANGED <<file, crashing, broken, failed, flaky, known, k, all_commits, report>>

(* No known bug explains it.                                               *)
BeginSearch ==
  /\ pc = "filter" /\ k \notin DOMAIN known
  /\ pc' = "bisect"
  /\ newer' = 0 /\ older' = Len(all_commits) - 1
  /\ UNCHANGED <<file, crashing, broken, failed, flaky, known, k, all_commits, report>>

(* Slip: neighbours are not close enough.                                  *)
FoundOnlyEqual == older - newer < 1

Found == older - newer <= 1
Middle == (newer + older) \div 2

(* Slip: the index is taken for one that begins at 1.                      *)
DeletedBefore == RemoveAt(all_commits, Middle)

Deleted == RemoveAt(all_commits, Middle + 1)

(* One round of bisecting_commits.                                         *)
Bisect ==
  /\ pc = "bisect" /\ ~Found
  /\ \E verdict \in Results :
       /\ ExecuteQueries(CommitAt(Middle), verdict)
       /\ CASE verdict = "PASS" ->
                 older' = Middle /\ UNCHANGED <<newer, all_commits, failed>>
            [] verdict = "FAIL_TO_COMPILE" ->
                 /\ failed' = failed \cup {CommitAt(Middle)}
                 /\ all_commits' = Deleted
                 /\ older' = older - 1
                 /\ UNCHANGED newer
            [] verdict = "SEG_FAULT" ->
                 newer' = Middle /\ UNCHANGED <<older, all_commits, failed>>
  /\ UNCHANGED <<pc, file, crashing, broken, known, k, report>>

EndSearch ==
  /\ pc = "bisect" /\ Found
  /\ DumpBuggyCommit([buggy |-> CommitAt(newer), corr |-> CommitAt(older)])
  /\ pc' = "idle"
  /\ UNCHANGED <<file, crashing, broken, failed, flaky, k, all_commits, newer, older>>

Next == StartBisect \/ TryBuggy \/ TryCorrect \/ BeginSearch \/ Bisect \/ EndSearch

Spec == Init /\ [][Next]_vars

(* The script goes on by itself.                                           *)
FairSpec == Spec /\ WF_vars(Next)

-----------------------------------------------------------------------------
(* The variables have their types, and the indices are in the list.        *)
TypeOK ==
  /\ pc \in {"idle", "filter", "confirm", "bisect"}
  /\ file \in 0..MaxFiles /\ flaky \in 0..MaxFlaky
  /\ crashing \subseteq Commits /\ broken \subseteq Commits /\ failed \subseteq Commits
  /\ known \in Seq([buggy : Commits, corr : Commits, srcs : SUBSET (1..MaxFiles)])
  /\ k \in Nat
  /\ all_commits \in Seq(Commits)
  /\ newer \in 0..(Len(all_commits) - 1) /\ older \in 0..(Len(all_commits) - 1)
  /\ report \in [buggy : 0..N, corr : 0..N]

Between(buggy, corr) == {c \in Commits : buggy < c /\ c < corr}

(* For a report that crashes the newest commit and not the oldest one, the *)
(* answer is right: the commit named crashes, the one named as correct     *)
(* does not, and all between them are on file as failing to run.           *)
ReportIsBoundary ==
  report # NoReport /\ 1 \in crashing /\ N \notin crashing =>
    /\ report.buggy \in crashing /\ report.corr \notin crashing
    /\ Between(report.buggy, report.corr) \subseteq failed

(* A commit is on file once, and every report that was dealt with is with  *)
(* one of them.                                                            *)
ReportsAreFiled ==
  /\ \A i, j \in DOMAIN known : known[i].buggy = known[j].buggy => i = j
  /\ \A f \in 1..file : (f < file \/ pc = "idle") =>
       Cardinality({i \in DOMAIN known : f \in known[i].srcs}) = 1

(* The list and its two indices implement the search in the history of     *)
(* commits, although deletions shift the list under the indices.           *)
Search ==
  INSTANCE CommitSearch WITH
    searching <- pc = "bisect",
    newest <- CommitAt(newer), oldest <- CommitAt(older),
    skipped <- Commits \ {all_commits[i] : i \in DOMAIN all_commits}
ImplementsSearch == Search!Spec

(* What a report may still take: two tries for every known bug left, then  *)
(* a round for every commit between the indices.                           *)
TriesLeft == 2 * (Len(known) + 1 - k)
WorkLeft ==
  CASE pc = "idle" -> 0
    [] pc = "bisect" -> older - newer
    [] pc = "filter" -> Len(all_commits) + TriesLeft
    [] pc = "confirm" -> Len(all_commits) + TriesLeft - 1

(* Every step on a report leaves less to do, down to nothing, whatever the *)
(* servers do (bisecting.py:35), and a round whose server came up leaves   *)
(* half of the commits: indices that no longer move would start servers    *)
(* for ever.                                                               *)
SearchConverges ==
  [][ /\ file' = file => WorkLeft' \in 0..(WorkLeft - 1)
      /\ pc = "bisect" /\ pc' = "bisect" /\ UNCHANGED all_commits =>
           2 * (older' - newer') <= older - newer + 1 ]_vars

(* Every report is dealt with: the rounds come to an end whatever fails.   *)
EveryReportEnds == \A f \in 1..MaxFiles : <>(file >= f /\ (file > f \/ pc = "idle"))
=============================================================================
