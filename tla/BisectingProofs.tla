--------------------------- MODULE BisectingProofs ---------------------------
(***************************************************************************)
(* What holds of Bisecting for every number of commits.                    *)
(*                                                                         *)
(* IsList is what deletions keep of the list: it is ordered and both ends  *)
(* are there, so that two neighbours of the list have only deleted commits *)
(* between them, and every deleted commit is on file as failed.  SearchInv *)
(* keeps the two indices apart and the verdicts of the search at hand;     *)
(* KnownInv says that the pairs on file were neighbours when they were     *)
(* found, so that a report explained by one of them is explained rightly.  *)
(***************************************************************************)
EXTENDS Bisecting, FiniteSetTheorems, SequenceTheorems, TLAPS

Elements(s) == {s[i] : i \in DOMAIN s}

IsList(s) ==
  /\ s \in Seq(Commits)
  /\ Len(s) >= 2
  /\ s[1] = 1 /\ s[Len(s)] = N
  /\ \A i, j \in 1..Len(s) : i < j => s[i] < s[j]

ListInv ==
  /\ IsList(all_commits)
  /\ Commits \ Elements(all_commits) \subseteq failed

SearchInv ==
  /\ newer \in Nat /\ older \in Nat
  /\ newer < older /\ older < Len(all_commits)
  /\ pc = "bisect" /\ 1 \in crashing /\ N \notin crashing =>
       CommitAt(newer) \in crashing /\ CommitAt(older) \notin crashing

Explained(b, skipped) ==
  b.buggy < b.corr /\ Between(b.buggy, b.corr) \subseteq skipped

KnownInv ==
  /\ \A i \in DOMAIN known : Explained(known[i], failed)
  /\ \A i, j \in DOMAIN known : known[i].buggy = known[j].buggy => i = j
  /\ pc = "confirm" => k \in DOMAIN known /\ known[k].buggy \in crashing

(* The reports that were dealt with.                                       *)
Done == {f \in 1..file : f < file \/ pc = "idle"}

FiledInv ==
  /\ pc # "idle" => file >= 1
  /\ \A f \in Done : \E i \in DOMAIN known : f \in known[i].srcs
  /\ \A i, j \in DOMAIN known : \A f \in known[i].srcs \cap known[j].srcs : i = j
  /\ \A i \in DOMAIN known : known[i].srcs \subseteq Done

ReportInv ==
  /\ report # NoReport => pc = "idle"
  /\ ReportIsBoundary

BisectInv == TypeOK /\ ListInv /\ SearchInv /\ KnownInv /\ FiledInv /\ ReportInv

Bug == [buggy : Commits, corr : Commits, srcs : SUBSET (1..MaxFiles)]

-----------------------------------------------------------------------------
(* The list of commits                                                     *)

(* The domain and the elements of a sequence.                              *)
LEMMA SeqFacts ==
  ASSUME NEW S, NEW s \in Seq(S)
  PROVE  /\ Len(s) \in Nat /\ DOMAIN s = 1..Len(s)
         /\ \A i \in 1..Len(s) : s[i] \in S
BY LenProperties

(* A deletion moves up what comes after it.                                *)
LEMMA RemoveAtFacts ==
  ASSUME NEW S, NEW s \in Seq(S), NEW d \in 1..Len(s)
  PROVE  /\ RemoveAt(s, d) \in Seq(S)
         /\ Len(RemoveAt(s, d)) = Len(s) - 1
         /\ \A i \in 1..(d - 1) : RemoveAt(s, d)[i] = s[i]
         /\ \A i \in d..(Len(s) - 1) : RemoveAt(s, d)[i] = s[i + 1]
<1>. DEFINE low == SubSeq(s, 1, d - 1)
            high == SubSeq(s, d + 1, Len(s))
            t == low \o high
<1>1. Len(s) \in Nat /\ d \in Int /\ \A i \in 1..Len(s) : s[i] \in S
  BY SeqFacts
<1>2. /\ low \in Seq(S) /\ Len(low) = d - 1
      /\ \A i \in 1..(d - 1) : low[i] = s[i]
  <2>1. \A i \in 1..(d - 1) : s[i] \in S
    BY <1>1
  <2>2. /\ low \in Seq(S) /\ Len(low) = (IF 1 <= d - 1 THEN (d - 1) - 1 + 1 ELSE 0)
        /\ \A i \in 1..((d - 1) - 1 + 1) : low[i] = s[1 + i - 1]
    BY <1>1, <2>1, SubSeqProperties
  <2>. HIDE DEF low
  <2>. QED  BY <1>1, <2>2
<1>3. /\ high \in Seq(S) /\ Len(high) = Len(s) - d
      /\ \A i \in 1..(Len(s) - d) : high[i] = s[d + i]
  <2>1. \A i \in (d + 1)..Len(s) : s[i] \in S
    BY <1>1
  <2>2. /\ high \in Seq(S)
        /\ Len(high) = (IF d + 1 <= Len(s) THEN Len(s) - (d + 1) + 1 ELSE 0)
        /\ \A i \in 1..(Len(s) - (d + 1) + 1) : high[i] = s[(d + 1) + i - 1]
    BY <1>1, <2>1, SubSeqProperties
  <2>. HIDE DEF high
  <2>. QED  BY <1>1, <2>2
<1>. HIDE DEF low, high
<1>4. /\ t \in Seq(S) /\ Len(t) = Len(low) + Len(high)
      /\ \A i \in 1..(Len(low) + Len(high)) :
           t[i] = IF i <= Len(low) THEN low[i] ELSE high[i - Len(low)]
  BY <1>2, <1>3, ConcatProperties
<1>5. RemoveAt(s, d) = t
  BY DEF RemoveAt, low, high
<1>. HIDE DEF t
<1>6. Len(t) = Len(s) - 1
  BY <1>1, <1>2, <1>3, <1>4
<1>7. ASSUME NEW i \in 1..(d - 1)  PROVE t[i] = s[i]
  BY <1>1, <1>2, <1>3, <1>4
<1>8. ASSUME NEW i \in d..(Len(s) - 1)  PROVE t[i] = s[i + 1]
  <2>1. t[i] = high[i - (d - 1)]
    BY <1>1, <1>2, <1>3, <1>4
  <2>2. i - (d - 1) \in 1..(Len(s) - d) /\ d + (i - (d - 1)) = i + 1
    BY <1>1
  <2>. QED  BY <1>3, <2>1, <2>2
<1>. QED  BY <1>4, <1>5, <1>6, <1>7, <1>8

(* A list without one of its inner commits is a list, and has all the      *)
(* others.                                                                 *)
LEMMA DeletionFacts ==
  ASSUME NEW s, IsList(s), NEW d \in 2..(Len(s) - 1), NEW t, t = RemoveAt(s, d)
  PROVE  /\ IsList(t) /\ Len(t) = Len(s) - 1
         /\ \A i \in 1..(d - 1) : t[i] = s[i]
         /\ \A i \in d..Len(t) : t[i] = s[i + 1]
         /\ Elements(t) = Elements(s) \ {s[d]}
<1>. USE BisectingAssumption
<1>1. /\ s \in Seq(Commits) /\ Len(s) \in Nat /\ DOMAIN s = 1..Len(s)
      /\ \A i \in 1..Len(s) : s[i] \in Nat
      /\ s[1] = 1 /\ s[Len(s)] = N
      /\ \A i, j \in 1..Len(s) : i < j => s[i] < s[j]
  BY SeqFacts DEF IsList, Commits
<1>2. d \in 1..Len(s) /\ d \in Nat
  BY <1>1
<1>3. /\ t \in Seq(Commits) /\ Len(t) = Len(s) - 1
      /\ \A i \in 1..(d - 1) : t[i] = s[i]
      /\ \A i \in d..(Len(s) - 1) : t[i] = s[i + 1]
  BY <1>1, <1>2, RemoveAtFacts
<1>4. DOMAIN t = 1..(Len(s) - 1)
  BY <1>3, SeqFacts
<1>5. t[1] = 1 /\ t[Len(t)] = N
  <2>1. 1 \in 1..(d - 1) /\ Len(s) - 1 \in d..(Len(s) - 1) /\ (Len(s) - 1) + 1 = Len(s)
    BY <1>1
  <2>. QED  BY <1>1, <1>3, <2>1
<1>6. ASSUME NEW i \in 1..(Len(s) - 1), NEW j \in 1..(Len(s) - 1), i < j
      PROVE  t[i] < t[j]
  <2>1. CASE j < d
    <3>1. i \in 1..(d - 1) /\ j \in 1..(d - 1) /\ i \in 1..Len(s) /\ j \in 1..Len(s)
      BY <1>1, <1>6, <2>1
    <3>. QED  BY <1>1, <1>3, <1>6, <3>1
  <2>2. CASE i < d /\ d <= j
    <3>1. /\ i \in 1..(d - 1) /\ j \in d..(Len(s) - 1)
          /\ i \in 1..Len(s) /\ j + 1 \in 1..Len(s) /\ i < j + 1
      BY <1>1, <1>6, <2>2
    <3>. QED  BY <1>1, <1>3, <3>1
  <2>3. CASE d <= i
    <3>1. /\ i \in d..(Len(s) - 1) /\ j \in d..(Len(s) - 1)
          /\ i + 1 \in 1..Len(s) /\ j + 1 \in 1..Len(s) /\ i + 1 < j + 1
      BY <1>1, <1>6, <2>3
    <3>. QED  BY <1>1, <1>3, <3>1
  <2>. QED  BY <1>1, <2>1, <2>2, <2>3
<1>7. IsList(t)
  <2>1. Len(t) >= 2
    BY <1>1, <1>3
  <2>. QED  BY <1>3, <1>5, <1>6, <2>1 DEF IsList
<1>8. Elements(t) = Elements(s) \ {s[d]}
  <2>1. ASSUME NEW i \in 1..(Len(s) - 1)
        PROVE  t[i] \in Elements(s) /\ t[i] # s[d]
    <3>1. CASE i < d
      <4>1. i \in 1..(d - 1) /\ i \in 1..Len(s)
        BY <1>1, <3>1
      <4>2. t[i] = s[i] /\ s[i] < s[d] /\ s[d] \in Nat
        BY <1>1, <1>2, <1>3, <3>1, <4>1
      <4>. QED  BY <1>1, <4>1, <4>2 DEF Elements
    <3>2. CASE d <= i
      <4>1. i \in d..(Len(s) - 1) /\ i + 1 \in 1..Len(s) /\ d < i + 1
        BY <1>1, <3>2
      <4>2. t[i] = s[i + 1] /\ s[d] < s[i + 1] /\ s[d] \in Nat
        BY <1>1, <1>2, <1>3, <4>1
      <4>. QED  BY <1>1, <4>1, <4>2 DEF Elements
    <3>. QED  BY <1>1, <3>1, <3>2
  <2>2. ASSUME NEW i \in 1..Len(s), i # d
        PROVE  s[i] \in Elements(t)
    <3>1. CASE i < d
      <4>1. i \in 1..(d - 1) /\ i \in DOMAIN t
        BY <1>1, <1>4, <3>1
      <4>. QED  BY <1>3, <4>1 DEF Elements
    <3>2. CASE d < i
      <4>1. i - 1 \in d..(Len(s) - 1) /\ i - 1 \in DOMAIN t /\ (i - 1) + 1 = i
        BY <1>1, <1>4, <3>2
      <4>. QED  BY <1>3, <4>1 DEF Elements
    <3>. QED  BY <1>1, <2>2, <3>1, <3>2
  <2>3. Elements(t) \subseteq Elements(s) \ {s[d]}
    BY <1>4, <2>1 DEF Elements
  <2>4. Elements(s) \ {s[d]} \subseteq Elements(t)
    BY <1>1, <2>2 DEF Elements
  <2>. QED  BY <2>3, <2>4
<1>9. \A i \in d..Len(t) : t[i] = s[i + 1]
  BY <1>3
<1>. QED  BY <1>3, <1>7, <1>8, <1>9

(* Between two neighbours of a list lie only commits that are not in it.   *)
LEMMA NeighboursFacts ==
  ASSUME NEW s, IsList(s), NEW a \in Nat, NEW b \in Nat,
         a < b, b < Len(s), b - a <= 1
  PROVE  /\ s[a + 1] < s[b + 1]
         /\ Between(s[a + 1], s[b + 1]) \cap Elements(s) = {}
<1>1. /\ Len(s) \in Nat /\ DOMAIN s = 1..Len(s)
      /\ \A i \in 1..Len(s) : s[i] \in Nat
      /\ \A i, j \in 1..Len(s) : i < j => s[i] < s[j]
  BY SeqFacts, BisectingAssumption DEF IsList, Commits
<1>2. b = a + 1 /\ a + 1 \in 1..Len(s) /\ b + 1 \in 1..Len(s)
  BY <1>1
<1>3. s[a + 1] < s[b + 1]
  BY <1>1, <1>2
<1>4. ASSUME NEW i \in 1..Len(s)
      PROVE  ~(s[a + 1] < s[i] /\ s[i] < s[b + 1])
  <2>1. CASE i <= a + 1
    <3>1. i < a + 1 \/ i = a + 1
      BY <2>1, <1>1
    <3>2. s[i] <= s[a + 1]
      BY <1>1, <1>2, <3>1
    <3>. QED  BY <1>1, <1>2, <3>2
  <2>2. CASE b + 1 <= i
    <3>1. b + 1 < i \/ i = b + 1
      BY <2>2, <1>1
    <3>2. s[b + 1] <= s[i]
      BY <1>1, <1>2, <3>1
    <3>. QED  BY <1>1, <1>2, <3>2
  <2>. QED  BY <1>1, <1>2, <2>1, <2>2
<1>5. Between(s[a + 1], s[b + 1]) \cap Elements(s) = {}
  BY <1>1, <1>4 DEF Between, Elements
<1>. QED  BY <1>3, <1>5

-----------------------------------------------------------------------------
(* What is on file                                                         *)

(* What a verdict says.                                                    *)
LEMMA VerdictFacts ==
  ASSUME TypeOK, NEW c, NEW verdict, ExecuteQueries(c, verdict)
  PROVE  /\ flaky' \in 0..MaxFlaky
         /\ verdict = "SEG_FAULT" => c \in crashing
         /\ verdict = "PASS" => c \notin crashing
<1>1. flaky \in 0..MaxFlaky /\ MaxFlaky \in Nat
  BY BisectingAssumption DEF TypeOK
<1>2. CASE flaky < MaxFlaky /\ verdict = "FAIL_TO_COMPILE" /\ flaky' = flaky + 1
  BY <1>1, <1>2
<1>3. CASE verdict = "FAIL_TO_COMPILE" /\ UNCHANGED flaky
  BY <1>1, <1>3
<1>4. CASE verdict = (IF c \in crashing THEN "SEG_FAULT" ELSE "PASS") /\ UNCHANGED flaky
  BY <1>1, <1>4
<1>. QED  BY <1>2, <1>3, <1>4 DEF ExecuteQueries

(* Filing a report touches one entry, new or old.                          *)
LEMMA OneEntry ==
  ASSUME TypeOK, KnownInv, file \in 1..MaxFiles,
         NEW r, r.buggy \in Commits, r.corr \in Commits,
         DumpBuggyCommit(r)
  PROVE  /\ known' \in Seq(Bug) /\ report' = r
         /\ DOMAIN known \subseteq DOMAIN known'
         /\ \E e \in DOMAIN known' :
              /\ \A i \in DOMAIN known' \ {e} : i \in DOMAIN known /\ known'[i] = known[i]
              /\ \/ /\ e \in DOMAIN known
                    /\ known'[e].buggy = known[e].buggy /\ known'[e].corr = known[e].corr
                    /\ known'[e].srcs = known[e].srcs \cup {file}
                 \/ /\ e \notin DOMAIN known
                    /\ known'[e].buggy = r.buggy /\ known'[e].corr = r.corr
                    /\ known'[e].srcs = {file}
                    /\ \A i \in DOMAIN known : known[i].buggy # r.buggy
<1>1. /\ known \in Seq(Bug) /\ Len(known) \in Nat /\ DOMAIN known = 1..Len(known)
      /\ \A i \in DOMAIN known : known[i] \in Bug
  <2>1. known \in Seq(Bug)
    BY DEF TypeOK, Bug
  <2>. QED  BY <2>1, SeqFacts
<1>2. report' = r
  BY DEF DumpBuggyCommit
<1>3. CASE \E i \in DOMAIN known : known[i].buggy = r.buggy
  <2>1. PICK e \in DOMAIN known : known[e].buggy = r.buggy
    BY <1>3
  <2>2. \A i \in DOMAIN known \ {e} : known[i].buggy # r.buggy
    BY <2>1 DEF KnownInv
  <2>3. known' = [i \in DOMAIN known |->
                    IF known[i].buggy = r.buggy
                    THEN [known[i] EXCEPT !.srcs = @ \cup {file}] ELSE known[i]]
    BY <1>3 DEF DumpBuggyCommit
  <2>4. DOMAIN known' = DOMAIN known
        /\ \A i \in DOMAIN known \ {e} : known'[i] = known[i]
    BY <2>2, <2>3
  <2>5. known'[e] = [known[e] EXCEPT !.srcs = @ \cup {file}]
    BY <2>1, <2>3
  <2>6. /\ known'[e].buggy = known[e].buggy /\ known'[e].corr = known[e].corr
        /\ known'[e].srcs = known[e].srcs \cup {file} /\ known'[e] \in Bug
    BY <1>1, <2>1, <2>5 DEF Bug
  <2>7. known' \in Seq(Bug)
    <3>1. DOMAIN known' = 1..Len(known)
      BY <1>1, <2>4
    <3>2. \A i \in 1..Len(known) : known'[i] \in Bug
      BY <1>1, <2>4, <2>6
    <3>3. known' = [i \in 1..Len(known) |-> known'[i]]
      BY <2>3, <3>1
    <3>4. known' \in [1..Len(known) -> Bug]
      BY <3>2, <3>3
    <3>. QED  BY <1>1, <3>4, SeqDef
  <2>. QED  BY <1>2, <2>1, <2>4, <2>6, <2>7
<1>4. CASE ~\E i \in DOMAIN known : known[i].buggy = r.buggy
  <2>. DEFINE entry == [buggy |-> r.buggy, corr |-> r.corr, srcs |-> {file}]
              e == Len(known) + 1
  <2>1. known' = Append(known, entry)
    BY <1>4 DEF DumpBuggyCommit
  <2>2. entry \in Bug /\ entry.buggy = r.buggy /\ entry.corr = r.corr /\ entry.srcs = {file}
    BY DEF Bug
  <2>. HIDE DEF entry
  <2>3. /\ known' \in Seq(Bug) /\ Len(known') = Len(known) + 1
        /\ \A i \in 1..Len(known) : known'[i] = known[i]
        /\ known'[Len(known) + 1] = entry
    BY <1>1, <2>1, <2>2, AppendProperties
  <2>4. DOMAIN known' = 1..(Len(known) + 1)
    BY <2>3, SeqFacts
  <2>5. /\ DOMAIN known \subseteq DOMAIN known' /\ e \in DOMAIN known'
        /\ e \notin DOMAIN known /\ \A i \in DOMAIN known' \ {e} : i \in DOMAIN known
    BY <1>1, <2>4
  <2>6. \A i \in DOMAIN known : known'[i] = known[i]
    BY <1>1, <2>3
  <2>7. known'[e] = entry
    BY <2>3
  <2>. HIDE DEF e
  <2>. QED  BY <1>2, <1>4, <2>2, <2>3, <2>5, <2>6, <2>7
<1>. QED  BY <1>3, <1>4

(* Filing an explained report keeps the file in order.                     *)
LEMMA FilingKeeps ==
  ASSUME TypeOK, KnownInv, FiledInv, pc # "idle", pc' = "idle",
         UNCHANGED file, failed \subseteq failed',
         NEW r, r.buggy \in Commits, r.corr \in Commits,
         Explained(r, failed'), DumpBuggyCommit(r)
  PROVE  known' \in Seq(Bug) /\ report' = r /\ KnownInv' /\ FiledInv'
<1>1. /\ file \in 1..MaxFiles
      /\ Done' = Done \cup {file} /\ file \notin Done
  <2>1. file \in Nat /\ file >= 1 /\ file \in 0..MaxFiles /\ MaxFiles \in Nat
    BY BisectingAssumption DEF TypeOK, FiledInv
  <2>2. Done = {f \in 1..file : f < file} /\ Done' = 1..file
    BY DEF Done
  <2>3. \A f \in 1..file : f < file \/ f = file
    BY <2>1
  <2>4. file \in 1..file /\ ~(file < file)
    BY <2>1
  <2>. QED  BY <2>1, <2>2, <2>3, <2>4
<1>2. /\ known' \in Seq(Bug) /\ report' = r
      /\ DOMAIN known \subseteq DOMAIN known'
      /\ \E e \in DOMAIN known' :
           /\ \A i \in DOMAIN known' \ {e} : i \in DOMAIN known /\ known'[i] = known[i]
           /\ \/ /\ e \in DOMAIN known
                 /\ known'[e].buggy = known[e].buggy /\ known'[e].corr = known[e].corr
                 /\ known'[e].srcs = known[e].srcs \cup {file}
              \/ /\ e \notin DOMAIN known
                 /\ known'[e].buggy = r.buggy /\ known'[e].corr = r.corr
                 /\ known'[e].srcs = {file}
                 /\ \A i \in DOMAIN known : known[i].buggy # r.buggy
  BY <1>1, OneEntry
<1>3. PICK e \in DOMAIN known' :
           /\ \A i \in DOMAIN known' \ {e} : i \in DOMAIN known /\ known'[i] = known[i]
           /\ \/ /\ e \in DOMAIN known
                 /\ known'[e].buggy = known[e].buggy /\ known'[e].corr = known[e].corr
                 /\ known'[e].srcs = known[e].srcs \cup {file}
              \/ /\ e \notin DOMAIN known
                 /\ known'[e].buggy = r.buggy /\ known'[e].corr = r.corr
                 /\ known'[e].srcs = {file}
                 /\ \A i \in DOMAIN known : known[i].buggy # r.buggy
  BY <1>2
<1>4. \A i \in DOMAIN known : known[i].srcs \subseteq Done
  BY DEF FiledInv
<1>5. \A i \in DOMAIN known' : Explained(known'[i], failed')
  <2>. TAKE i \in DOMAIN known'
  <2>1. CASE i # e
    BY <1>3, <2>1 DEF KnownInv, Explained
  <2>2. CASE i = e /\ e \in DOMAIN known
    BY <1>3, <2>2 DEF KnownInv, Explained
  <2>3. CASE i = e /\ e \notin DOMAIN known
    BY <1>3, <2>3 DEF Explained
  <2>. QED  BY <2>1, <2>2, <2>3
<1>6. \A i, j \in DOMAIN known' : known'[i].buggy = known'[j].buggy => i = j
  <2>1. CASE e \in DOMAIN known
    <3>1. \A i \in DOMAIN known' : i \in DOMAIN known /\ known'[i].buggy = known[i].buggy
      BY <1>3, <2>1
    <3>. QED  BY <3>1 DEF KnownInv
  <2>2. CASE e \notin DOMAIN known
    <3>1. \A i \in DOMAIN known' \ {e} : known'[i].buggy # known'[e].buggy
      BY <1>3, <2>2
    <3>2. \A i, j \in DOMAIN known' \ {e} : known'[i].buggy = known'[j].buggy => i = j
      BY <1>3 DEF KnownInv
    <3>. QED  BY <3>1, <3>2
  <2>. QED  BY <2>1, <2>2
<1>7. KnownInv'
  BY <1>5, <1>6 DEF KnownInv
<1>8. \A i \in DOMAIN known' : known'[i].srcs \subseteq Done'
  <2>. TAKE i \in DOMAIN known'
  <2>1. CASE i # e
    BY <1>1, <1>3, <1>4, <2>1
  <2>2. CASE i = e
    BY <1>1, <1>3, <1>4, <2>2
  <2>. QED  BY <2>1, <2>2
<1>9. \A f \in Done' : \E i \in DOMAIN known' : f \in known'[i].srcs
  <2>. TAKE f \in Done'
  <2>1. CASE f = file
    BY <1>3, <2>1
  <2>2. CASE f \in Done
    <3>1. PICK i \in DOMAIN known : f \in known[i].srcs
      BY <2>2 DEF FiledInv
    <3>2. i \in DOMAIN known' /\ f \in known'[i].srcs
      BY <1>2, <1>3, <3>1
    <3>. QED  BY <3>2
  <2>. QED  BY <1>1, <2>1, <2>2
<1>10. \A i, j \in DOMAIN known' : \A f \in known'[i].srcs \cap known'[j].srcs : i = j
  <2>1. \A i \in DOMAIN known' \ {e} : file \notin known'[i].srcs
    BY <1>1, <1>3, <1>4
  <2>2. \A i \in DOMAIN known' : \A f \in known'[i].srcs \ {file} :
          i \in DOMAIN known /\ f \in known[i].srcs
    BY <1>3
  <2>. SUFFICES ASSUME NEW i \in DOMAIN known', NEW j \in DOMAIN known',
                       NEW f \in known'[i].srcs \cap known'[j].srcs
                PROVE  i = j
    OBVIOUS
  <2>3. CASE f = file
    BY <2>1, <2>3
  <2>4. CASE f # file
    BY <2>2, <2>4 DEF FiledInv
  <2>. QED  BY <2>3, <2>4
<1>11. file' >= 1
  BY <1>1
<1>12. FiledInv'
  BY <1>8, <1>9, <1>10, <1>11 DEF FiledInv
<1>. QED  BY <1>2, <1>7, <1>12

-----------------------------------------------------------------------------
(* The steps of the script                                                 *)

(* The next report crashes other commits.                                  *)
LEMMA StartBisectKeeps ==
  ASSUME BisectInv, StartBisect
  PROVE  BisectInv'
<1>. USE BisectingAssumption DEF BisectInv, StartBisect
<1>1. file' = file + 1 /\ file \in 0..MaxFiles /\ file < MaxFiles
  BY DEF TypeOK
<1>2. TypeOK'
  <2>1. file' \in 0..MaxFiles
    BY <1>1
  <2>2. report' \in [buggy : 0..N, corr : 0..N]
    BY DEF NoReport
  <2>. QED  BY <2>1, <2>2 DEF TypeOK
<1>3. ListInv' /\ SearchInv'
  BY DEF ListInv, SearchInv, CommitAt
<1>4. KnownInv'
  BY DEF KnownInv
<1>5. FiledInv'
  <2>1. Done' = Done
    <3>1. Done = 1..file
      BY DEF Done
    <3>2. Done' = {f \in 1..file' : f < file'}
      BY DEF Done
    <3>. QED  BY <1>1, <3>1, <3>2
  <2>2. file' >= 1
    BY <1>1
  <2>. QED  BY <2>1, <2>2 DEF FiledInv
<1>6. ReportInv'
  BY DEF ReportInv, ReportIsBoundary
<1>. QED  BY <1>2, <1>3, <1>4, <1>5, <1>6

(* Steps that leave report, file and the list alone.                       *)
LEMMA QuietSteps ==
  ASSUME BisectInv, pc # "idle", pc' # "idle", failed \subseteq failed',
         UNCHANGED <<file, crashing, known, report>>
  PROVE  FiledInv' /\ ReportInv'
<1>. USE DEF BisectInv
<1>1. Done' = Done
  BY DEF Done
<1>2. FiledInv'
  BY <1>1 DEF FiledInv
<1>3. report = NoReport
  BY DEF ReportInv
<1>4. ReportInv'
  BY <1>3 DEF ReportInv, ReportIsBoundary
<1>. QED  BY <1>2, <1>4

(* Trying the buggy commit of a known bug.                                 *)
LEMMA TryBuggyKeeps ==
  ASSUME BisectInv, TryBuggy
  PROVE  BisectInv'
<1>. USE DEF BisectInv
<1>1. PICK verdict :
        /\ ExecuteQueries(known[k].buggy, verdict)
        /\ IF verdict = "SEG_FAULT" THEN pc' = "confirm" /\ UNCHANGED k
                                    ELSE k' = k + 1 /\ UNCHANGED pc
  BY DEF TryBuggy
<1>2. /\ flaky' \in 0..MaxFlaky
      /\ pc' = "confirm" => known[k].buggy \in crashing /\ k' = k
      /\ pc' \in {"filter", "confirm"} /\ k' \in Nat
  <2>1. k \in Nat /\ pc = "filter"
    BY DEF TypeOK, TryBuggy
  <2>. QED  BY <1>1, <2>1, VerdictFacts
<1>3. failed' \subseteq Commits /\ failed \subseteq failed'
  BY DEF TypeOK, TryBuggy
<1>4. TypeOK'
  BY <1>2, <1>3 DEF TryBuggy, TypeOK
<1>5. ListInv' /\ SearchInv'
  BY <1>2, <1>3 DEF TryBuggy, ListInv, SearchInv, CommitAt
<1>6. KnownInv'
  BY <1>2, <1>3 DEF TryBuggy, KnownInv, Explained
<1>7. FiledInv' /\ ReportInv'
  BY <1>2, <1>3, QuietSteps DEF TryBuggy
<1>. QED  BY <1>4, <1>5, <1>6, <1>7

(* A report that is explained by a known bug, or is not.                   *)
LEMMA TryCorrectKeeps ==
  ASSUME BisectInv, TryCorrect
  PROVE  BisectInv'
<1>. USE DEF BisectInv
<1>. DEFINE r == [buggy |-> known[k].buggy, corr |-> known[k].corr]
<1>1. PICK verdict :
        /\ ExecuteQueries(known[k].corr, verdict)
        /\ IF verdict = "PASS"
           THEN DumpBuggyCommit(r) /\ pc' = "idle" /\ UNCHANGED k
           ELSE pc' = "filter" /\ k' = k + 1 /\ UNCHANGED <<known, report>>
  BY DEF TryCorrect
<1>2. failed' \subseteq Commits /\ failed \subseteq failed' /\ flaky' \in 0..MaxFlaky
  BY <1>1, VerdictFacts DEF TypeOK, TryCorrect
<1>3. ListInv' /\ SearchInv'
  BY <1>1, <1>2 DEF TryCorrect, ListInv, SearchInv, CommitAt
<1>4. CASE verdict = "PASS"
  <2>1. DumpBuggyCommit(r) /\ pc' = "idle" /\ UNCHANGED k
    BY <1>1, <1>4
  <2>2. /\ k \in DOMAIN known /\ known[k].buggy \in crashing
        /\ known[k].corr \notin crashing /\ Explained(known[k], failed)
    BY <1>1, <1>4, VerdictFacts DEF TryCorrect, KnownInv
  <2>3. r.buggy \in Commits /\ r.corr \in Commits
        /\ r.buggy = known[k].buggy /\ r.corr = known[k].corr
        /\ r \in [buggy : 0..N, corr : 0..N]
    <3>1. known[k] \in Bug
      <4>1. known \in Seq(Bug)
        BY DEF TypeOK, Bug
      <4>. QED  BY <2>2, <4>1, SeqFacts
    <3>. QED  BY <3>1 DEF Bug, Commits
  <2>. HIDE DEF r
  <2>4. Explained(r, failed')
    BY <1>2, <2>2, <2>3 DEF Explained
  <2>5. known' \in Seq(Bug) /\ report' = r /\ KnownInv' /\ FiledInv'
    <3>1. pc # "idle" /\ UNCHANGED file
      BY DEF TryCorrect
    <3>. QED  BY <1>2, <2>1, <2>3, <2>4, <3>1, FilingKeeps
  <2>6. TypeOK'
    BY <1>2, <2>1, <2>3, <2>5 DEF TryCorrect, TypeOK, Bug
  <2>7. ReportInv'
    BY <2>1, <2>2, <2>3, <2>4, <2>5 DEF TryCorrect, ReportInv, ReportIsBoundary, Explained
  <2>. QED  BY <1>3, <2>5, <2>6, <2>7
<1>5. CASE verdict # "PASS"
  <2>1. pc' = "filter" /\ k' = k + 1 /\ UNCHANGED <<known, report>>
    BY <1>1, <1>5
  <2>2. TypeOK'
    BY <1>2, <2>1 DEF TryCorrect, TypeOK
  <2>3. KnownInv'
    BY <1>2, <2>1 DEF TryCorrect, KnownInv, Explained
  <2>4. FiledInv' /\ ReportInv'
    BY <1>2, <2>1, QuietSteps DEF TryCorrect
  <2>. QED  BY <1>3, <2>2, <2>3, <2>4
<1>. QED  BY <1>4, <1>5

(* The search begins at both ends of the list.                             *)
LEMMA BeginSearchKeeps ==
  ASSUME BisectInv, BeginSearch
  PROVE  BisectInv' /\ CommitAt(newer)' = 1 /\ CommitAt(older)' = N
<1>. USE DEF BisectInv
<1>1. newer' = 0 /\ older' = Len(all_commits) - 1 /\ pc' = "bisect"
      /\ UNCHANGED <<file, crashing, broken, failed, flaky, known, k, all_commits, report>>
  BY DEF BeginSearch
<1>2. Len(all_commits) \in Nat /\ Len(all_commits) >= 2
      /\ all_commits[1] = 1 /\ all_commits[Len(all_commits)] = N
  BY SeqFacts DEF ListInv, IsList
<1>3. newer' \in Nat /\ older' \in Nat /\ newer' < older' /\ older' < Len(all_commits)
      /\ newer' + 1 = 1 /\ older' + 1 = Len(all_commits)
  BY <1>1, <1>2
<1>4. CommitAt(newer)' = 1 /\ CommitAt(older)' = N
  BY <1>1, <1>2, <1>3 DEF CommitAt
<1>5. SearchInv'
  BY <1>1, <1>3, <1>4 DEF SearchInv
<1>6. TypeOK'
  <2>1. newer' \in 0..(Len(all_commits) - 1) /\ older' \in 0..(Len(all_commits) - 1)
    BY <1>2, <1>3
  <2>. QED  BY <1>1, <2>1 DEF TypeOK
<1>7. ListInv' /\ KnownInv'
  BY <1>1 DEF ListInv, KnownInv
<1>8. FiledInv' /\ ReportInv'
  BY <1>1, QuietSteps DEF BeginSearch
<1>. QED  BY <1>4, <1>5, <1>6, <1>7, <1>8

(* The middle lies strictly between the two indices.                       *)
LEMMA MiddleFacts ==
  ASSUME BisectInv, ~Found
  PROVE  /\ Middle \in Nat /\ newer < Middle /\ Middle < older
         /\ newer \in Nat /\ older \in Nat /\ older < Len(all_commits)
         /\ Len(all_commits) \in Nat
         /\ Middle + 1 \in 2..(Len(all_commits) - 1)
<1>1. newer \in Nat /\ older \in Nat /\ newer < older /\ older < Len(all_commits)
      /\ Len(all_commits) \in Nat
  BY SeqFacts DEF BisectInv, SearchInv, TypeOK
<1>2. older - newer > 1
  BY <1>1 DEF Found
<1>3. Middle \in Nat /\ newer < Middle /\ Middle < older
  BY <1>1, <1>2 DEF Middle
<1>. HIDE DEF Middle
<1>. QED  BY <1>1, <1>3

(* A round of the search.                                                  *)
LEMMA BisectKeeps ==
  ASSUME BisectInv, Bisect
  PROVE  BisectInv'
<1>. USE DEF BisectInv
<1>. DEFINE mid == Middle
            c == CommitAt(mid)
<1>0. /\ mid \in Nat /\ newer < mid /\ mid < older
      /\ newer \in Nat /\ older \in Nat /\ older < Len(all_commits)
      /\ Len(all_commits) \in Nat /\ mid + 1 \in 2..(Len(all_commits) - 1)
  BY MiddleFacts DEF Bisect
<1>. HIDE DEF mid
<1>1. PICK verdict \in Results :
       /\ ExecuteQueries(c, verdict)
       /\ CASE verdict = "PASS" ->
                 older' = mid /\ UNCHANGED <<newer, all_commits, failed>>
            [] verdict = "FAIL_TO_COMPILE" ->
                 /\ failed' = failed \cup {c}
                 /\ all_commits' = Deleted
                 /\ older' = older - 1
                 /\ UNCHANGED newer
            [] verdict = "SEG_FAULT" ->
                 newer' = mid /\ UNCHANGED <<older, all_commits, failed>>
  BY DEF Bisect, mid
<1>2. /\ pc = "bisect"
      /\ UNCHANGED <<pc, file, crashing, broken, known, k, report>>
      /\ flaky' \in 0..MaxFlaky
      /\ verdict = "SEG_FAULT" => c \in crashing
      /\ verdict = "PASS" => c \notin crashing
  BY <1>1, VerdictFacts DEF Bisect
<1>3. c \in Commits
  <2>1. mid + 1 \in 1..Len(all_commits) /\ all_commits \in Seq(Commits)
    BY <1>0 DEF TypeOK
  <2>. QED  BY <2>1, SeqFacts DEF CommitAt
<1>. HIDE DEF c
<1>4. failed \subseteq failed' /\ failed' \subseteq Commits
  BY <1>1, <1>3 DEF TypeOK, Results
<1>5. KnownInv'
  BY <1>2, <1>4 DEF KnownInv, Explained
<1>6. FiledInv' /\ ReportInv'
  BY <1>2, <1>4, QuietSteps
<1>7. CASE verdict = "PASS"
  <2>1. older' = mid /\ UNCHANGED <<newer, all_commits, failed>>
    BY <1>1, <1>7
  <2>2. older' \in 0..(Len(all_commits) - 1)
    BY <1>0, <2>1
  <2>3. TypeOK'
    BY <1>2, <2>1, <2>2 DEF TypeOK
  <2>4. SearchInv'
    <3>1. newer' < older' /\ older' < Len(all_commits') /\ older' \in Nat
      BY <1>0, <2>1
    <3>. QED  BY <1>0, <1>2, <1>7, <2>1, <3>1 DEF SearchInv, CommitAt, c
  <2>. QED  BY <1>5, <1>6, <2>1, <2>3, <2>4 DEF ListInv
<1>8. CASE verdict = "SEG_FAULT"
  <2>1. newer' = mid /\ UNCHANGED <<older, all_commits, failed>>
    BY <1>1, <1>8
  <2>2. newer' \in 0..(Len(all_commits) - 1)
    BY <1>0, <2>1
  <2>3. TypeOK'
    BY <1>2, <2>1, <2>2 DEF TypeOK
  <2>4. SearchInv'
    <3>1. newer' < older' /\ older' < Len(all_commits') /\ newer' \in Nat
      BY <1>0, <2>1
    <3>. QED  BY <1>0, <1>2, <1>8, <2>1, <3>1 DEF SearchInv, CommitAt, c
  <2>. QED  BY <1>5, <1>6, <2>1, <2>3, <2>4 DEF ListInv
<1>9. CASE verdict = "FAIL_TO_COMPILE"
  <2>1. failed' = failed \cup {c} /\ older' = older - 1 /\ UNCHANGED newer
    BY <1>1, <1>9
  <2>2. all_commits' = RemoveAt(all_commits, mid + 1)
    BY <1>1, <1>9 DEF Deleted, mid
  <2>3. /\ IsList(all_commits') /\ Len(all_commits') = Len(all_commits) - 1
        /\ \A i \in 1..mid : all_commits'[i] = all_commits[i]
        /\ \A i \in (mid + 1)..(Len(all_commits) - 1) : all_commits'[i] = all_commits[i + 1]
        /\ Elements(all_commits') = Elements(all_commits) \ {c}
    <3>1. IsList(all_commits)
      BY DEF ListInv
    <3>. DEFINE d == mid + 1
    <3>2. d \in 2..(Len(all_commits) - 1) /\ d - 1 = mid
      BY <1>0
    <3>3. all_commits' = RemoveAt(all_commits, d) /\ c = all_commits[d]
      BY <2>2 DEF c, CommitAt
    <3>. HIDE DEF d
    <3>4. /\ IsList(all_commits') /\ Len(all_commits') = Len(all_commits) - 1
          /\ \A i \in 1..(d - 1) : all_commits'[i] = all_commits[i]
          /\ \A i \in d..Len(all_commits') : all_commits'[i] = all_commits[i + 1]
          /\ Elements(all_commits') = Elements(all_commits) \ {all_commits[d]}
      BY <3>1, <3>2, <3>3, DeletionFacts
    <3>. QED  BY <3>2, <3>3, <3>4 DEF d
  <2>4. ListInv'
    BY <2>1, <2>3 DEF ListInv
  <2>5. /\ older' \in Nat /\ newer' < older' /\ older' < Len(all_commits')
        /\ newer' \in 0..(Len(all_commits') - 1) /\ older' \in 0..(Len(all_commits') - 1)
    BY <1>0, <2>1, <2>3
  <2>6. CommitAt(newer)' = CommitAt(newer) /\ CommitAt(older)' = CommitAt(older)
    <3>1. /\ newer + 1 \in 1..mid /\ older' + 1 \in (mid + 1)..(Len(all_commits) - 1)
          /\ (older' + 1) + 1 = older + 1
      BY <1>0, <2>1
    <3>. QED  BY <2>1, <2>3, <3>1 DEF CommitAt
  <2>7. SearchInv'
    BY <1>0, <1>2, <2>1, <2>5, <2>6 DEF SearchInv
  <2>8. TypeOK'
    BY <1>2, <1>4, <2>3, <2>5 DEF TypeOK, IsList
  <2>. QED  BY <1>5, <1>6, <2>4, <2>7, <2>8
<1>. QED  BY <1>7, <1>8, <1>9 DEF Results

(* The search ends at neighbours.                                          *)
LEMMA EndFacts ==
  ASSUME BisectInv, Found
  PROVE  /\ CommitAt(newer) \in Commits /\ CommitAt(older) \in Commits
         /\ CommitAt(newer) < CommitAt(older)
         /\ Between(CommitAt(newer), CommitAt(older)) \cap Elements(all_commits) = {}
<1>1. newer \in Nat /\ older \in Nat /\ newer < older /\ older < Len(all_commits)
      /\ older - newer <= 1 /\ Len(all_commits) \in Nat
  BY SeqFacts DEF BisectInv, SearchInv, TypeOK, Found
<1>2. newer + 1 \in 1..Len(all_commits) /\ older + 1 \in 1..Len(all_commits)
  BY <1>1
<1>3. CommitAt(newer) \in Commits /\ CommitAt(older) \in Commits
  BY <1>2, SeqFacts DEF BisectInv, TypeOK, CommitAt
<1>4. IsList(all_commits)
  BY DEF BisectInv, ListInv
<1>. QED  BY <1>1, <1>3, <1>4, NeighboursFacts DEF CommitAt

(* What it found is reported and filed.                                    *)
LEMMA EndSearchKeeps ==
  ASSUME BisectInv, EndSearch
  PROVE  BisectInv'
<1>. USE DEF BisectInv
<1>. DEFINE r == [buggy |-> CommitAt(newer), corr |-> CommitAt(older)]
<1>1. /\ DumpBuggyCommit(r) /\ pc = "bisect" /\ pc' = "idle"
      /\ UNCHANGED <<file, crashing, broken, failed, flaky, k, all_commits, newer, older>>
  BY DEF EndSearch
<1>2. /\ CommitAt(newer) \in Commits /\ CommitAt(older) \in Commits
      /\ CommitAt(newer) < CommitAt(older)
      /\ Between(CommitAt(newer), CommitAt(older)) \cap Elements(all_commits) = {}
  BY EndFacts DEF EndSearch
<1>3. r.buggy \in Commits /\ r.corr \in Commits /\ r \in [buggy : 0..N, corr : 0..N]
      /\ r.buggy = CommitAt(newer) /\ r.corr = CommitAt(older)
  BY <1>2 DEF Commits
<1>. HIDE DEF r
<1>4. Explained(r, failed')
  <2>1. Between(CommitAt(newer), CommitAt(older)) \subseteq Commits
    BY DEF Between
  <2>2. Commits \ Elements(all_commits) \subseteq failed
    BY DEF ListInv
  <2>. QED  BY <1>1, <1>2, <1>3, <2>1, <2>2 DEF Explained
<1>5. known' \in Seq(Bug) /\ report' = r /\ KnownInv' /\ FiledInv'
  BY <1>1, <1>3, <1>4, FilingKeeps
<1>6. TypeOK'
  BY <1>1, <1>3, <1>5 DEF TypeOK, Bug
<1>7. ListInv' /\ SearchInv'
  BY <1>1 DEF ListInv, SearchInv, CommitAt
<1>8. ReportInv'
  BY <1>1, <1>3, <1>4, <1>5 DEF ReportInv, ReportIsBoundary, SearchInv, Explained
<1>. QED  BY <1>5, <1>6, <1>7, <1>8

-----------------------------------------------------------------------------
(* The theorems                                                            *)

(* The whole history is in the list at first.                              *)
LEMMA BisectInit == Init => BisectInv
<1>. SUFFICES ASSUME Init  PROVE BisectInv
  OBVIOUS
<1>. USE BisectingAssumption
<1>1. N \in Nat /\ N >= 2 /\ 0 \in 0..MaxFiles /\ 0 \in 0..MaxFlaky
  OBVIOUS
<1>2. /\ all_commits \in Seq(Commits) /\ Len(all_commits) = N
      /\ \A i \in 1..N : all_commits[i] = i
      /\ DOMAIN all_commits = 1..N
  <2>1. all_commits = [i \in 1..N |-> i] /\ all_commits \in [1..N -> Commits]
    BY DEF Init, Commits
  <2>2. all_commits \in Seq(Commits)
    BY <1>1, <2>1, SeqDef
  <2>3. DOMAIN all_commits = 1..N
    BY <2>1
  <2>4. DOMAIN all_commits = 1..Len(all_commits) /\ Len(all_commits) \in Nat
    BY <2>2, SeqFacts
  <2>5. Len(all_commits) = N
    BY <1>1, <2>3, <2>4
  <2>. QED  BY <2>1, <2>2, <2>3, <2>5
<1>3. IsList(all_commits)
  BY <1>1, <1>2 DEF IsList
<1>4. Elements(all_commits) = Commits
  BY <1>2 DEF Elements, Commits
<1>5. TypeOK
  <2>1. newer \in 0..(Len(all_commits) - 1) /\ older \in 0..(Len(all_commits) - 1)
    BY <1>1, <1>2 DEF Init
  <2>2. known \in Seq([buggy : Commits, corr : Commits, srcs : SUBSET (1..MaxFiles)])
    BY EmptySeq DEF Init
  <2>3. report \in [buggy : 0..N, corr : 0..N]
    BY <1>1 DEF Init, NoReport
  <2>. QED  BY <1>1, <1>2, <2>1, <2>2, <2>3 DEF Init, TypeOK
<1>6. ListInv
  BY <1>3, <1>4 DEF ListInv
<1>7. SearchInv
  BY <1>1, <1>2 DEF Init, SearchInv
<1>8. \A i \in DOMAIN known : FALSE
  BY DEF Init
<1>9. KnownInv
  BY <1>8 DEF Init, KnownInv
<1>10. FiledInv
  <2>1. Done = {}
    BY DEF Done, Init
  <2>. QED  BY <1>8, <2>1 DEF Init, FiledInv
<1>11. ReportInv
  BY DEF Init, ReportInv, ReportIsBoundary
<1>. QED  BY <1>5, <1>6, <1>7, <1>9, <1>10, <1>11 DEF BisectInv

(* Every step keeps the invariant.                                         *)
LEMMA BisectNext == BisectInv /\ [Next]_vars => BisectInv'
<1>. SUFFICES ASSUME BisectInv, [Next]_vars  PROVE BisectInv'
  OBVIOUS
<1>1. CASE Next
  BY <1>1, StartBisectKeeps, TryBuggyKeeps, TryCorrectKeeps, BeginSearchKeeps,
     BisectKeeps, EndSearchKeeps DEF Next
<1>2. CASE UNCHANGED vars
  <2>. USE <1>2 DEF vars
  <2>1. TypeOK' /\ ListInv' /\ SearchInv' /\ KnownInv'
    BY DEF BisectInv, TypeOK, ListInv, SearchInv, KnownInv, CommitAt
  <2>2. FiledInv' /\ ReportInv'
    BY DEF BisectInv, FiledInv, Done, ReportInv, ReportIsBoundary
  <2>. QED  BY <2>1, <2>2 DEF BisectInv
<1>. QED  BY <1>1, <1>2

(* The inductive invariant holds throughout, for every history.            *)
THEOREM BisectInvariant == Spec => []BisectInv
BY BisectInit, BisectNext, PTL DEF Spec

(* The types of the state; the indices stay in the list.                   *)
THEOREM BisectTypes == Spec => []TypeOK
<1>1. BisectInv => TypeOK
  BY DEF BisectInv
<1>. QED  BY <1>1, BisectInvariant, PTL

(* A report that crashes the newest commit and not the oldest gets the     *)
(* right answer, from the search as from the pairs on file.                *)
THEOREM ReportsAreBoundaries == Spec => []ReportIsBoundary
<1>1. BisectInv => ReportIsBoundary
  BY DEF BisectInv, ReportInv
<1>. QED  BY <1>1, BisectInvariant, PTL

(* Every report that was dealt with is on file with exactly one commit.    *)
THEOREM ReportsAlwaysFiled == Spec => []ReportsAreFiled
<1>1. BisectInv => ReportsAreFiled
  <2>. SUFFICES ASSUME BisectInv, NEW f \in 1..file, f < file \/ pc = "idle"
                PROVE  Cardinality({i \in DOMAIN known : f \in known[i].srcs}) = 1
    BY DEF BisectInv, KnownInv, ReportsAreFiled
  <2>1. f \in Done
    BY DEF Done
  <2>2. PICK e \in DOMAIN known : f \in known[e].srcs
    BY <2>1 DEF BisectInv, FiledInv
  <2>3. \A i \in DOMAIN known : f \in known[i].srcs => i = e
    BY <2>2 DEF BisectInv, FiledInv
  <2>4. {i \in DOMAIN known : f \in known[i].srcs} = {e}
    BY <2>2, <2>3
  <2>. QED  BY <2>4, FS_Singleton
<1>. QED  BY <1>1, BisectInvariant, PTL

(* At first neither search has begun.                                      *)
LEMMA SearchInit == Init => Search!Init
<1>. SUFFICES ASSUME Init  PROVE Search!Init
  OBVIOUS
<1>1. BisectInv
  BY BisectInit
<1>2. newer = 0 /\ older = N - 1 /\ pc = "idle" /\ N \in Nat
      /\ all_commits = [i \in 1..N |-> i] /\ N >= 2
  BY BisectingAssumption DEF Init, Commits
<1>3. CommitAt(newer) = 1 /\ CommitAt(older) = N
  BY <1>2 DEF CommitAt
<1>4. {all_commits[i] : i \in DOMAIN all_commits} = Commits
  BY <1>2 DEF Commits
<1>. QED  BY <1>2, <1>3, <1>4 DEF Search!Init

(* Every step of the script is a step of the abstract search or none.      *)
LEMMA SearchNext == BisectInv /\ [Next]_vars => [Search!Next]_(Search!vars)
<1>. SUFFICES ASSUME BisectInv, [Next]_vars  PROVE [Search!Next]_(Search!vars)
  OBVIOUS
<1>. DEFINE lost == Commits \ {all_commits[i] : i \in DOMAIN all_commits}
<1>1. CASE StartBisect \/ TryBuggy \/ TryCorrect \/ UNCHANGED vars
  <2>1. UNCHANGED <<all_commits, newer, older>> /\ (pc' = "bisect" <=> pc = "bisect")
    BY <1>1 DEF StartBisect, TryBuggy, TryCorrect, vars
  <2>2. UNCHANGED Search!vars
    BY <2>1 DEF Search!vars, CommitAt
  <2>. QED  BY <2>2
<1>2. CASE BeginSearch
  <2>1. /\ CommitAt(newer)' = 1 /\ CommitAt(older)' = N
        /\ pc = "filter" /\ pc' = "bisect" /\ UNCHANGED all_commits
    BY <1>2, BeginSearchKeeps DEF BeginSearch
  <2>2. Search!Begin
    BY <2>1 DEF Search!Begin
  <2>. QED  BY <2>2 DEF Search!Next
<1>3. CASE EndSearch
  <2>1. /\ pc = "bisect" /\ pc' = "idle" /\ Found
        /\ UNCHANGED <<all_commits, newer, older>>
    BY <1>3 DEF EndSearch
  <2>2. Between(CommitAt(newer), CommitAt(older)) \subseteq lost
    <3>1. Between(CommitAt(newer), CommitAt(older)) \cap Elements(all_commits) = {}
      BY <2>1, EndFacts
    <3>2. Between(CommitAt(newer), CommitAt(older)) \subseteq Commits
      BY DEF Between
    <3>. QED  BY <3>1, <3>2 DEF Elements
  <2>3. Search!Between(CommitAt(newer), CommitAt(older)) \subseteq lost
    BY <2>2 DEF Search!Between, Between, Commits
  <2>4. Search!End
    BY <2>1, <2>3 DEF Search!End, CommitAt
  <2>. QED  BY <2>4 DEF Search!Next
<1>4. CASE Bisect
  <2>. DEFINE mid == Middle
              c == CommitAt(mid)
  <2>1. /\ mid \in Nat /\ newer < mid /\ mid < older
        /\ newer \in Nat /\ older \in Nat /\ older < Len(all_commits)
        /\ Len(all_commits) \in Nat /\ mid + 1 \in 2..(Len(all_commits) - 1)
    BY <1>4, MiddleFacts DEF Bisect
  <2>. HIDE DEF mid
  <2>2. /\ IsList(all_commits) /\ all_commits \in Seq(Commits)
        /\ DOMAIN all_commits = 1..Len(all_commits)
    BY SeqFacts DEF BisectInv, ListInv, IsList
  <2>3. /\ newer + 1 \in 1..Len(all_commits) /\ mid + 1 \in 1..Len(all_commits)
        /\ older + 1 \in 1..Len(all_commits)
        /\ newer + 1 < mid + 1 /\ mid + 1 < older + 1
    BY <2>1
  <2>4. c \in Search!Between(CommitAt(newer), CommitAt(older)) \ lost
    <3>1. c \in Commits /\ CommitAt(newer) < c /\ c < CommitAt(older)
      <4>1. c \in Commits
        BY <2>2, <2>3, SeqFacts DEF CommitAt
      <4>2. CommitAt(newer) < c /\ c < CommitAt(older)
        BY <2>2, <2>3 DEF IsList, CommitAt
      <4>. QED  BY <4>1, <4>2
    <3>2. c \notin lost
      BY <2>2, <2>3 DEF CommitAt
    <3>. QED  BY <3>1, <3>2 DEF Search!Between, Commits
  <2>5. pc = "bisect" /\ pc' = "bisect"
    BY <1>4 DEF Bisect
  <2>6. \/ /\ CommitAt(older)' = c
           /\ CommitAt(newer)' = CommitAt(newer) /\ lost' = lost
        \/ /\ CommitAt(newer)' = c
           /\ CommitAt(older)' = CommitAt(older) /\ lost' = lost
        \/ /\ lost' = lost \cup {c}
           /\ CommitAt(newer)' = CommitAt(newer) /\ CommitAt(older)' = CommitAt(older)
    <3>1. \/ older' = mid /\ UNCHANGED <<newer, all_commits>>
          \/ newer' = mid /\ UNCHANGED <<older, all_commits>>
          \/ /\ all_commits' = RemoveAt(all_commits, mid + 1)
             /\ older' = older - 1 /\ UNCHANGED newer
      BY <1>4 DEF Bisect, Results, Deleted, mid
    <3>2. CASE older' = mid /\ UNCHANGED <<newer, all_commits>>
      BY <3>2 DEF CommitAt
    <3>3. CASE newer' = mid /\ UNCHANGED <<older, all_commits>>
      BY <3>3 DEF CommitAt
    <3>4. CASE /\ all_commits' = RemoveAt(all_commits, mid + 1)
               /\ older' = older - 1 /\ UNCHANGED newer
      <4>. DEFINE d == mid + 1
      <4>1. d \in 2..(Len(all_commits) - 1) /\ d - 1 = mid /\ c = all_commits[d]
            /\ all_commits' = RemoveAt(all_commits, d)
        BY <2>1, <3>4 DEF CommitAt
      <4>. HIDE DEF d
      <4>2. /\ Len(all_commits') = Len(all_commits) - 1
            /\ \A i \in 1..(d - 1) : all_commits'[i] = all_commits[i]
            /\ \A i \in d..Len(all_commits') : all_commits'[i] = all_commits[i + 1]
            /\ Elements(all_commits') = Elements(all_commits) \ {all_commits[d]}
        <5>1. IsList(all_commits) /\ d \in 2..(Len(all_commits) - 1)
              /\ all_commits' = RemoveAt(all_commits, d)
          BY <2>2, <4>1
        <5>. HIDE DEF c, lost
        <5>. QED  BY <5>1, DeletionFacts
      <4>3. /\ newer + 1 \in 1..(d - 1) /\ older' + 1 \in d..(Len(all_commits) - 1)
            /\ (older' + 1) + 1 = older + 1
        BY <2>1, <3>4 DEF d
      <4>4. CommitAt(newer)' = CommitAt(newer) /\ CommitAt(older)' = CommitAt(older)
        BY <3>4, <4>2, <4>3 DEF CommitAt
      <4>5. lost = Commits \ Elements(all_commits) /\ lost' = Commits \ Elements(all_commits')
        BY DEF Elements
      <4>6. c \in Commits
        BY <2>4 DEF Search!Between, Commits
      <4>7. lost' = lost \cup {c}
        BY <2>4, <4>1, <4>2, <4>5, <4>6
      <4>. QED  BY <4>4, <4>7
    <3>. QED  BY <3>1, <3>2, <3>3, <3>4
  <2>. HIDE DEF c
  <2>7. Search!Probe
    BY <2>4, <2>5, <2>6 DEF Search!Probe
  <2>. QED  BY <2>7 DEF Search!Next
<1>. QED  BY <1>1, <1>2, <1>3, <1>4 DEF Next

(* The script implements the abstract search: deletions that shift the     *)
(* list under its indices never move the two commits they stand for.       *)
THEOREM BisectingImplementsSearch == Spec => ImplementsSearch
BY BisectInvariant, SearchInit, SearchNext, PTL DEF Spec, ImplementsSearch, Search!Spec
-----------------------------------------------------------------------------
(* The search converges                                                    *)

(* The pair to be tried next is one of the file or the end of it.          *)
CursorInv == pc \in {"filter", "confirm"} => k \in 1..(Len(known) + 1)

LEMMA KnownFacts ==
  ASSUME BisectInv
  PROVE  Len(known) \in Nat /\ DOMAIN known = 1..Len(known)
<1>1. known \in Seq(Bug)
  BY DEF BisectInv, TypeOK, Bug
<1>. QED  BY <1>1, SeqFacts

(* The pairs are tried one after the other.                                *)
LEMMA CursorNext == BisectInv /\ CursorInv /\ [Next]_vars => CursorInv'
<1>. SUFFICES ASSUME BisectInv, CursorInv, [Next]_vars  PROVE CursorInv'
  OBVIOUS
<1>1. Len(known) \in Nat /\ DOMAIN known = 1..Len(known)
  BY KnownFacts
<1>2. CASE StartBisect
  <2>1. k' = 1 /\ known' = known
    BY <1>2 DEF StartBisect
  <2>. QED  BY <1>1, <2>1 DEF CursorInv
<1>3. CASE TryBuggy
  <2>1. pc = "filter" /\ k \in 1..Len(known) /\ known' = known /\ k' \in {k, k + 1}
    BY <1>1, <1>3 DEF TryBuggy
  <2>. QED  BY <1>1, <2>1 DEF CursorInv
<1>4. CASE TryCorrect
  <2>1. k \in 1..Len(known)
    BY <1>1, <1>4 DEF TryCorrect, BisectInv, KnownInv
  <2>2. pc' = "idle" \/ (known' = known /\ k' = k + 1)
    BY <1>4 DEF TryCorrect
  <2>. QED  BY <1>1, <2>1, <2>2 DEF CursorInv
<1>5. CASE BeginSearch \/ Bisect \/ EndSearch
  BY <1>5 DEF BeginSearch, Bisect, EndSearch, CursorInv
<1>6. CASE UNCHANGED vars
  BY <1>6 DEF CursorInv, vars
<1>. QED  BY <1>2, <1>3, <1>4, <1>5, <1>6 DEF Next

(* A try or a round leaves less to do.                                     *)
LEMMA Converges ==
  BisectInv /\ CursorInv /\ Next =>
    /\ file' = file => WorkLeft' \in 0..(WorkLeft - 1)
    /\ pc = "bisect" /\ pc' = "bisect" /\ UNCHANGED all_commits =>
         2 * (older' - newer') <= older - newer + 1
<1>. SUFFICES ASSUME BisectInv, CursorInv, Next
              PROVE  /\ file' = file => WorkLeft' \in 0..(WorkLeft - 1)
                     /\ pc = "bisect" /\ pc' = "bisect" /\ UNCHANGED all_commits =>
                          2 * (older' - newer') <= older - newer + 1
  OBVIOUS
<1>1. /\ Len(known) \in Nat /\ DOMAIN known = 1..Len(known)
      /\ Len(all_commits) \in Nat /\ Len(all_commits) >= 2
      /\ newer \in Nat /\ older \in Nat /\ newer < older /\ older < Len(all_commits)
  BY KnownFacts, SeqFacts DEF BisectInv, ListInv, IsList, SearchInv
<1>2. CASE StartBisect
  <2>1. file \in Nat /\ file' = file + 1 /\ pc = "idle"
    BY <1>2 DEF StartBisect, BisectInv, TypeOK
  <2>. QED  BY <2>1
<1>3. CASE TryBuggy
  <2>1. /\ pc = "filter" /\ k \in 1..Len(known)
        /\ UNCHANGED <<known, all_commits>>
        /\ (pc' = "confirm" /\ k' = k) \/ (pc' = "filter" /\ k' = k + 1)
    BY <1>1, <1>3 DEF TryBuggy
  <2>2. WorkLeft = Len(all_commits) + 2 * (Len(known) + 1 - k)
    BY <2>1 DEF WorkLeft, TriesLeft
  <2>3. CASE pc' = "confirm" /\ k' = k
    <3>1. WorkLeft' = Len(all_commits) + 2 * (Len(known) + 1 - k) - 1
      BY <2>1, <2>3 DEF WorkLeft, TriesLeft
    <3>. QED  BY <1>1, <2>1, <2>2, <3>1
  <2>4. CASE pc' = "filter" /\ k' = k + 1
    <3>1. WorkLeft' = Len(all_commits) + 2 * (Len(known) + 1 - (k + 1))
      BY <2>1, <2>4 DEF WorkLeft, TriesLeft
    <3>. QED  BY <1>1, <2>1, <2>2, <3>1
  <2>. QED  BY <2>1, <2>3, <2>4
<1>4. CASE TryCorrect
  <2>1. /\ pc = "confirm" /\ k \in 1..Len(known) /\ UNCHANGED all_commits
        /\ pc' = "idle" \/ (pc' = "filter" /\ k' = k + 1 /\ known' = known)
    BY <1>1, <1>4 DEF TryCorrect, BisectInv, KnownInv
  <2>2. WorkLeft = Len(all_commits) + 2 * (Len(known) + 1 - k) - 1
    BY <2>1 DEF WorkLeft, TriesLeft
  <2>3. CASE pc' = "idle"
    <3>1. WorkLeft' = 0
      BY <2>3 DEF WorkLeft
    <3>. QED  BY <1>1, <2>1, <2>2, <3>1
  <2>4. CASE pc' = "filter" /\ k' = k + 1 /\ known' = known
    <3>1. WorkLeft' = Len(all_commits) + 2 * (Len(known) + 1 - (k + 1))
      BY <2>1, <2>4 DEF WorkLeft, TriesLeft
    <3>. QED  BY <1>1, <2>1, <2>2, <3>1
  <2>. QED  BY <2>1, <2>3, <2>4
<1>5. CASE BeginSearch
  <2>1. /\ pc = "filter" /\ k \in 1..(Len(known) + 1) /\ k \notin 1..Len(known)
        /\ pc' = "bisect" /\ newer' = 0 /\ older' = Len(all_commits) - 1
    BY <1>1, <1>5 DEF BeginSearch, CursorInv
  <2>2. WorkLeft = Len(all_commits) + 2 * (Len(known) + 1 - k)
    BY <2>1 DEF WorkLeft, TriesLeft
  <2>3. WorkLeft' = older' - newer'
    BY <2>1 DEF WorkLeft
  <2>4. k = Len(known) + 1
    BY <1>1, <2>1
  <2>. QED  BY <1>1, <2>1, <2>2, <2>3, <2>4
<1>6. CASE Bisect
  <2>1. pc = "bisect" /\ pc' = "bisect" /\ ~Found
    BY <1>6 DEF Bisect
  <2>2. WorkLeft = older - newer /\ WorkLeft' = older' - newer'
    BY <2>1 DEF WorkLeft
  <2>3. older - newer > 1
    BY <1>1, <2>1 DEF Found
  <2>4. PICK mid \in Nat : /\ mid = Middle /\ newer < mid /\ mid < older
                          /\ 2 * mid <= newer + older /\ newer + older <= 2 * mid + 1
    BY <1>1, <2>3 DEF Middle
  <2>5. \/ older' = mid /\ newer' = newer
        \/ newer' = mid /\ older' = older
        \/ older' = older - 1 /\ newer' = newer /\ all_commits' = Deleted
    BY <1>6, <2>4 DEF Bisect, Results
  <2>6. Deleted # all_commits
    <3>1. mid + 1 \in 1..Len(all_commits) /\ all_commits \in Seq(Commits)
      BY <1>1, <2>4 DEF BisectInv, TypeOK
    <3>2. Len(Deleted) = Len(all_commits) - 1
      BY <2>4, <3>1, RemoveAtFacts DEF Deleted
    <3>. QED  BY <1>1, <3>2
  <2>7. CASE older' = mid /\ newer' = newer
    BY <1>1, <2>2, <2>4, <2>7
  <2>8. CASE newer' = mid /\ older' = older
    BY <1>1, <2>2, <2>4, <2>8
  <2>9. CASE older' = older - 1 /\ newer' = newer /\ all_commits' = Deleted
    BY <1>1, <2>2, <2>3, <2>6, <2>9
  <2>. QED  BY <2>5, <2>7, <2>8, <2>9
<1>7. CASE EndSearch
  <2>1. pc = "bisect" /\ pc' = "idle"
    BY <1>7 DEF EndSearch
  <2>2. WorkLeft = older - newer /\ WorkLeft' = 0
    BY <2>1 DEF WorkLeft
  <2>. QED  BY <1>1, <2>1, <2>2
<1>. QED  BY <1>2, <1>3, <1>4, <1>5, <1>6, <1>7 DEF Next

(* However many commits there are and whatever fails, a report takes a     *)
(* bounded number of steps, and the search halves what it looks at.        *)
THEOREM SearchAlwaysConverges == Spec => SearchConverges
<1>1. Init => CursorInv
  BY DEF Init, CursorInv
<1>2. Spec => []CursorInv
  BY <1>1, CursorNext, BisectInvariant, PTL DEF Spec
<1>3. BisectInv /\ CursorInv /\ [Next]_vars =>
        [ /\ file' = file => WorkLeft' \in 0..(WorkLeft - 1)
          /\ pc = "bisect" /\ pc' = "bisect" /\ UNCHANGED all_commits =>
               2 * (older' - newer') <= older - newer + 1 ]_vars
  BY Converges
<1>. QED  BY <1>2, <1>3, BisectInvariant, PTL DEF Spec, SearchConverges
=============================================================================
