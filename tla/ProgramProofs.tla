----------------------------- MODULE ProgramProofs -----------------------------
(***************************************************************************)
(* Proofs about the program around the changes: the opening of the          *)
(* database, for any number of copies of the program, migrations and        *)
(* statements; the main window, for any controllers used; a plan from its   *)
(* offer to its report, for any tweaks, risks and levels; scanning, for any *)
(* number of scans and of changes to the machine; the club's profile, for   *)
(* any settings, schemes, displays and services; the findings, for any      *)
(* groups of readings.                                                      *)
(***************************************************************************)
EXTENDS SchemaMigration, Dashboard, PlannedRun, ClubProfile, Scan, Scoring,
  FiniteSetTheorems, SequenceTheorems, TLAPS

-----------------------------------------------------------------------------
(* SchemaMigration.                                                         *)

\* The strengthening of SchemaComplete: the versions are recorded in order, what the
\* last of them and those before it create is in the file, and no copy takes the
\* database to be further than that.
RecordedUpTo(n) ==
  /\ n \in 0..Latest /\ recorded = 1..n
  /\ Complete(n)
  /\ \A c \in Copies : version[c] <= n

SchemaInv ==
  /\ TypeOK
  /\ \E n \in 0..Latest : RecordedUpTo(n)
  /\ \A c \in Copies : at[c] = "ready" => Known[c] <= version[c]

-----------------------------------------------------------------------------
\* Reading the version finds the last one recorded.
LEMMA HighestOfInterval == ASSUME NEW n \in Nat PROVE Highest(1..n) = n
<1>1. CASE n = 0
  BY <1>1 DEF Highest
<1>2. CASE n # 0
  <2>1. n \in 1..n /\ \A w \in 1..n : w <= n
    BY <1>2
  <2>2. \A v \in 1..n : (\A w \in 1..n : w <= v) => v = n
    BY <2>1
  <2>3. QED
    BY <1>2, <2>1, <2>2 DEF Highest
<1>3. QED
  BY <1>1, <1>2

\* A file nobody has opened.
LEMMA SchemaStart == ASSUME SchemaAssumption PROVE SchemaInit => SchemaInv
<1> SUFFICES ASSUME SchemaInit PROVE SchemaInv
  OBVIOUS
<1>1. TypeOK
  BY DEF SchemaInit, SchemaAssumption, TypeOK
<1>2. RecordedUpTo(0)
  BY DEF SchemaInit, SchemaAssumption, RecordedUpTo, Complete
<1>3. QED
  BY <1>1, <1>2 DEF SchemaInit, SchemaAssumption, SchemaInv

\* Steps that leave the file and every copy's version as they were.
LEMMA FileUntouched ==
  ASSUME SchemaAssumption, SchemaInv, NEW c \in Copies,
         UNCHANGED <<database, version>>, TypeOK',
         \A d \in Copies : at'[d] = "ready" => at[d] = "ready" \/ Known[d] <= version[d]
  PROVE  SchemaInv'
<1>1. PICK n \in 0..Latest : RecordedUpTo(n)
  BY DEF SchemaInv
<1>2. RecordedUpTo(n)'
  BY <1>1 DEF RecordedUpTo, Complete, database
<1>3. \A d \in Copies : at'[d] = "ready" => Known[d] <= version'[d]
  BY DEF SchemaInv
<1>4. QED
  BY <1>1, <1>2, <1>3 DEF SchemaInv

\* The version a copy reads is one the file has.
LEMMA ReadVersionKeeps ==
  ASSUME SchemaAssumption, SchemaInv, NEW c \in Copies, ReadVersion(c)
  PROVE  SchemaInv'
<1>1. PICK n \in 0..Latest : RecordedUpTo(n)
  BY DEF SchemaInv
<1>2. n \in Nat /\ Highest(recorded) = n
  BY <1>1, HighestOfInterval DEF RecordedUpTo, SchemaAssumption
<1>3. TypeOK'
  BY <1>2 DEF ReadVersion, Goes, database, SchemaInv, TypeOK
<1>4. RecordedUpTo(n)'
  BY <1>1, <1>2 DEF ReadVersion, Goes, database, RecordedUpTo, Complete, SchemaInv, TypeOK
<1>5. \A d \in Copies : at'[d] = "ready" => Known[d] <= version'[d]
  BY DEF ReadVersion, Goes, SchemaInv, TypeOK
<1>6. QED
  BY <1>1, <1>3, <1>4, <1>5 DEF SchemaInv

\* A migration another copy has already applied changes nothing; a new one is the
\* next after the last.
LEMMA CommitKeeps ==
  ASSUME SchemaAssumption, SchemaInv, NEW c \in Copies, Commit(c)
  PROVE  SchemaInv'
<1>1. PICK n \in 0..Latest : RecordedUpTo(n)
  BY DEF SchemaInv
<1>2. PICK k \in Nat : k = version[c] + 1 /\ k = Target(c)
  BY DEF Target, SchemaInv, TypeOK, SchemaAssumption
<1>3. /\ n \in Nat /\ version[c] \in Nat /\ k <= n + 1 /\ Latest \in Nat
      /\ k \in 1..Latest
  BY <1>1, <1>2 DEF RecordedUpTo, Commit, Migrating, SchemaInv, TypeOK, SchemaAssumption
<1>4. PICK m \in 0..Latest : k <= m /\ n <= m /\ 1..m = 1..n \cup {k}
  <2>1. CASE k <= n
    BY <1>1, <1>3, <2>1
  <2>2. CASE k = n + 1
    BY <1>3, <2>2
  <2>3. QED
    BY <1>3, <2>1, <2>2
<1>5. version' = [version EXCEPT ![c] = k] /\ recorded' = 1..m
  BY <1>1, <1>2, <1>4 DEF RecordedUpTo, Commit
<1>6. TypeOK'
  <2>1. recorded' \subseteq 1..Latest /\ k \in 0..Latest
    BY <1>3, <1>4, <1>5
  <2>2. version' \in [Copies -> 0..Latest]
    BY <1>5, <2>1 DEF SchemaInv, TypeOK
  <2>3. QED
    BY <2>1, <2>2 DEF Commit, SchemaInv, TypeOK
<1>7. Complete(m)'
  <2> SUFFICES ASSUME NEW u \in 1..m PROVE Creates[u] \subseteq objects'
    BY DEF Complete
  <2>1. CASE u \in 1..n
    BY <1>1, <2>1 DEF RecordedUpTo, Complete, Commit
  <2>2. CASE u = k
    BY <1>2, <2>2 DEF Commit, AllCreated
  <2>3. QED
    BY <1>4, <2>1, <2>2
<1>8. \A d \in Copies : version'[d] <= m
  BY <1>1, <1>3, <1>4, <1>5 DEF RecordedUpTo, SchemaInv, TypeOK
<1>9. \A d \in Copies : at'[d] = "ready" => Known[d] <= version'[d]
  BY <1>5 DEF Commit, Migrating, SchemaInv, TypeOK
<1>10. RecordedUpTo(m)'
  BY <1>4, <1>5, <1>7, <1>8 DEF RecordedUpTo
<1>11. QED
  BY <1>6, <1>9, <1>10 DEF SchemaInv

\* A copy that goes starts over, and its open transaction with it.
LEMMA EndKeeps ==
  ASSUME SchemaAssumption, SchemaInv, NEW c \in Copies, End(c)
  PROVE  SchemaInv'
<1>1. PICK n \in 0..Latest : RecordedUpTo(n)
  BY DEF SchemaInv
<1>2. TypeOK'
  BY DEF End, Goes, Released, database, SchemaInv, TypeOK, SchemaAssumption
<1>3. RecordedUpTo(n)'
  BY <1>1 DEF End, database, RecordedUpTo, Complete, SchemaInv, TypeOK, SchemaAssumption
<1>4. \A d \in Copies : at'[d] = "ready" => Known[d] <= version'[d]
  BY DEF End, Goes, SchemaInv, TypeOK
<1>5. QED
  BY <1>1, <1>2, <1>3, <1>4 DEF SchemaInv

\* Every step keeps the strengthening.
LEMMA SchemaStep ==
  ASSUME SchemaAssumption
  PROVE  SchemaInv /\ [SchemaNext]_schemaVars => SchemaInv'
<1> SUFFICES ASSUME SchemaInv, [SchemaNext]_schemaVars PROVE SchemaInv'
  OBVIOUS
<1>1. CASE UNCHANGED schemaVars
  BY <1>1 DEF schemaVars, database, SchemaInv, TypeOK, RecordedUpTo, Complete
<1>2. ASSUME NEW c \in Copies, Open(c) PROVE SchemaInv'
  <2>1. TypeOK' /\ UNCHANGED <<database, version>>
    BY <1>2 DEF Open, database, SchemaInv, TypeOK
  <2>2. \A d \in Copies : at'[d] = "ready" => at[d] = "ready"
    BY <1>2 DEF Open, SchemaInv, TypeOK
  <2>3. QED
    BY <2>1, <2>2, FileUntouched
<1>3. ASSUME NEW c \in Copies, BeginTransaction(c) \/ CreateOne(c) PROVE SchemaInv'
  <2>1. Target(c) \in 1..Latest
    BY <1>3 DEF BeginTransaction, CreateOne, Migrating, Target, SchemaInv, TypeOK,
      SchemaAssumption
  <2>2. UNCHANGED <<database, version, at>>
    BY <1>3 DEF BeginTransaction, CreateOne, database
  <2>3. pending' \subseteq UNION {Creates[v] : v \in 1..Latest}
    BY <1>3, <2>1 DEF BeginTransaction, CreateOne, SchemaInv, TypeOK
  <2>4. TypeOK'
    BY <1>3, <2>2, <2>3 DEF BeginTransaction, CreateOne, database, SchemaInv, TypeOK
  <2>5. QED
    BY <2>2, <2>4, FileUntouched
<1>4. ASSUME NEW c \in Copies, GiveUp(c) \/ Fail(c) PROVE SchemaInv'
  <2>1. TypeOK' /\ UNCHANGED <<database, version>>
    BY <1>4 DEF GiveUp, Fail, Goes, Released, database, SchemaInv, TypeOK
  <2>2. \A d \in Copies : at'[d] = "ready" => at[d] = "ready"
    BY <1>4 DEF GiveUp, Fail, Goes, SchemaInv, TypeOK
  <2>3. QED
    BY <2>1, <2>2, FileUntouched
<1>5. ASSUME NEW c \in Copies, Ready(c) PROVE SchemaInv'
  <2>1. TypeOK' /\ UNCHANGED <<database, version>>
    BY <1>5 DEF Ready, Goes, database, SchemaInv, TypeOK
  <2>2. Known[c] <= version[c]
    BY <1>5 DEF Ready, Migrating, Target, SchemaInv, TypeOK, SchemaAssumption
  <2>3. \A d \in Copies : at'[d] = "ready" => at[d] = "ready" \/ Known[d] <= version[d]
    BY <1>5, <2>2 DEF Ready, Goes, SchemaInv, TypeOK
  <2>4. QED
    BY <2>1, <2>3, FileUntouched
<1>6. QED
  BY <1>1, <1>2, <1>3, <1>4, <1>5, ReadVersionKeeps, CommitKeeps, EndKeeps DEF SchemaNext

\* What a version says of the file, and what readiness says of it, follow.
LEMMA SchemaInvSuffices ==
  ASSUME SchemaAssumption
  PROVE  SchemaInv => SchemaComplete
<1> SUFFICES ASSUME SchemaInv PROVE SchemaComplete
  OBVIOUS
<1>1. PICK n \in 0..Latest : RecordedUpTo(n)
  BY DEF SchemaInv
<1>2. ASSUME NEW v \in 0..n PROVE Complete(v)
  BY <1>1, <1>2 DEF RecordedUpTo, Complete, SchemaAssumption
<1>3. \A v \in recorded : Complete(v)
  BY <1>1, <1>2 DEF RecordedUpTo
<1>4. ASSUME NEW c \in Copies, at[c] = "ready" PROVE Complete(Known[c])
  <2>1. Known[c] \in 0..Latest /\ Known[c] <= version[c] /\ version[c] <= n
    BY <1>1, <1>4 DEF SchemaInv, RecordedUpTo, SchemaAssumption
  <2>2. Known[c] \in 0..n
    BY <1>1, <2>1 DEF SchemaInv, TypeOK, SchemaAssumption
  <2>3. QED
    BY <1>2, <2>2
<1>5. QED
  BY <1>3, <1>4 DEF SchemaComplete

\* However many copies of the program open the database at once, give up, fail and
\* stop at any point, a recorded version is complete, and a copy that started finds
\* every table it knows of (database/connection.py, migrate).
THEOREM SchemaAlwaysComplete ==
  ASSUME SchemaAssumption
  PROVE  SchemaSpec => []SchemaComplete
BY SchemaStart, SchemaStep, SchemaInvSuffices, PTL DEF SchemaSpec

-----------------------------------------------------------------------------
(* The window.                                                              *)

Jobs == {"scan", "plan", "optimize", "cleanup_plan", "clean", "steam_plan", "wipe",
         "survey", "folder_plan", "folder_run", "startup_list", "toggle",
         "audit", "settings", "settings_plan", "apply", "history", "restore",
         "save", "compare"}

Dialogs == {"note", "preview", "optimized", "cleanup", "cleaned", "steam", "usage",
            "confirm_folder", "startup", "settings", "confirm_settings", "history",
            "restored", "comparison"}

Has(d) == Contains(open, d)

WindowTypes ==
  /\ job \in [Runners -> Jobs \cup {"none"}]
  /\ \A r \in Runners : Busy(r) => RunnerOf(job[r]) = r
  /\ on \subseteq Buttons
  /\ open \in Seq(Dialogs)

\* A button that is off has a job that will turn it on, a report whose closing scans
\* again, or a scan that failed and said so.
ButtonsInv ==
  /\ "rescan" \in on \/ Busy("scan") \/ Busy("optimize")
  /\ header # "failed" =>
       /\ "optimize" \in on \/ Busy("scan") \/ Busy("optimize") \/ Has("optimized")
       /\ \/ "tools" \in on \/ Busy("scan")
          \/ Busy("cleanup") \/ Busy("steam") \/ Busy("profile")
          \/ job["tools"] \in {"survey", "startup_list"}

FolderJobs == {"folder_plan", "folder_run"}

\* A question about a folder is asked once at a time.
AskedOnce ==
  \A i, j \in 1..Len(open) :
    open[i] = "confirm_folder" /\ open[j] = "confirm_folder" => i = j

\* A waiting usage dialog is open, and its job runs or its question is asked, never
\* both; nothing of the tools is open while one of their lists is being made.
UsageInv ==
  /\ "usage" \in waiting => Has("usage") /\ (job["tools"] \in FolderJobs \/ Has("confirm_folder"))
  /\ job["tools"] \in FolderJobs => "usage" \in waiting
  /\ Has("confirm_folder") => "usage" \in waiting /\ ~Busy("tools")
  /\ AskedOnce
  /\ job["tools"] \in {"survey", "startup_list"} =>
       ~Has("usage") /\ ~Has("startup") /\ ~Has("confirm_folder")
  /\ ~(Has("usage") /\ Has("startup"))

WindowInv == WindowTypes /\ ButtonsInv /\ UsageInv

-----------------------------------------------------------------------------
\* What opening and closing a dialog does to the dialogs that are open.
LEMMA OpenOver ==
  ASSUME NEW rest \in Seq(Dialogs), NEW d \in Dialogs
  PROVE  LET all == <<d>> \o rest IN
         /\ all \in Seq(Dialogs)
         /\ \A x : Contains(all, x) <=> x = d \/ Contains(rest, x)
         /\ /\ \A i, j \in 1..Len(rest) :
                 rest[i] = "confirm_folder" /\ rest[j] = "confirm_folder" => i = j
            /\ d = "confirm_folder" => ~Contains(rest, "confirm_folder")
            => \A i, j \in 1..Len(all) :
                 all[i] = "confirm_folder" /\ all[j] = "confirm_folder" => i = j
<1> DEFINE all == <<d>> \o rest
<1>1. <<d>> \in Seq(Dialogs) /\ Len(<<d>>) = 1 /\ <<d>>[1] = d
  OBVIOUS
<1>2. /\ Len(rest) \in Nat /\ all \in Seq(Dialogs) /\ Len(all) = Len(rest) + 1
      /\ \A i \in 1..Len(rest) + 1 : all[i] = IF i <= 1 THEN d ELSE rest[i - 1]
  BY <1>1, ConcatProperties, LenProperties
<1> HIDE DEF all
<1>3. \A i \in 1..Len(rest) : i + 1 \in 1..Len(all) /\ all[i + 1] = rest[i]
  BY <1>2
<1>4. 1 \in 1..Len(all) /\ all[1] = d
  BY <1>2
<1>5. \A i \in 1..Len(all) : i = 1 \/ (i - 1 \in 1..Len(rest) /\ all[i] = rest[i - 1])
  BY <1>2
<1>6. ASSUME NEW x PROVE Contains(all, x) <=> x = d \/ Contains(rest, x)
  BY <1>3, <1>4, <1>5 DEF Contains
<1>7. ASSUME \A i, j \in 1..Len(rest) :
               rest[i] = "confirm_folder" /\ rest[j] = "confirm_folder" => i = j,
             d = "confirm_folder" => ~Contains(rest, "confirm_folder"),
             NEW i \in 1..Len(all), NEW j \in 1..Len(all),
             all[i] = "confirm_folder", all[j] = "confirm_folder"
      PROVE  i = j
  <2>1. i \in Int /\ j \in Int
    BY <1>2
  <2>2. (i = 1 \/ (i - 1 \in 1..Len(rest) /\ rest[i - 1] = "confirm_folder"))
        /\ (j = 1 \/ (j - 1 \in 1..Len(rest) /\ rest[j - 1] = "confirm_folder"))
    BY <1>5, <1>7
  <2>3. i = 1 \/ j = 1 => ~\E k \in 1..Len(rest) : rest[k] = "confirm_folder"
    BY <1>4, <1>7 DEF Contains
  <2>4. CASE i = 1 \/ j = 1
    BY <2>2, <2>3, <2>4
  <2>5. CASE i # 1 /\ j # 1
    <3>1. i - 1 = j - 1
      BY <2>2, <2>5, <1>7
    <3>2. QED
      BY <3>1, <2>1
  <2>6. QED
    BY <2>4, <2>5
<1>8. QED
  BY <1>2, <1>6, <1>7 DEF all

LEMMA OpenOne ==
  ASSUME open \in Seq(Dialogs), NEW d \in Dialogs, open' = <<d>> \o open
  PROVE  /\ open' \in Seq(Dialogs)
         /\ \A x : Contains(open', x) <=> x = d \/ Contains(open, x)
         /\ AskedOnce /\ (d = "confirm_folder" => ~Has("confirm_folder")) => AskedOnce'
<1>1. /\ open' \in Seq(Dialogs)
      /\ \A x : Contains(open', x) <=> x = d \/ Contains(open, x)
      /\ /\ \A i, j \in 1..Len(open) :
              open[i] = "confirm_folder" /\ open[j] = "confirm_folder" => i = j
         /\ d = "confirm_folder" => ~Contains(open, "confirm_folder")
         => \A i, j \in 1..Len(open') :
              open'[i] = "confirm_folder" /\ open'[j] = "confirm_folder" => i = j
  BY OpenOver
<1>2. QED
  BY <1>1 DEF AskedOnce, Has

LEMMA OpenNone ==
  ASSUME open \in Seq(Dialogs), open' = << >> \o open PROVE open' = open
BY ConcatEmptySeq

LEMMA CloseTop ==
  ASSUME open \in Seq(Dialogs), open # << >>, open' = Tail(open)
  PROVE  /\ open' \in Seq(Dialogs)
         /\ \A x : Contains(open, x) <=> x = Head(open) \/ Contains(open', x)
         /\ AskedOnce => AskedOnce'
         /\ AskedOnce /\ Head(open) = "confirm_folder" => ~Contains(open', "confirm_folder")
<1>1. /\ Len(open) \in Nat \ {0} /\ open' \in Seq(Dialogs) /\ Len(open') = Len(open) - 1
      /\ \A i \in 1..Len(open') : open'[i] = open[i + 1]
  BY HeadTailProperties, EmptySeq
<1>2. 1 \in 1..Len(open) /\ open[1] = Head(open)
  BY <1>1
<1>3. \A i \in 1..Len(open') : i + 1 \in 1..Len(open) /\ open'[i] = open[i + 1]
  BY <1>1
<1>4. \A i \in 1..Len(open) : i = 1 \/ (i - 1 \in 1..Len(open') /\ open[i] = open'[i - 1])
  BY <1>1
<1>5. ASSUME NEW x PROVE Contains(open, x) <=> x = Head(open) \/ Contains(open', x)
  BY <1>2, <1>3, <1>4 DEF Contains
<1>6. ASSUME AskedOnce PROVE AskedOnce'
  BY <1>1, <1>3, <1>6 DEF AskedOnce
<1>7. ASSUME AskedOnce, Head(open) = "confirm_folder"
      PROVE  ~Contains(open', "confirm_folder")
  BY <1>1, <1>2, <1>3, <1>7 DEF AskedOnce, Contains
<1>8. QED
  BY <1>1, <1>5, <1>6, <1>7

\* Removing the settings dialog from wherever it is leaves the others.
LEMMA CloseWithin ==
  ASSUME open \in Seq(Dialogs)
  PROVE  LET left == Without("settings") IN
         /\ left \in Seq(Dialogs)
         /\ \A x : x # "settings" => (Contains(left, x) <=> Contains(open, x))
         /\ AskedOnce =>
              \A i, j \in 1..Len(left) :
                left[i] = "confirm_folder" /\ left[j] = "confirm_folder" => i = j
<1> DEFINE left == Without("settings")
<1>1. CASE ~Contains(open, "settings")
  BY <1>1 DEF Without, AskedOnce
<1>2. CASE Contains(open, "settings")
  <2> DEFINE n == CHOOSE i \in DOMAIN open : open[i] = "settings"
             s == SubSeq(open, 1, n - 1)
             t == SubSeq(open, n + 1, Len(open))
  <2>1. Len(open) \in Nat /\ DOMAIN open = 1..Len(open) /\ open \in [1..Len(open) -> Dialogs]
    BY LenProperties
  <2>2. n \in 1..Len(open) /\ open[n] = "settings"
    BY <1>2, <2>1 DEF Contains
  <2>3. left = s \o t
    BY <1>2 DEF Without, RemoveAt
  <2> DEFINE L == Len(open)
  <2> HIDE DEF n, L
  <2>l. L \in Nat /\ n \in Nat /\ 1 <= n /\ n <= L /\ L = Len(open)
    BY <2>1, <2>2 DEF L
  <2>o. \A i \in 1..L : open[i] \in Dialogs
    BY <2>1, <2>l
  <2>4. s \in Seq(Dialogs) /\ Len(s) = n - 1 /\ \A i \in 1..n - 1 : s[i] = open[i]
    <3>1. \A i \in 1..n - 1 : open[i] \in Dialogs
      BY <2>o, <2>l
    <3>2. 1 \in Int /\ n - 1 \in Int
      BY <2>l
    <3>3. /\ s \in Seq(Dialogs) /\ Len(s) = IF 1 <= n - 1 THEN (n - 1) - 1 + 1 ELSE 0
          /\ \A i \in 1..(n - 1) - 1 + 1 : s[i] = open[1 + i - 1]
      BY <3>1, <3>2, SubSeqProperties
    <3>4. (n - 1) - 1 + 1 = n - 1 /\ \A i \in Int : 1 + i - 1 = i
      BY <2>l
    <3>5. QED
      BY <3>3, <3>4, <2>l
  <2>5. t \in Seq(Dialogs) /\ Len(t) = L - n /\ \A i \in 1..L - n : t[i] = open[i + n]
    <3>1. \A i \in n + 1..L : open[i] \in Dialogs
      BY <2>o, <2>l
    <3>2. n + 1 \in Int /\ L \in Int /\ t = SubSeq(open, n + 1, L)
      BY <2>l
    <3>3. /\ t \in Seq(Dialogs)
          /\ Len(t) = IF n + 1 <= L THEN L - (n + 1) + 1 ELSE 0
          /\ \A i \in 1..L - (n + 1) + 1 : t[i] = open[(n + 1) + i - 1]
      BY <3>1, <3>2, SubSeqProperties
    <3>4. L - (n + 1) + 1 = L - n /\ \A i \in Int : (n + 1) + i - 1 = i + n
      BY <2>l
    <3>5. Len(t) = L - n
      BY <3>3, <2>l
    <3>6. \A i \in 1..L - n : i \in Int /\ i \in 1..L - (n + 1) + 1
      BY <2>l
    <3>7. \A i \in 1..L - n : t[i] = open[i + n]
      BY <3>3, <3>4, <3>6
    <3>8. QED
      BY <3>3, <3>5, <3>7
  <2> HIDE DEF s, t, left
  <2>6. /\ left \in Seq(Dialogs) /\ Len(left) = L - 1
        /\ \A i \in 1..L - 1 : left[i] = IF i < n THEN open[i] ELSE open[i + 1]
    <3>1. /\ left \in Seq(Dialogs) /\ Len(left) = Len(s) + Len(t)
          /\ \A i \in 1..Len(s) + Len(t) :
               left[i] = IF i <= Len(s) THEN s[i] ELSE t[i - Len(s)]
      BY <2>3, <2>4, <2>5, ConcatProperties
    <3>2. (n - 1) + (L - n) = L - 1
      BY <2>l
    <3>3. /\ Len(left) = L - 1
          /\ \A i \in 1..L - 1 : left[i] = IF i <= n - 1 THEN s[i] ELSE t[i - (n - 1)]
      BY <3>1, <3>2, <2>4, <2>5
    <3>4. ASSUME NEW i \in 1..L - 1
          PROVE  left[i] = IF i < n THEN open[i] ELSE open[i + 1]
      <4>1. CASE i < n
        <5>1. i \in 1..n - 1
          BY <4>1, <2>l
        <5>2. QED
          BY <4>1, <5>1, <3>3, <2>4
      <4>2. CASE ~(i < n)
        <5>1. i - (n - 1) \in 1..L - n /\ i - (n - 1) + n = i + 1 /\ ~(i <= n - 1)
          BY <4>2, <2>l
        <5>2. QED
          BY <4>2, <5>1, <3>3, <2>5
      <4>3. QED
        BY <4>1, <4>2
    <3>5. QED
      BY <3>1, <3>3, <3>4
  <2>7. ASSUME NEW x, x # "settings" PROVE Contains(left, x) <=> Contains(open, x)
    <3>1. ASSUME Contains(left, x) PROVE Contains(open, x)
      BY <3>1, <2>6, <2>l DEF Contains
    <3>2. ASSUME Contains(open, x) PROVE Contains(left, x)
      <4>1. PICK i \in 1..L : open[i] = x
        BY <3>2, <2>l DEF Contains
      <4>2. CASE i < n
        BY <4>1, <4>2, <2>6, <2>l DEF Contains
      <4>3. CASE i > n
        <5>1. i - 1 \in 1..L - 1 /\ left[i - 1] = open[i]
          BY <4>1, <4>3, <2>6, <2>l
        <5>2. QED
          BY <5>1, <4>1, <2>6 DEF Contains
      <4>4. QED
        BY <4>1, <4>2, <4>3, <2>7, <2>2, <2>l
    <3>3. QED
      BY <3>1, <3>2
  <2>8. ASSUME AskedOnce, NEW i \in 1..Len(left), NEW j \in 1..Len(left),
               left[i] = "confirm_folder", left[j] = "confirm_folder"
        PROVE  i = j
    <3> DEFINE a == IF i < n THEN i ELSE i + 1
               b == IF j < n THEN j ELSE j + 1
    <3>1. a \in 1..L /\ b \in 1..L /\ open[a] = left[i] /\ open[b] = left[j]
      BY <2>l, <2>6
    <3>2. a = b
      BY <3>1, <2>8, <2>l DEF AskedOnce
    <3>3. QED
      BY <3>2, <2>l, <2>6
  <2>9. QED
    BY <2>6, <2>7, <2>8 DEF left
<1>3. QED
  BY <1>1, <1>2

-----------------------------------------------------------------------------
\* What starting and handling a job does to the jobs.
LEMMA KindsOfRunners ==
  /\ \A kind \in Jobs : RunnerOf(kind) \in Runners
  /\ RunnerOf("scan") = "scan"
  /\ \A k \in {"plan", "optimize"} : RunnerOf(k) = "optimize"
  /\ \A k \in {"cleanup_plan", "clean"} : RunnerOf(k) = "cleanup"
  /\ \A k \in {"steam_plan", "wipe"} : RunnerOf(k) = "steam"
  /\ \A k \in {"survey", "folder_plan", "folder_run", "startup_list", "toggle"} :
       RunnerOf(k) = "tools"
  /\ \A k \in {"audit", "settings", "settings_plan", "apply", "history", "restore"} :
       RunnerOf(k) = "system"
  /\ \A k \in {"save", "compare"} : RunnerOf(k) = "profile"
BY DEF RunnerOf, Jobs, Runners

JobTypes ==
  /\ job \in [Runners -> Jobs \cup {"none"}]
  /\ \A r \in Runners : Busy(r) => RunnerOf(job[r]) = r

LEMMA StartedJobs ==
  ASSUME JobTypes, NEW kind \in Jobs, job' = Started(kind)
  PROVE  /\ JobTypes'
         /\ \A r \in Runners : r # RunnerOf(kind) \/ Busy(r) => job'[r] = job[r]
         /\ Busy(RunnerOf(kind))'
         /\ ~Busy(RunnerOf(kind)) => job'[RunnerOf(kind)] = kind
<1>1. RunnerOf(kind) \in Runners /\ kind # "none"
  BY KindsOfRunners DEF Jobs
<1>2. CASE Busy(RunnerOf(kind))
  BY <1>1, <1>2 DEF Started, JobTypes, Busy
<1>3. CASE ~Busy(RunnerOf(kind))
  <2>1. job' = [job EXCEPT ![RunnerOf(kind)] = kind]
    BY <1>3 DEF Started
  <2>2. QED
    BY <1>1, <1>3, <2>1 DEF JobTypes, Busy
<1>4. QED
  BY <1>2, <1>3

LEMMA HandledJobs ==
  ASSUME JobTypes, NEW kind \in Jobs, NEW how, Handles(kind, how)
  PROVE  /\ JobTypes' /\ job[RunnerOf(kind)] = kind /\ Busy(RunnerOf(kind))
         /\ ~Busy(RunnerOf(kind))' /\ job'[RunnerOf(kind)] = "none"
         /\ \A r \in Runners : r # RunnerOf(kind) => job'[r] = job[r]
<1>1. RunnerOf(kind) \in Runners /\ kind # "none"
  BY KindsOfRunners DEF Jobs
<1>2. QED
  BY <1>1 DEF Handles, JobTypes, Busy

-----------------------------------------------------------------------------
LEMMA WindowStart == WindowInit => WindowInv
<1> SUFFICES ASSUME WindowInit PROVE WindowInv
  OBVIOUS
<1>1. WindowTypes
  <2>1. open \in Seq(Dialogs)
    <3>1. "note" \in Dialogs /\ (open = << >> \/ open = <<"note">>)
      BY DEF WindowInit, Dialogs
    <3>2. << >> \in Seq(Dialogs) /\ <<"note">> \in Seq(Dialogs)
      BY <3>1
    <3>3. QED
      BY <3>1, <3>2
  <2>2. \A r \in Runners : job[r] = IF r = "scan" THEN "scan" ELSE "none"
    BY DEF WindowInit
  <2>3. job \in [Runners -> Jobs \cup {"none"}]
    BY DEF WindowInit, Jobs
  <2>4. QED
    BY <2>1, <2>2, <2>3, KindsOfRunners DEF WindowInit, WindowTypes, Busy
<1>2. Busy("scan") /\ job["tools"] = "none" /\ waiting = {}
  BY DEF WindowInit, Busy, Runners
<1>3. \A i \in 1..Len(open) : open[i] = "note"
  BY DEF WindowInit
<1>4. ButtonsInv /\ UsageInv
  BY <1>2, <1>3 DEF ButtonsInv, UsageInv, AskedOnce, Has, Contains, FolderJobs, Busy
<1>5. QED
  BY <1>1, <1>4 DEF WindowInv

\* The window's own buttons.
LEMMA ButtonStep ==
  ASSUME WindowInv,
         AskRescan \/ AskOptimize \/ (\E kind \in FirstJobs : Tool(kind))
  PROVE  WindowInv'
<1> USE KindsOfRunners
<1>0. JobTypes /\ open = << >> /\ open' = open /\ waiting' = waiting
  BY DEF WindowInv, WindowTypes, JobTypes, AskRescan, AskOptimize, Tool
<1>1. CASE AskRescan
  <2>1. CASE Busy("scan")
    BY <1>0, <1>1, <2>1
       DEF AskRescan, ScanBegins, WindowInv, WindowTypes, ButtonsInv, UsageInv, AskedOnce, Has,
           Busy, results
  <2>2. CASE ~Busy("scan")
    <3>1. job' = Started("scan") /\ on' = {}
      BY <1>1, <2>2 DEF AskRescan, ScanBegins
    <3>2. JobTypes' /\ Busy("scan")' /\ job'["tools"] = job["tools"]
      BY <1>0, <3>1, StartedJobs DEF Jobs, Runners
    <3>3. QED
      BY <1>0, <3>1, <3>2
         DEF WindowInv, WindowTypes, JobTypes, ButtonsInv, UsageInv, AskedOnce, Has, Busy
  <2>3. QED
    BY <2>1, <2>2
<1>2. CASE AskOptimize
  <2>1. job' = Started("plan") /\ on' = on \ {"optimize", "rescan"} /\ header' = header
    BY <1>2 DEF AskOptimize, Planning, results
  <2>2. /\ JobTypes' /\ Busy("optimize")'
        /\ \A r \in Runners \ {"optimize"} : job'[r] = job[r]
    BY <1>0, <2>1, StartedJobs DEF Jobs, Runners
  <2>3. QED
    BY <1>0, <2>1, <2>2
       DEF WindowInv, WindowTypes, JobTypes, ButtonsInv, UsageInv, AskedOnce, Has, Busy, Runners
<1>3. ASSUME NEW kind \in FirstJobs, Tool(kind) PROVE WindowInv'
  <2>1. /\ job' = Started(kind) /\ ~Busy(RunnerOf(kind)) /\ header' = header
        /\ on' = IF Locks(kind) THEN on \ {"tools"} ELSE on
    BY <1>3 DEF Tool, results
  <2>2. /\ JobTypes' /\ Busy(RunnerOf(kind))' /\ job'[RunnerOf(kind)] = kind
        /\ \A r \in Runners : Busy(r) => job'[r] = job[r]
        /\ \A r \in Runners \ {RunnerOf(kind)} : job'[r] = job[r]
    BY <1>0, <2>1, StartedJobs DEF Jobs, FirstJobs
  <2>3. ~Has("usage") /\ ~Has("startup") /\ ~Has("confirm_folder") /\ "usage" \notin waiting
    BY <1>0 DEF Has, Contains, WindowInv, UsageInv
  <2>4. kind \notin FolderJobs /\ kind # "toggle"
    BY DEF FirstJobs, FolderJobs
  <2>5. ButtonsInv'
    BY <1>0, <2>1, <2>2 DEF WindowInv, ButtonsInv, Busy, Has, Locks, Runners, FirstJobs
  <2>6. UsageInv'
    BY <1>0, <2>2, <2>3, <2>4
       DEF WindowInv, UsageInv, AskedOnce, Has, Busy, Runners, FirstJobs, FolderJobs
  <2>7. QED
    BY <1>0, <2>1, <2>2, <2>5, <2>6 DEF WindowInv, WindowTypes, JobTypes
<1>4. QED
  BY <1>1, <1>2, <1>3

\* A worker that reads or ends changes no button and no dialog.
LEMMA WorkerStep ==
  ASSUME WindowInv, ScanReads \/ (\E r \in Runners : Ends(r))
  PROVE  WindowInv'
<1>1. UNCHANGED <<job, on, open, waiting, header>>
  BY DEF ScanReads, Ends
<1>2. QED
  BY <1>1 DEF WindowInv, WindowTypes, ButtonsInv, UsageInv, AskedOnce, Has, Busy

\* What is left of the invariant to be shown of a completion that opens one dialog
\* that is not one of the tools', and turns buttons on.
LEMMA NoteStep ==
  ASSUME WindowInv, NEW kind \in Jobs, NEW how, NEW d \in Dialogs,
         Handles(kind, how), Opening(<<d>>), RunnerOf(kind) # "tools",
         d \notin {"usage", "startup", "confirm_folder"},
         "usage" \in waiting' <=> "usage" \in waiting,
         on \subseteq on', on' \subseteq Buttons, header' = header,
         RunnerOf(kind) # "scan",
         RunnerOf(kind) = "optimize" =>
           "rescan" \in on' /\ ("optimize" \in on' \/ d = "optimized"),
         RunnerOf(kind) \in {"cleanup", "steam", "profile"} => "tools" \in on'
  PROVE  WindowInv'
<1>1. /\ JobTypes' /\ job[RunnerOf(kind)] = kind /\ Busy(RunnerOf(kind))
      /\ ~Busy(RunnerOf(kind))' /\ job'[RunnerOf(kind)] = "none"
      /\ \A r \in Runners : r # RunnerOf(kind) => job'[r] = job[r]
  BY HandledJobs DEF WindowInv, WindowTypes, JobTypes
<1>2. /\ open' \in Seq(Dialogs) /\ AskedOnce'
      /\ \A x : Has(x)' <=> x = d \/ Has(x)
  BY OpenOne DEF WindowInv, WindowTypes, UsageInv, Opening, Has
<1>3. WindowTypes'
  BY <1>1, <1>2 DEF WindowTypes, JobTypes
<1>4. ButtonsInv'
  BY <1>1, <1>2 DEF WindowInv, ButtonsInv, Busy, Runners
<1>5. UsageInv'
  BY <1>1, <1>2 DEF WindowInv, UsageInv, Busy, Runners
<1>6. QED
  BY <1>3, <1>4, <1>5 DEF WindowInv

\* The same when nothing opens, by a job of the system dialogs.
LEMMA SystemStep ==
  ASSUME WindowInv, NEW kind \in Jobs, NEW how, Handles(kind, how),
         RunnerOf(kind) = "system", open' \in Seq(Dialogs), AskedOnce',
         \A x \in {"usage", "startup", "confirm_folder", "optimized"} : Has(x)' <=> Has(x),
         "usage" \in waiting' <=> "usage" \in waiting, on' = on, header' = header
  PROVE  WindowInv'
<1>1. JobTypes' /\ \A r \in Runners : r # "system" => job'[r] = job[r]
  BY HandledJobs DEF WindowInv, WindowTypes, JobTypes
<1>2. WindowTypes'
  BY <1>1 DEF WindowInv, WindowTypes, JobTypes
<1>3. ButtonsInv'
  BY <1>1 DEF WindowInv, ButtonsInv, Busy, Runners
<1>4. UsageInv'
  BY <1>1 DEF WindowInv, UsageInv, Busy, Runners
<1>5. QED
  BY <1>2, <1>3, <1>4 DEF WindowInv

LEMMA ScanAnswered ==
  ASSUME WindowInv, ScanCompleted \/ ScanFailed PROVE WindowInv'
<1> USE KindsOfRunners
<1>1. /\ JobTypes' /\ ~Busy("scan")'
      /\ \A r \in Runners : r # "scan" => job'[r] = job[r]
  BY HandledJobs DEF WindowInv, WindowTypes, JobTypes, ScanCompleted, ScanFailed, Jobs
<1>2. CASE ScanCompleted
  BY <1>1, <1>2
     DEF ScanCompleted, WindowInv, WindowTypes, JobTypes, ButtonsInv, UsageInv, AskedOnce, Has,
         Busy, Runners, Buttons
<1>3. CASE ScanFailed
  <2>1. /\ open' \in Seq(Dialogs) /\ AskedOnce'
        /\ \A x : Has(x)' <=> x = "note" \/ Has(x)
    BY <1>3, OpenOne
       DEF ScanFailed, WindowInv, WindowTypes, UsageInv, Opening, Has, Dialogs
  <2>2. on' = on \cup {"rescan"} /\ header' = "failed" /\ waiting' = waiting
    BY <1>3 DEF ScanFailed
  <2>3. WindowTypes' /\ ButtonsInv'
    BY <1>1, <2>1, <2>2 DEF WindowInv, WindowTypes, JobTypes, ButtonsInv, Buttons
  <2>4. UsageInv'
    BY <1>1, <2>1, <2>2 DEF WindowInv, UsageInv, Busy, Runners
  <2>5. QED
    BY <2>3, <2>4 DEF WindowInv
<1>4. QED
  BY <1>2, <1>3

LEMMA OptimizeAnswered ==
  ASSUME WindowInv, PreviewReady \/ OptimizeFinished \/ OptimizeFailed PROVE WindowInv'
<1>1. PICK kind \in {"plan", "optimize"}, how \in {"ok", "failed"},
           d \in {"preview", "optimized", "note"} :
        /\ Handles(kind, how) /\ Opening(<<d>>) /\ waiting' = waiting /\ header' = header
        /\ on \subseteq on' /\ on' \subseteq on \cup {"rescan", "optimize"} /\ "rescan" \in on'
        /\ "optimize" \in on' \/ d = "optimized"
  BY DEF PreviewReady, OptimizeFinished, OptimizeFailed, results
<1>2. on' \subseteq Buttons /\ RunnerOf(kind) = "optimize" /\ kind \in Jobs /\ d \in Dialogs
  BY <1>1, KindsOfRunners DEF WindowInv, WindowTypes, Buttons, Jobs, Dialogs
<1>3. QED
  BY <1>1, <1>2, NoteStep

LEMMA CleanupAnswered ==
  ASSUME WindowInv,
         CleanupPlanned \/ CleanupFinished \/ SteamPlanned \/ SteamWiped
         \/ CleanupOrSteamFailed \/ ProfileAnswered
  PROVE  WindowInv'
<1>1. PICK kind \in {"cleanup_plan", "clean", "steam_plan", "wipe", "save", "compare"},
           how \in {"ok", "failed"},
           d \in {"note", "cleanup", "cleaned", "steam", "comparison"} :
        /\ Handles(kind, how) /\ Opening(<<d>>) /\ waiting' = waiting /\ header' = header
        /\ on' = on \cup {"tools"}
  <2>1. CASE CleanupPlanned \/ SteamPlanned
    BY <2>1 DEF CleanupPlanned, SteamPlanned, results, ToolsBack
  <2>2. CASE CleanupFinished \/ SteamWiped \/ CleanupOrSteamFailed
    BY <2>2 DEF CleanupFinished, SteamWiped, CleanupOrSteamFailed, results, ToolsBack
  <2>3. CASE ProfileAnswered
    BY <2>3 DEF ProfileAnswered, results, ToolsBack
  <2>4. QED
    BY <2>1, <2>2, <2>3
<1>2. /\ on' \subseteq Buttons /\ kind \in Jobs /\ d \in Dialogs
      /\ RunnerOf(kind) \in {"cleanup", "steam", "profile"}
  BY <1>1, KindsOfRunners DEF WindowInv, WindowTypes, Buttons, Jobs, Dialogs
<1>3. QED
  BY <1>1, <1>2, NoteStep

LEMMA ToolsAnswered ==
  ASSUME WindowInv,
         ToolListed \/ FolderPlanned \/ FolderDone \/ StartupToggled \/ ToolsFailed
  PROVE  WindowInv'
<1> USE KindsOfRunners
<1> DEFINE Answered(kind) ==
      /\ JobTypes' /\ job["tools"] = kind /\ Busy("tools") /\ ~Busy("tools")'
      /\ job'["tools"] = "none" /\ \A r \in Runners : r # "tools" => job'[r] = job[r]
<1>a. ASSUME NEW kind \in {"survey", "folder_plan", "folder_run", "startup_list", "toggle"},
             NEW how, Handles(kind, how)
      PROVE  Answered(kind)
  BY <1>a, HandledJobs DEF WindowInv, WindowTypes, JobTypes, Jobs
<1> HIDE DEF Answered
<1>b. ASSUME NEW kind, Answered(kind), on' \subseteq Buttons, open' \in Seq(Dialogs),
             \A x : Has(x) => Has(x)',
             header' = header, on \subseteq on',
             kind \in {"survey", "startup_list"} => "tools" \in on'
      PROVE  WindowTypes' /\ ButtonsInv'
  <2>1. WindowTypes'
    BY <1>b DEF Answered, WindowTypes, JobTypes
  <2>2. ButtonsInv'
    BY <1>b DEF Answered, WindowInv, ButtonsInv, Busy, Runners
  <2>3. QED
    BY <2>1, <2>2
<1>c. ASSUME NEW d \in Dialogs, Opening(<<d>>)
      PROVE  /\ open' \in Seq(Dialogs) /\ \A x : Has(x)' <=> x = d \/ Has(x)
             /\ (d = "confirm_folder" => ~Has("confirm_folder")) => AskedOnce'
  BY <1>c, OpenOne DEF WindowInv, WindowTypes, UsageInv, Opening, Has
<1>1. CASE ToolListed
  <2>1. PICK kind \in {"survey", "startup_list"}, d \in {"usage", "startup"} :
          Handles(kind, "ok") /\ Opening(<<d>>)
    BY <1>1 DEF ToolListed
  <2>2. /\ on' = on \cup {"tools"} /\ waiting' = waiting /\ header' = header
    BY <1>1 DEF ToolListed, ToolsBack, results
  <2>3. Answered(kind) /\ d \in Dialogs
    BY <2>1, <1>a DEF Dialogs
  <2>4. /\ open' \in Seq(Dialogs) /\ (\A x : Has(x)' <=> x = d \/ Has(x)) /\ AskedOnce'
    BY <2>1, <2>3, <1>c
  <2>5. WindowTypes' /\ ButtonsInv'
    BY <2>2, <2>3, <2>4, <1>b DEF WindowInv, WindowTypes, Buttons
  <2>6. UsageInv'
    BY <2>2, <2>3, <2>4, <2>1 DEF WindowInv, UsageInv, Answered, Busy, FolderJobs
  <2>7. QED
    BY <2>5, <2>6 DEF WindowInv
<1>2. CASE FolderPlanned
  <2>1. /\ Answered("folder_plan") /\ on' = on /\ waiting' = waiting /\ header' = header
    BY <1>2, <1>a DEF FolderPlanned, results
  <2>2. "usage" \in waiting /\ Has("usage") /\ ~Has("confirm_folder")
    BY <2>1 DEF Answered, WindowInv, UsageInv, FolderJobs
  <2>3. Opening(<<"confirm_folder">>)
    BY <1>2, <2>2 DEF FolderPlanned, Has
  <2>4. /\ open' \in Seq(Dialogs) /\ AskedOnce'
        /\ \A x : Has(x)' <=> x = "confirm_folder" \/ Has(x)
    BY <2>2, <2>3, <1>c DEF Dialogs
  <2>5. WindowTypes' /\ ButtonsInv'
    BY <2>1, <2>4, <1>b DEF WindowInv, WindowTypes
  <2>6. UsageInv'
    BY <2>1, <2>2, <2>4 DEF WindowInv, UsageInv, Answered, Busy, FolderJobs
  <2>7. QED
    BY <2>5, <2>6 DEF WindowInv
<1>3. CASE FolderDone \/ ToolsFailed
  <2>1. PICK kind \in {"survey", "folder_plan", "folder_run", "startup_list", "toggle"},
             how \in {"ok", "failed"} : Handles(kind, how)
    BY <1>3 DEF FolderDone, ToolsFailed
  <2>2. Answered(kind) /\ header' = header
    BY <1>3, <2>1, <1>a DEF FolderDone, ToolsFailed, results
  <2>3. ~Has("confirm_folder")
    BY <2>2 DEF Answered, WindowInv, UsageInv
  <2>4. Opening(<<"note">>) /\ waiting' = waiting \ {"usage"}
    <3>1. CASE FolderDone
      <4>1. Answered("folder_run")
        BY <3>1, <1>a DEF FolderDone
      <4>2. Has("usage")
        BY <4>1 DEF Answered, WindowInv, UsageInv, FolderJobs
      <4>3. QED
        BY <3>1, <4>2 DEF FolderDone, Has
    <3>2. CASE ToolsFailed
      BY <3>2 DEF ToolsFailed, NoLongerWaiting
    <3>3. QED
      BY <1>3, <3>1, <3>2
  <2>5. /\ open' \in Seq(Dialogs) /\ AskedOnce'
        /\ \A x : Has(x)' <=> x = "note" \/ Has(x)
    BY <2>4, <1>c DEF Dialogs
  <2>6. on \subseteq on' /\ on' \subseteq Buttons /\ (ToolsFailed => "tools" \in on')
    BY <1>3 DEF FolderDone, ToolsFailed, ToolsBack, WindowInv, WindowTypes, Buttons
  <2>7. kind \in {"survey", "startup_list"} => "tools" \in on'
    <3>1. CASE FolderDone
      <4>1. Answered("folder_run")
        BY <3>1, <1>a DEF FolderDone
      <4>2. QED
        BY <4>1, <2>2 DEF Answered
    <3>2. QED
      BY <3>1, <1>3, <2>6
  <2>8. WindowTypes' /\ ButtonsInv'
    BY <2>2, <2>5, <2>6, <2>7, <1>b
  <2>9. UsageInv'
    BY <2>2, <2>3, <2>4, <2>5 DEF WindowInv, UsageInv, Answered, Busy, FolderJobs
  <2>10. QED
    BY <2>8, <2>9 DEF WindowInv
<1>4. CASE StartupToggled
  <2>1. /\ Answered("toggle") /\ on' = on /\ waiting' = waiting /\ header' = header
        /\ open' = open
    BY <1>4, <1>a DEF StartupToggled, results
  <2>2. WindowTypes' /\ ButtonsInv'
    BY <2>1, <1>b DEF WindowInv, WindowTypes, Has
  <2>3. UsageInv'
    BY <2>1 DEF WindowInv, UsageInv, Answered, Busy, FolderJobs, AskedOnce, Has
  <2>4. QED
    BY <2>2, <2>3 DEF WindowInv
<1>5. QED
  BY <1>1, <1>2, <1>3, <1>4

LEMMA SystemAnswered ==
  ASSUME WindowInv,
         SystemRead \/ SettingsPlanned \/ SettingsApplied \/ HistoryReady \/ Restored
         \/ SystemFailed
  PROVE  WindowInv'
<1> USE KindsOfRunners
<1>1. PICK kind \in {"audit", "settings", "settings_plan", "apply", "history", "restore"},
           how \in {"ok", "failed"} : Handles(kind, how)
  BY DEF SystemRead, SettingsPlanned, SettingsApplied, HistoryReady, Restored, SystemFailed
<1>2. /\ on' = on /\ header' = header
      /\ waiting' \in {waiting, waiting \ {"settings"}, waiting \ {"history"},
                       waiting \ {"settings", "history"}}
  BY DEF SystemRead, SettingsPlanned, SettingsApplied, HistoryReady, Restored, SystemFailed,
         results
<1>3. kind \in Jobs /\ RunnerOf(kind) = "system"
  BY DEF Jobs
<1>4. CASE SettingsApplied
  <2> DEFINE left == Without("settings")
  <2>1. /\ left \in Seq(Dialogs)
        /\ \A x : x # "settings" => (Contains(left, x) <=> Has(x))
        /\ \A i, j \in 1..Len(left) :
             left[i] = "confirm_folder" /\ left[j] = "confirm_folder" => i = j
    BY CloseWithin DEF WindowInv, WindowTypes, UsageInv, Has
  <2>2. open' = <<"note">> \o left
    BY <1>4 DEF SettingsApplied
  <2> HIDE DEF left
  <2>3. /\ open' \in Seq(Dialogs) /\ AskedOnce'
        /\ \A x : Has(x)' <=> x = "note" \/ Contains(left, x)
    <3>0. "note" \in Dialogs
      BY DEF Dialogs
    <3>1. /\ open' \in Seq(Dialogs)
          /\ \A x : Contains(open', x) <=> x = "note" \/ Contains(left, x)
          /\ /\ \A i, j \in 1..Len(left) :
                  left[i] = "confirm_folder" /\ left[j] = "confirm_folder" => i = j
             /\ "note" = "confirm_folder" => ~Contains(left, "confirm_folder")
             => \A i, j \in 1..Len(open') :
                  open'[i] = "confirm_folder" /\ open'[j] = "confirm_folder" => i = j
      BY <3>0, <2>1, <2>2, OpenOver
    <3>2. QED
      BY <3>1, <2>1 DEF AskedOnce, Has
  <2>4. \A x \in {"usage", "startup", "confirm_folder", "optimized"} : Has(x)' <=> Has(x)
    BY <2>1, <2>3
  <2>5. QED
    BY <1>1, <1>2, <1>3, <2>3, <2>4, SystemStep
<1>5. CASE ~SettingsApplied
  <2>1. PICK d \in Dialogs \ {"usage", "startup", "confirm_folder", "optimized"} :
          Opening(<<d>>) \/ Opening(<< >>)
    <3>1. CASE SystemRead \/ SettingsPlanned \/ Restored \/ SystemFailed
      BY <3>1 DEF SystemRead, SettingsPlanned, Restored, SystemFailed, Dialogs
    <3>2. CASE HistoryReady
      BY <3>2 DEF HistoryReady, Dialogs
    <3>3. QED
      BY <3>1, <3>2, <1>5
  <2>2. CASE Opening(<<d>>)
    <3>1. /\ open' \in Seq(Dialogs) /\ AskedOnce' /\ \A x : Has(x)' <=> x = d \/ Has(x)
      BY <2>2, OpenOne DEF WindowInv, WindowTypes, UsageInv, Opening, Has
    <3>2. QED
      BY <1>1, <1>2, <1>3, <3>1, SystemStep
  <2>3. CASE Opening(<< >>)
    <3>1. open' = open
      BY <2>3, OpenNone DEF Opening, WindowInv, WindowTypes
    <3>2. open' \in Seq(Dialogs) /\ AskedOnce' /\ \A x : Has(x)' <=> Has(x)
      BY <3>1 DEF WindowInv, WindowTypes, UsageInv, AskedOnce, Has
    <3>3. QED
      BY <1>1, <1>2, <1>3, <3>2, SystemStep
  <2>4. QED
    BY <2>1, <2>2, <2>3
<1>6. QED
  BY <1>4, <1>5

-----------------------------------------------------------------------------
\* What the topmost dialog's closing leaves open.
LEMMA TopClosed ==
  ASSUME WindowInv, open # << >>, open' = Tail(open)
  PROVE  /\ open' \in Seq(Dialogs) /\ AskedOnce'
         /\ \A x : Has(x) <=> x = Head(open) \/ Has(x)'
         /\ Head(open) = "confirm_folder" => ~Has("confirm_folder")'
BY CloseTop DEF WindowInv, WindowTypes, UsageInv, Has

\* A dialog that closes, no tools' one, and starts nothing; or one that starts a job
\* of the system dialogs.
LEMMA PlainClosed ==
  ASSUME WindowInv, open # << >>, open' = Tail(open),
         Head(open) \notin {"usage", "confirm_folder", "optimized"},
         "usage" \in waiting' <=> "usage" \in waiting, on' = on, header' = header,
         \/ job' = job
         \/ \E kind \in Jobs : RunnerOf(kind) = "system" /\ job' = Started(kind)
  PROVE  WindowInv'
<1>1. /\ open' \in Seq(Dialogs) /\ AskedOnce'
      /\ \A x \in {"usage", "confirm_folder", "optimized"} : Has(x) <=> Has(x)'
      /\ \A x : Has(x)' => Has(x)
  BY TopClosed
<1>2. JobTypes' /\ \A r \in Runners : r # "system" => job'[r] = job[r]
  <2>1. JobTypes
    BY DEF WindowInv, WindowTypes, JobTypes
  <2>2. CASE job' = job
    BY <2>1, <2>2 DEF JobTypes, Busy
  <2>3. CASE \E kind \in Jobs : RunnerOf(kind) = "system" /\ job' = Started(kind)
    BY <2>1, <2>3, StartedJobs
  <2>4. QED
    BY <2>2, <2>3
<1>3. WindowTypes'
  BY <1>1, <1>2 DEF WindowInv, WindowTypes, JobTypes
<1>4. ButtonsInv'
  BY <1>1, <1>2 DEF WindowInv, ButtonsInv, Busy, Runners
<1>5. UsageInv'
  BY <1>1, <1>2 DEF WindowInv, UsageInv, Busy, Runners
<1>6. QED
  BY <1>3, <1>4, <1>5 DEF WindowInv

LEMMA ClosedStep ==
  ASSUME WindowInv,
         Dismiss \/ RestoredClosed \/ ConfirmSettings \/ FixProfile
  PROVE  WindowInv'
<1>1. open # << >> /\ open' = Tail(open) /\ on' = on /\ header' = header
  BY DEF Dismiss, RestoredClosed, ConfirmSettings, FixProfile, Top, results
<1>2. Head(open) \notin {"usage", "confirm_folder", "optimized"}
  BY DEF Dismiss, RestoredClosed, ConfirmSettings, FixProfile, Top
<1>3. "usage" \in waiting' <=> "usage" \in waiting
  BY <1>2 DEF Dismiss, RestoredClosed, ConfirmSettings, FixProfile
<1>4. \/ job' = job
      \/ \E kind \in Jobs : RunnerOf(kind) = "system" /\ job' = Started(kind)
  <2>1. \A kind \in {"history", "apply", "settings_plan"} :
          kind \in Jobs /\ RunnerOf(kind) = "system"
    BY KindsOfRunners DEF Jobs
  <2>2. QED
    BY <2>1 DEF Dismiss, RestoredClosed, ConfirmSettings, FixProfile
<1>5. QED
  BY <1>1, <1>2, <1>3, <1>4, PlainClosed

\* The dialogs whose closing changes buttons.
LEMMA AcceptedStep ==
  ASSUME WindowInv,
         ReportClosed \/ AcceptPreview \/ AskMedium \/ AcceptTool
  PROVE  WindowInv'
<1> USE KindsOfRunners
<1>1. open # << >> /\ open' = Tail(open) /\ waiting' = waiting
  BY DEF ReportClosed, AcceptPreview, AskMedium, AcceptTool, Top
<1>2. /\ Head(open) \notin {"usage", "confirm_folder", "startup"}
      /\ Head(open) = "optimized" => ReportClosed
  BY DEF ReportClosed, AcceptPreview, AskMedium, AcceptTool, Top
<1>3. /\ open' \in Seq(Dialogs) /\ AskedOnce'
      /\ \A x \in {"usage", "confirm_folder", "startup"} : Has(x) <=> Has(x)'
      /\ \A x : Has(x)' => Has(x)
      /\ Head(open) # "optimized" => (Has("optimized") <=> Has("optimized")')
  BY <1>1, <1>2, TopClosed
<1>j. JobTypes
  BY DEF WindowInv, WindowTypes, JobTypes
<1>u. ASSUME JobTypes', \A r \in Runners : Busy(r) => job'[r] = job[r],
             job'["tools"] = job["tools"]
      PROVE  UsageInv'
  BY <1>1, <1>3, <1>u DEF WindowInv, UsageInv, Busy
<1>4. CASE ReportClosed
  <2>1. CASE Busy("scan")
    <3>1. job' = job /\ on' = on /\ header' = header
      BY <1>4, <2>1 DEF ReportClosed, ScanBegins, results
    <3>2. WindowTypes' /\ ButtonsInv'
      BY <3>1, <2>1, <1>3 DEF WindowInv, WindowTypes, ButtonsInv, Busy
    <3>3. UsageInv'
      BY <3>1, <1>j, <1>u DEF JobTypes, Busy
    <3>4. QED
      BY <3>2, <3>3 DEF WindowInv
  <2>2. CASE ~Busy("scan")
    <3>1. job' = Started("scan") /\ on' = {}
      BY <1>4, <2>2 DEF ReportClosed, ScanBegins
    <3>2. /\ JobTypes' /\ Busy("scan")' /\ job'["tools"] = job["tools"]
          /\ \A r \in Runners : Busy(r) => job'[r] = job[r]
      BY <1>j, <3>1, StartedJobs DEF Jobs, Runners
    <3>3. WindowTypes' /\ ButtonsInv'
      BY <3>1, <3>2, <1>3 DEF WindowTypes, JobTypes, ButtonsInv
    <3>4. QED
      BY <3>2, <3>3, <1>u DEF WindowInv
  <2>3. QED
    BY <2>1, <2>2
<1>5. CASE AcceptPreview \/ AskMedium
  <2>1. PICK kind \in {"plan", "optimize"} :
          /\ job' = Started(kind) /\ on' = on \ {"optimize", "rescan"} /\ header' = header
    BY <1>5 DEF AcceptPreview, AskMedium, Planning, results
  <2>2. /\ JobTypes' /\ Busy("optimize")'
        /\ \A r \in Runners : Busy(r) => job'[r] = job[r]
        /\ \A r \in Runners : r # "optimize" => job'[r] = job[r]
    BY <1>j, <2>1, StartedJobs DEF Jobs, Runners
  <2>3. WindowTypes'
    BY <2>1, <2>2, <1>3 DEF WindowInv, WindowTypes, JobTypes
  <2>4. ButtonsInv'
    BY <2>1, <2>2, <1>3 DEF WindowInv, ButtonsInv, Busy, Runners
  <2>5. UsageInv'
    BY <2>2, <1>u DEF Runners
  <2>6. QED
    BY <2>3, <2>4, <2>5 DEF WindowInv
<1>6. CASE AcceptTool
  <2>1. PICK kind \in {"clean", "wipe"} :
          /\ job' = Started(kind) /\ on' = on \ {"tools"} /\ header' = header
    BY <1>6 DEF AcceptTool, results
  <2>2. /\ JobTypes' /\ Busy(RunnerOf(kind))'
        /\ \A r \in Runners : Busy(r) => job'[r] = job[r]
        /\ \A r \in Runners : r # RunnerOf(kind) => job'[r] = job[r]
    BY <1>j, <2>1, StartedJobs DEF Jobs, Runners
  <2>3. WindowTypes'
    BY <2>1, <2>2, <1>3 DEF WindowInv, WindowTypes, JobTypes
  <2>4. ~(Head(open) = "optimized")
    BY <1>6 DEF AcceptTool, Top
  <2>5. ButtonsInv'
    BY <2>1, <2>2, <2>4, <1>3 DEF WindowInv, ButtonsInv, Busy, Runners
  <2>6. UsageInv'
    BY <2>1, <2>2, <1>u DEF Runners
  <2>7. QED
    BY <2>3, <2>5, <2>6 DEF WindowInv
<1>7. QED
  BY <1>4, <1>5, <1>6

\* A job a dialog starts over itself, no button with it.
LEMMA AskedStep ==
  ASSUME WindowInv, AskSettings \/ AskRestore \/ Toggle PROVE WindowInv'
<1> USE KindsOfRunners
<1>1. open' = open /\ on' = on /\ header' = header
      /\ ("usage" \in waiting' <=> "usage" \in waiting)
  BY DEF AskSettings, AskRestore, Toggle, results
<1>2. PICK kind \in {"settings_plan", "restore", "toggle"} :
        job' = Started(kind) /\ (kind = "toggle" => Top("startup"))
  BY DEF AskSettings, AskRestore, Toggle
<1>3. /\ JobTypes'
      /\ \A r \in Runners : Busy(r) => job'[r] = job[r]
      /\ \A r \in Runners : r # RunnerOf(kind) => job'[r] = job[r]
      /\ ~Busy(RunnerOf(kind)) => job'[RunnerOf(kind)] = kind
  BY <1>2, StartedJobs DEF WindowInv, WindowTypes, JobTypes, Jobs
<1>4. kind = "toggle" => Has("startup")
  <2>1. ASSUME kind = "toggle" PROVE Has("startup")
    <3>1. open # << >> /\ Head(open) = "startup" /\ open \in Seq(Dialogs)
      BY <2>1, <1>2 DEF Top, WindowInv, WindowTypes
    <3>2. 1 \in 1..Len(open) /\ open[1] = "startup"
      BY <3>1, HeadTailProperties, EmptySeq
    <3>3. QED
      BY <3>2 DEF Has, Contains
  <2>2. QED
    BY <2>1
<1>5. WindowTypes'
  BY <1>1, <1>3 DEF WindowInv, WindowTypes, JobTypes
<1>6. ButtonsInv'
  BY <1>1, <1>2, <1>3 DEF WindowInv, ButtonsInv, Busy, Runners, Has
<1>7. UsageInv'
  BY <1>1, <1>2, <1>3, <1>4
     DEF WindowInv, UsageInv, AskedOnce, Busy, Runners, Has, FolderJobs
<1>8. QED
  BY <1>5, <1>6, <1>7 DEF WindowInv

LEMMA UsageStep ==
  ASSUME WindowInv, AskFolder \/ ConfirmFolder \/ CloseUsage PROVE WindowInv'
<1> USE KindsOfRunners
<1>0. JobTypes /\ open \in Seq(Dialogs)
  BY DEF WindowInv, WindowTypes, JobTypes
<1>1. CASE AskFolder
  <2>1. Has("usage") /\ "usage" \notin waiting /\ on' = on /\ header' = header
    <3>1. open # << >> /\ Head(open) = "usage"
      BY <1>1 DEF AskFolder, Top
    <3>2. 1 \in 1..Len(open) /\ open[1] = "usage"
      BY <3>1, <1>0, HeadTailProperties, EmptySeq
    <3>3. QED
      BY <3>2, <1>1 DEF Has, Contains, AskFolder, results
  <2>2. CASE Busy("tools")
    <3>1. Opening(<<"note">>) /\ job' = job /\ waiting' = waiting
      BY <1>1, <2>2 DEF AskFolder
    <3>2. /\ open' \in Seq(Dialogs) /\ AskedOnce'
          /\ \A x : Has(x)' <=> x = "note" \/ Has(x)
      BY <3>1, OpenOne DEF WindowInv, WindowTypes, UsageInv, Opening, Has, Dialogs
    <3>3. WindowTypes' /\ ButtonsInv'
      BY <2>1, <3>1, <3>2 DEF WindowInv, WindowTypes, ButtonsInv, Busy
    <3>4. UsageInv'
      BY <2>1, <3>1, <3>2 DEF WindowInv, UsageInv, Busy
    <3>5. QED
      BY <3>3, <3>4 DEF WindowInv
  <2>3. CASE ~Busy("tools")
    <3>1. job' = Started("folder_plan") /\ waiting' = waiting \cup {"usage"} /\ open' = open
      BY <1>1, <2>3 DEF AskFolder
    <3>2. /\ JobTypes' /\ job'["tools"] = "folder_plan"
          /\ \A r \in Runners : r # "tools" => job'[r] = job[r]
      BY <1>0, <2>3, <3>1, StartedJobs DEF Jobs, Runners
    <3>3. ~Has("confirm_folder")
      BY <2>1 DEF WindowInv, UsageInv
    <3>4. WindowTypes'
      BY <2>1, <3>1, <3>2 DEF WindowInv, WindowTypes, JobTypes
    <3>5. ButtonsInv'
      BY <2>1, <2>3, <3>1, <3>2 DEF WindowInv, ButtonsInv, Busy, Runners, Has
    <3>6. UsageInv'
      BY <2>1, <3>1, <3>2, <3>3 DEF WindowInv, UsageInv, AskedOnce, Busy, Has, FolderJobs
    <3>7. QED
      BY <3>4, <3>5, <3>6 DEF WindowInv
  <2>4. QED
    BY <2>2, <2>3
<1>2. CASE ConfirmFolder
  <2>1. /\ open # << >> /\ Head(open) = "confirm_folder" /\ open' = Tail(open)
        /\ on' = on /\ header' = header
    BY <1>2 DEF ConfirmFolder, Top, results
  <2>2. /\ open' \in Seq(Dialogs) /\ AskedOnce' /\ ~Has("confirm_folder")'
        /\ \A x : Has(x) <=> x = "confirm_folder" \/ Has(x)'
    BY <2>1, TopClosed
  <2>3. "usage" \in waiting /\ ~Busy("tools") /\ Has("usage")
    BY <2>2 DEF WindowInv, UsageInv
  <2>4. CASE job' = Started("folder_run") /\ waiting' = waiting \cup {"usage"}
    <3>1. /\ JobTypes' /\ job'["tools"] = "folder_run"
          /\ \A r \in Runners : r # "tools" => job'[r] = job[r]
      BY <1>0, <2>3, <2>4, StartedJobs DEF Jobs, Runners
    <3>2. WindowTypes'
      BY <2>1, <2>2, <3>1 DEF WindowInv, WindowTypes, JobTypes
    <3>3. ButtonsInv'
      BY <2>1, <2>2, <2>3, <3>1 DEF WindowInv, ButtonsInv, Busy, Runners
    <3>4. UsageInv'
      BY <2>2, <2>3, <2>4, <3>1 DEF WindowInv, UsageInv, Busy, FolderJobs
    <3>5. QED
      BY <3>2, <3>3, <3>4 DEF WindowInv
  <2>5. CASE waiting' = waiting \ {"usage"} /\ job' = job
    <3>1. WindowTypes' /\ ButtonsInv'
      BY <2>1, <2>2, <2>5 DEF WindowInv, WindowTypes, ButtonsInv, Busy
    <3>2. UsageInv'
      BY <2>2, <2>3, <2>5 DEF WindowInv, UsageInv, Busy, FolderJobs
    <3>3. QED
      BY <3>1, <3>2 DEF WindowInv
  <2>6. QED
    BY <1>2, <2>4, <2>5 DEF ConfirmFolder
<1>3. CASE CloseUsage
  <2>1. /\ open # << >> /\ Head(open) = "usage" /\ open' = Tail(open)
        /\ "usage" \notin waiting /\ waiting' = waiting /\ job' = job
        /\ on' = on /\ header' = header
    BY <1>3 DEF CloseUsage, Top, results
  <2>2. /\ open' \in Seq(Dialogs) /\ AskedOnce'
        /\ \A x : Has(x) <=> x = "usage" \/ Has(x)'
    BY <2>1, TopClosed
  <2>3. WindowTypes' /\ ButtonsInv'
    BY <2>1, <2>2 DEF WindowInv, WindowTypes, ButtonsInv, Busy
  <2>4. UsageInv'
    BY <2>1, <2>2 DEF WindowInv, UsageInv, Busy
  <2>5. QED
    BY <2>3, <2>4 DEF WindowInv
<1>4. QED
  BY <1>1, <1>2, <1>3

LEMMA WindowStep == WindowInv /\ [WindowNext]_windowVars => WindowInv'
<1> SUFFICES ASSUME WindowInv, [WindowNext]_windowVars PROVE WindowInv'
  OBVIOUS
<1>1. CASE AskRescan \/ AskOptimize \/ (\E kind \in FirstJobs : Tool(kind))
  BY <1>1, ButtonStep
<1>2. CASE ScanReads \/ (\E r \in Runners : Ends(r))
  BY <1>2, WorkerStep
<1>3. CASE ScanCompleted \/ ScanFailed
  BY <1>3, ScanAnswered
<1>4. CASE PreviewReady \/ OptimizeFinished \/ OptimizeFailed
  BY <1>4, OptimizeAnswered
<1>5. CASE CleanupPlanned \/ CleanupFinished \/ SteamPlanned \/ SteamWiped
           \/ CleanupOrSteamFailed \/ ProfileAnswered
  BY <1>5, CleanupAnswered
<1>6. CASE ToolListed \/ FolderPlanned \/ FolderDone \/ StartupToggled \/ ToolsFailed
  BY <1>6, ToolsAnswered
<1>7. CASE SystemRead \/ SettingsPlanned \/ SettingsApplied \/ HistoryReady \/ Restored
           \/ SystemFailed
  BY <1>7, SystemAnswered
<1>8. CASE Dismiss \/ RestoredClosed \/ ConfirmSettings \/ FixProfile
  BY <1>8, ClosedStep
<1>9. CASE ReportClosed \/ AcceptPreview \/ AskMedium \/ AcceptTool
  BY <1>9, AcceptedStep
<1>10. CASE AskSettings \/ AskRestore \/ Toggle
  BY <1>10, AskedStep
<1>11. CASE AskFolder \/ ConfirmFolder \/ CloseUsage
  BY <1>11, UsageStep
<1>12. CASE UNCHANGED windowVars
  BY <1>12
     DEF windowVars, WindowInv, WindowTypes, ButtonsInv, UsageInv, AskedOnce, Has, Busy
<1>13. QED
  BY <1>1, <1>2, <1>3, <1>4, <1>5, <1>6, <1>7, <1>8, <1>9, <1>10, <1>11, <1>12
     DEF WindowNext, Handled

LEMMA NobodyWaitsForNothing == WindowInv => NobodyStranded
<1> SUFFICES ASSUME WindowInv PROVE NobodyStranded
  OBVIOUS
<1>1. ASSUME AtRest PROVE /\ "rescan" \in on /\ (header # "failed" => on = Buttons)
  <2>1. \A x : ~Has(x)
    BY <1>1 DEF AtRest, Has, Contains
  <2>2. \A r \in Runners : ~Busy(r)
    BY <1>1 DEF AtRest
  <2>3. job["tools"] \notin {"survey", "startup_list"}
    BY <2>2 DEF Busy, Runners
  <2>4. QED
    BY <2>1, <2>2, <2>3 DEF WindowInv, WindowTypes, ButtonsInv, Buttons, Runners
<1>2. QED
  BY <1>1 DEF NobodyStranded, WindowInv, UsageInv, FolderJobs, Has

\* Handlers of the main window: whatever the operator starts, however its jobs end, and
\* in whatever order their completions arrive while dialogs are open over each other,
\* at rest the operator can scan again and, unless the last scan failed, use every
\* button; and the usage dialog never waits for an answer that will not come.
THEOREM NobodyEverStranded == WindowSpec => []NobodyStranded
<1>1. WindowInit => WindowInv
  BY WindowStart
<1>2. WindowInv /\ [WindowNext]_windowVars => WindowInv'
  BY WindowStep
<1>3. WindowInv => NobodyStranded
  BY NobodyWaitsForNothing
<1>4. QED
  BY <1>1, <1>2, <1>3, PTL DEF WindowSpec

-----------------------------------------------------------------------------
(* A plan from its offer to its report.                                     *)

PlanChanges == [tweak : Tweaks, apply : BOOLEAN, blocked : BOOLEAN]

PlanTypes ==
  /\ plan \in Seq(PlanChanges) /\ done \in Nat /\ elevated \in BOOLEAN
  /\ source \in {"optimize", "settings"}
  /\ source = "settings" => touched \subseteq Tweaks

\* What passed the gate may be applied by this program.
PlanGated ==
  \A i \in DOMAIN plan : plan[i].apply =>
    Risk[plan[i].tweak] # "CRITICAL" /\ (AutoApplicable(plan[i].tweak) \/ elevated)

ByHand(t) == AutoApplicable(t) \/ t \in touched \/ level = "HARD"

\* A ticked row is of a class ticked for the operator, or was ticked by hand; in the
\* settings dialog every row was.  Nothing else is left to be applied.
PlanConsented ==
  /\ source = "settings" => \A i \in DOMAIN plan : plan[i].tweak \in touched
  /\ place = "shown" /\ source = "optimize" => \A r \in ticked : ByHand(RowTweak(r))
  /\ place = "applying" => \A i \in DOMAIN plan : plan[i].apply =>
       plan[i].tweak \in agreed /\ ByHand(plan[i].tweak)

PlanInv == PlanTypes /\ PlanGated /\ PlanConsented

LEMMA PlanStart == PlannedRunAssumption /\ RunInit => PlanInv
<1> SUFFICES ASSUME PlannedRunAssumption, RunInit PROVE PlanInv
  OBVIOUS
<1>1. plan = << >> /\ plan \in Seq(PlanChanges) /\ DOMAIN plan = {}
  BY DEF RunInit
<1>2. QED
  BY <1>1 DEF PlannedRunAssumption, RunInit, PlanInv, PlanTypes, PlanGated, PlanConsented

\* A plan is made of the list that is to be planned.
LEMMA PlanMade ==
  ASSUME PlanInv, NEW wanted, wanted \subseteq Tweaks, NEW order, order \in Seq(Tweaks),
         NEW list, list \in InOrder(wanted, order), NEW admitted, admitted \in BOOLEAN,
         Planned(list, admitted), elevated' = elevated
  PROVE  /\ plan' \in Seq(PlanChanges) /\ PlanGated'
         /\ \A i \in DOMAIN plan' : plan'[i].tweak \in wanted
<1>1. PICK n \in Nat : list \in [1..n -> wanted]
  BY LenProperties DEF InOrder, BoundedSeq, SeqOf
<1>2. PICK faulty \in Tweaks \cup {"none"} :
        plan' = [i \in DOMAIN list |-> Gate(list[i], list[i] = faulty, admitted)]
  BY DEF Planned
<1>3. \A i \in 1..n : list[i] \in wanted /\ list[i] \in Tweaks
  BY <1>1
<1>4. ASSUME NEW t \in Tweaks, NEW refused \in BOOLEAN
      PROVE  /\ Gate(t, refused, admitted) \in PlanChanges
             /\ Gate(t, refused, admitted).tweak = t
             /\ Gate(t, refused, admitted).apply =>
                  Risk[t] # "CRITICAL" /\ (AutoApplicable(t) \/ elevated)
  <2> DEFINE may == t \in needs /\ ~refused
                     /\ (elevated \/ (AutoApplicable(t) /\ t \notin NeedsAdmin))
             held == may /\ ~AutoApplicable(t) /\ ~admitted
             applies == may /\ ~held /\ Risk[t] # "CRITICAL"
  <2>1. Gate(t, refused, admitted) = [tweak |-> t, blocked |-> held, apply |-> applies]
    BY DEF Gate
  <2>2. held \in BOOLEAN /\ applies \in BOOLEAN
    BY DEF AutoApplicable
  <2>3. applies => Risk[t] # "CRITICAL" /\ (AutoApplicable(t) \/ elevated)
    OBVIOUS
  <2> HIDE DEF may, held, applies
  <2>4. QED
    BY <2>1, <2>2, <2>3 DEF PlanChanges
<1>5. /\ plan' \in [1..n -> PlanChanges] /\ DOMAIN plan' = 1..n
      /\ \A i \in 1..n : plan'[i].tweak = list[i]
      /\ \A i \in 1..n : plan'[i].apply =>
           Risk[list[i]] # "CRITICAL" /\ (AutoApplicable(list[i]) \/ elevated)
  <2>1. DOMAIN list = 1..n
    BY <1>1
  <2>2. \A i \in 1..n : (list[i] = faulty) \in BOOLEAN
    OBVIOUS
  <2>3. \A i \in 1..n :
          /\ Gate(list[i], list[i] = faulty, admitted) \in PlanChanges
          /\ Gate(list[i], list[i] = faulty, admitted).tweak = list[i]
          /\ Gate(list[i], list[i] = faulty, admitted).apply =>
               Risk[list[i]] # "CRITICAL" /\ (AutoApplicable(list[i]) \/ elevated)
    BY <2>2, <1>3, <1>4
  <2>4. \A i \in 1..n : plan'[i] = Gate(list[i], list[i] = faulty, admitted)
    BY <2>1, <1>2
  <2>5. QED
    BY <2>1, <2>3, <2>4, <1>2
<1>6. PlanGated'
  BY <1>5 DEF PlanGated, AutoApplicable
<1>7. QED
  BY <1>3, <1>5, <1>6

LEMMA PlanStep == PlannedRunAssumption /\ PlanInv /\ [RunNext]_runVars => PlanInv'
<1> SUFFICES ASSUME PlannedRunAssumption, PlanInv, [RunNext]_runVars PROVE PlanInv'
  OBVIOUS
<1>0. elevated' = elevated
  BY DEF RunNext, runVars
<1>e. << >> \in Seq(PlanChanges) /\ DOMAIN << >> = {}
  OBVIOUS
<1>1. CASE Optimize \/ ChooseSettings \/ ShowMedium
  <2>1. plan' = << >> /\ place' = "planning" /\ done' = done
    BY <1>1 DEF Optimize, ChooseSettings, ShowMedium, Plans, report
  <2>2. /\ source' \in {"optimize", "settings"}
        /\ source' = "settings" => touched' \subseteq Tweaks
    BY <1>1 DEF Optimize, ChooseSettings, ShowMedium, Plans, Tweaks
  <2>3. QED
    BY <1>0, <2>1, <2>2, <1>e DEF PlanInv, PlanTypes, PlanGated, PlanConsented
<1>2. CASE PlanReady
  <2>1. /\ place = "planning" /\ place' = "shown" /\ done' = done /\ touched' = touched
        /\ source' = source /\ level' = level
    BY <1>2 DEF PlanReady, report
  <2>2. /\ plan' \in Seq(PlanChanges) /\ PlanGated'
        /\ source = "settings" => \A i \in DOMAIN plan' : plan'[i].tweak \in touched
    <3>1. CASE source = "optimize"
      <4>1. PICK list \in InOrder(BuiltTweaks, Order) : Planned(list, AdmittedAt(level))
        BY <1>2, <3>1 DEF PlanReady
      <4>2. BuiltTweaks \subseteq Tweaks /\ AdmittedAt(level) \in BOOLEAN
        BY DEF BuiltTweaks, Tweaks, AdmittedAt
      <4>3. Order \in Seq(Tweaks)
        BY DEF PlannedRunAssumption
      <4>4. QED
        BY <1>0, <3>1, <4>1, <4>2, <4>3, PlanMade
    <3>2. CASE source # "optimize"
      <4>1. PICK list \in InOrder(touched, Offered) : Planned(list, TRUE)
        BY <1>2, <3>2 DEF PlanReady
      <4>2. touched \subseteq Tweaks /\ Offered \in Seq(Tweaks)
        BY <3>2 DEF PlanInv, PlanTypes, PlannedRunAssumption
      <4>3. QED
        BY <1>0, <4>1, <4>2, PlanMade
    <3>3. QED
      BY <3>1, <3>2
  <2>3. \A r \in ticked' : source = "optimize" =>
          AutoApplicable(plan'[RowsOf(plan')[r]].tweak) \/ level = "HARD"
    BY <1>2 DEF PlanReady
  <2>4. PlanTypes'
    BY <1>0, <2>1, <2>2 DEF PlanInv, PlanTypes
  <2>5. PlanConsented'
    BY <2>1, <2>2, <2>3 DEF PlanConsented, ByHand, RowTweak, RowIndex, AutoApplicable
  <2>6. QED
    BY <2>2, <2>4, <2>5 DEF PlanInv
<1>3. ASSUME NEW r, Tick(r) PROVE PlanInv'
  <2>1. /\ UNCHANGED <<place, source, level, plan, agreed, done>> /\ place = "shown"
        /\ source = "optimize" /\ touched \subseteq touched'
    BY <1>3 DEF Tick, report
  <2>2. CASE r \in ticked
    <3>1. ticked' = ticked \ {r} /\ touched' = touched
      BY <1>3, <2>2 DEF Tick
    <3>2. QED
      BY <1>0, <2>1, <3>1
         DEF PlanInv, PlanTypes, PlanGated, PlanConsented, ByHand, RowTweak, RowIndex
  <2>3. CASE r \notin ticked
    <3>1. ticked' = ticked \cup {r} /\ touched' = touched \cup {RowTweak(r)}
      BY <1>3, <2>3 DEF Tick
    <3>2. QED
      BY <1>0, <2>1, <3>1
         DEF PlanInv, PlanTypes, PlanGated, PlanConsented, ByHand, RowTweak, RowIndex
  <2>4. QED
    BY <2>2, <2>3
<1>4. CASE Accept
  <2>1. /\ place = "shown" /\ place' = "applying" /\ UNCHANGED <<source, level, touched, done>>
        /\ plan' = WithSelection(SelectedIndices(ticked))
        /\ agreed' = {RowTweak(r) : r \in ticked}
    BY <1>4 DEF Accept
  <2>2. /\ plan' \in Seq(PlanChanges) /\ DOMAIN plan' = DOMAIN plan
        /\ \A i \in DOMAIN plan :
             /\ plan'[i].tweak = plan[i].tweak
             /\ plan'[i].apply => plan[i].apply /\ i \in SelectedIndices(ticked)
    <3> DEFINE Kept(i) == ~plan[i].apply \/ i \in SelectedIndices(ticked)
    <3>1. plan \in [1..Len(plan) -> PlanChanges] /\ DOMAIN plan = 1..Len(plan) /\ Len(plan) \in Nat
      BY LenProperties DEF PlanInv, PlanTypes
    <3>2. \A i \in DOMAIN plan :
            plan'[i] = IF Kept(i) THEN plan[i] ELSE [plan[i] EXCEPT !.apply = FALSE]
      BY <2>1 DEF WithSelection
    <3>3. DOMAIN plan' = DOMAIN plan /\ plan' = [i \in DOMAIN plan |-> plan'[i]]
      BY <2>1 DEF WithSelection
    <3> HIDE DEF Kept
    <3>4. \A i \in DOMAIN plan : plan'[i] \in PlanChanges
      BY <3>1, <3>2 DEF PlanChanges
    <3>5. plan' \in [1..Len(plan) -> PlanChanges]
      BY <3>1, <3>3, <3>4
    <3>6. \A i \in DOMAIN plan :
             /\ plan'[i].tweak = plan[i].tweak
             /\ plan'[i].apply => plan[i].apply /\ i \in SelectedIndices(ticked)
      BY <3>1, <3>2 DEF PlanChanges, Kept
    <3>7. QED
      BY <3>1, <3>3, <3>5, <3>6
  <2>3. \A i \in DOMAIN plan' : plan'[i].apply =>
          plan'[i].tweak \in agreed' /\ ByHand(plan[i].tweak)
    <3>1. ASSUME NEW i \in DOMAIN plan', plan'[i].apply
          PROVE  plan'[i].tweak \in agreed' /\ ByHand(plan[i].tweak)
      <4>1. PICK r \in ticked : i = RowIndex[r]
        BY <3>1, <2>2 DEF SelectedIndices
      <4>2. plan'[i].tweak = RowTweak(r) /\ plan[i].tweak = RowTweak(r)
        BY <3>1, <2>2, <4>1 DEF RowTweak
      <4>3. CASE source = "optimize"
        BY <2>1, <4>1, <4>2, <4>3 DEF PlanInv, PlanConsented
      <4>4. CASE source = "settings"
        BY <2>1, <2>2, <3>1, <4>1, <4>2, <4>4 DEF PlanInv, PlanConsented, ByHand
      <4>5. QED
        BY <4>3, <4>4 DEF PlanInv, PlanTypes
    <3>2. QED
      BY <3>1
  <2>4. QED
    BY <1>0, <2>1, <2>2, <2>3
       DEF PlanInv, PlanTypes, PlanGated, PlanConsented, ByHand, AutoApplicable
<1>5. CASE Cancel \/ CloseReport
  <2>1. /\ plan' = << >> /\ place' = "idle" /\ done' = 0 /\ touched' = {}
        /\ source' = "optimize"
    BY <1>5 DEF Cancel, CloseReport, Closed
  <2>2. QED
    BY <1>0, <2>1, <1>e DEF PlanInv, PlanTypes, PlanGated, PlanConsented
<1>6. CASE LeaveChange \/ ExecuteChange
  <2>1. UNCHANGED <<place, plan, source, level, ticked, touched, agreed>> /\ done' = done + 1
    BY <1>6 DEF LeaveChange, ExecuteChange, Reports, dialog
  <2>2. QED
    BY <1>0, <2>1
       DEF PlanInv, PlanTypes, PlanGated, PlanConsented, ByHand, RowTweak, RowIndex
<1>7. CASE SetLevel \/ RunEnds \/ Measure \/ OtherDrifts \/ UNCHANGED runVars
  <2>1. UNCHANGED <<plan, source, level, ticked, touched, agreed, done>>
    BY <1>7 DEF SetLevel, RunEnds, Measure, OtherDrifts, runVars, dialog, report
  <2>2. place' = place \/ place' \in {"measuring", "reported"}
    BY <1>7 DEF SetLevel, RunEnds, Measure, OtherDrifts, runVars
  <2>3. QED
    BY <1>0, <2>1, <2>2
       DEF PlanInv, PlanTypes, PlanGated, PlanConsented, ByHand, RowTweak, RowIndex
<1>8. QED
  BY <1>1, <1>2, <1>3, <1>4, <1>5, <1>6, <1>7 DEF RunNext, RunStep

LEMMA PlanCarriesOut ==
  PlannedRunAssumption /\ PlanInv /\ [RunNext]_runVars => [Consented]_runVars
<1> SUFFICES ASSUME PlanInv, RunNext, place = "applying", done' # done, outcome' # "left"
             PROVE  Consented
  BY DEF Consented
<1>1. ExecuteChange
  <2>1. ~(Optimize \/ ChooseSettings \/ ShowMedium \/ PlanReady \/ Accept \/ Cancel
          \/ CloseReport \/ SetLevel \/ RunEnds \/ Measure \/ OtherDrifts \/ LeaveChange)
    BY DEF Optimize, ChooseSettings, ShowMedium, PlanReady, Accept, Cancel, CloseReport,
           SetLevel, RunEnds, Measure, OtherDrifts, LeaveChange, Reports, report
  <2>2. \A r : ~Tick(r)
    BY DEF Tick
  <2>3. QED
    BY <2>1, <2>2 DEF RunNext, RunStep
<1>2. done + 1 \in DOMAIN plan /\ Current.apply
  <2>1. Len(plan) \in Nat /\ DOMAIN plan = 1..Len(plan) /\ done \in Nat
    BY LenProperties DEF PlanInv, PlanTypes
  <2>2. QED
    BY <1>1, <2>1 DEF ExecuteChange, Applying
<1>3. QED
  BY <1>2 DEF Consented, Current, PlanInv, PlanGated, PlanConsented, ByHand

\* OptimizationPipeline and SettingsService: whatever is offered, ticked, unticked and
\* planned again at another level, a change that is carried out was a ticked row of the
\* accepted dialog, is never of the class that is never applied, and above the low risks
\* is carried out only elevated, and ticked by hand or at the level that ticks all.
THEOREM OnlyConsentedAlways == PlannedRunAssumption /\ RunSpec => OnlyConsented
<1>1. PlannedRunAssumption /\ RunInit => PlanInv
  BY PlanStart
<1>2. PlannedRunAssumption /\ PlanInv /\ [RunNext]_runVars => PlanInv'
  BY PlanStep
<1>3. PlannedRunAssumption /\ PlanInv /\ [RunNext]_runVars => [Consented]_runVars
  BY PlanCarriesOut
<1>4. PlannedRunAssumption => PlannedRunAssumption'
  OBVIOUS
<1>5. QED
  BY <1>1, <1>2, <1>3, <1>4, PTL DEF RunSpec, OnlyConsented

-----------------------------------------------------------------------------
(* Scan.                                                                    *)

Machines == [hardware : Drives, load : Loads, link : Links]
Inventories == Drives \cup {Unknown}

NetworkSet ==
  [routing : Links \cup {"unread", "way unread", "unreadable"},
   router : {"none", "marked", "direct", "tunnel"}]

ScanTypes ==
  /\ machine \in Machines
  /\ stage \in [Scanners -> {"idle", "begun", "fetched", "read", "measured"}]
  /\ quick \in [Scanners -> BOOLEAN]
  /\ network \subseteq NetworkSet /\ carried \in [Scanners -> SUBSET NetworkSet]
  /\ cache \subseteq Inventories /\ cim \in [Scanners -> SUBSET Inventories]
  /\ load \in [Scanners -> Loads \cup {Unknown}]
  /\ warned \in [Scanners -> SUBSET {"inventory", "probe"}]
  /\ during \in [Scanners -> SUBSET Machines]
  /\ routing \in Links \cup {"unread", "way unread", "unreadable"}
  /\ router \in {"none", "marked", "direct", "tunnel"}

\* The states of the machine a scanner has been through so far.
Past(w, what) == {m[what] : m \in during[w]}

\* What a scanner holds, at each stage, was found while it was at work, or is unknown.
FoundNow(w) ==
  stage[w] # "idle" =>
    /\ machine \in during[w] /\ IsFiniteSet(Past(w, "link"))
    /\ stage[w] # "begun" =>
         /\ cim[w] = {} => "inventory" \in warned[w]
         /\ quick[w] \/ cim[w] \subseteq Past(w, "hardware") \cup {Unknown}
    /\ stage[w] = "measured" => load[w] \in Past(w, "load") \cup {Unknown}

\* The window carries the reading it last showed; what it reads itself is a link it met.
NetworkNow ==
  /\ network = UNION {s.network : s \in shown}
  /\ stage["window"] # "idle" =>
       /\ carried["window"] = network
       /\ quick["window"] => network # {}
       /\ IF routing = "way unread" THEN Past("window", "link") \cap {"direct", "tunnel"} # {}
          ELSE routing \in Past("window", "link") \cup {"unread", "unreadable"}
       /\ router = "tunnel" =>
            routing = "way unread" \/ {"direct", "tunnel"} \subseteq Past("window", "link")

ScanInv ==
  /\ ScanTypes /\ (\A w \in Scanners : FoundNow(w)) /\ NetworkNow
  /\ InventoryHonest /\ NetworkHonest

\* Nothing is shown before a scan.
LEMMA ScanStart == ScanInit => ScanInv
<1> SUFFICES ASSUME ScanInit PROVE ScanInv
  OBVIOUS
<1>1. ScanTypes
  BY DEF ScanInit, ScanTypes, Machines
<1>2. shown = {} /\ network = {} /\ \A w \in Scanners : stage[w] = "idle"
  BY DEF ScanInit
<1>3. "window" \in Scanners
  BY DEF Scanners
<1>4. QED
  BY <1>1, <1>2, <1>3 DEF ScanInv, FoundNow, NetworkNow, InventoryHonest, NetworkHonest

\* A scanner that begins has seen the machine as it is, and holds nothing.
LEMMA BeginStep ==
  ASSUME ScanInv, NEW w \in Scanners, NEW refresh \in BOOLEAN, BeginScan(w, refresh),
         w = "window" => routing' = "unread" /\ router' = "none" /\ (refresh => network # {}),
         w # "window" => UNCHANGED pings
  PROVE  ScanInv'
<1> USE DEF ScanInv
<1>1. ScanTypes'
  BY DEF ScanTypes, BeginScan, pings, Scanners, Unknown
<1>2. \A v \in Scanners : FoundNow(v)'
  <2>1. FoundNow(w)'
    <3>1. stage'[w] = "begun" /\ during'[w] = {machine} /\ machine' = machine
      BY DEF ScanTypes, BeginScan
    <3>2. {m["link"] : m \in during'[w]} = {machine.link}
      BY <3>1
    <3>3. IsFiniteSet({m["link"] : m \in during'[w]})
      BY <3>2, FS_Singleton
    <3>4. QED
      BY <3>1, <3>3 DEF FoundNow, Past
  <2>2. ASSUME NEW v \in Scanners, v # w PROVE FoundNow(v)'
    <3>1. /\ stage'[v] = stage[v] /\ during'[v] = during[v] /\ cim'[v] = cim[v]
          /\ warned'[v] = warned[v] /\ quick'[v] = quick[v] /\ load'[v] = load[v]
          /\ machine' = machine
      BY <2>2 DEF ScanTypes, BeginScan
    <3>2. QED
      BY <3>1 DEF FoundNow, Past
  <2>3. QED
    BY <2>1, <2>2
<1>3. NetworkNow'
  <2>1. network' = network /\ shown' = shown
    BY DEF BeginScan
  <2>2. CASE w = "window"
    BY <2>1, <2>2 DEF BeginScan, NetworkNow, ScanTypes
  <2>3. CASE w # "window"
    <3>1. /\ stage'["window"] = stage["window"] /\ carried'["window"] = carried["window"]
          /\ quick'["window"] = quick["window"] /\ during'["window"] = during["window"]
          /\ UNCHANGED <<routing, router>>
      BY <2>3 DEF BeginScan, ScanTypes, Scanners, pings
    <3>2. QED
      BY <2>1, <3>1 DEF NetworkNow, Past
  <2>4. QED
    BY <2>2, <2>3
<1>4. InventoryHonest' /\ NetworkHonest'
  BY DEF BeginScan, InventoryHonest, NetworkHonest, Seen
<1>5. QED
  BY <1>1, <1>2, <1>3, <1>4

\* A step of one scanner with its inventory and probes; the machine, the network and
\* what is shown stay.
LEMMA OwnStep ==
  ASSUME ScanInv, NEW w \in Scanners, stage[w] # "idle", stage'[w] # "idle",
         UNCHANGED <<machine, network, quick, carried, during, shown, pings>>,
         ScanTypes', FoundNow(w)',
         \A v \in Scanners \ {w} :
           /\ stage'[v] = stage[v] /\ cim'[v] = cim[v]
           /\ load'[v] = load[v] /\ warned'[v] = warned[v]
  PROVE  ScanInv'
<1> USE DEF ScanInv
<1>1. \A v \in Scanners : FoundNow(v)'
  BY DEF FoundNow, Past
<1>2. NetworkNow'
  BY DEF NetworkNow, Past, pings, Scanners
<1>3. InventoryHonest' /\ NetworkHonest'
  BY DEF InventoryHonest, NetworkHonest, Seen
<1>4. QED
  BY <1>1, <1>2, <1>3

\* Only a refresh takes the inventory from the cache.
LEMMA ReuseStep ==
  ASSUME ScanInv, NEW w \in Scanners, Reuse(w) PROVE ScanInv'
<1>1. ScanTypes /\ FoundNow(w)
  BY DEF ScanInv
<1>2. ScanTypes' /\ stage[w] # "idle" /\ stage'[w] = "read" /\ cim'[w] = cache
  BY <1>1 DEF Reuse, ScanTypes, pings
<1>3. FoundNow(w)'
  BY <1>1, <1>2 DEF Reuse, Reusable, FoundNow, Past
<1>4. QED
  BY <1>1, <1>2, <1>3, OwnStep DEF Reuse, ScanTypes

\* A full scan has what the machine is now, or a warning.
LEMMA FetchStep ==
  ASSUME ScanInv, NEW w \in Scanners, Fetch(w) PROVE ScanInv'
<1>1. ScanTypes /\ FoundNow(w)
  BY DEF ScanInv
<1>2. PICK got \in {{}, {Unknown}, {machine.hardware}} :
        /\ cim' = [cim EXCEPT ![w] = got]
        /\ warned' = IF got = {} THEN [warned EXCEPT ![w] = {"inventory"}] ELSE warned
  <2>1. PICK inProcess \in BOOLEAN, exit \in Ended, answer \in Answers :
          LET found == Fetched(inProcess, exit, answer) IN
          /\ cim' = [cim EXCEPT ![w] = found]
          /\ warned' = IF found = {} THEN [warned EXCEPT ![w] = {"inventory"}] ELSE warned
    BY DEF Fetch
  <2>2. Fetched(inProcess, exit, answer) \in {{}, {Unknown}, {machine.hardware}}
    BY DEF Fetched
  <2>3. QED
    BY <2>1, <2>2
<1>3. got \subseteq Inventories /\ got \subseteq {machine.hardware, Unknown}
  BY <1>1, <1>2 DEF ScanTypes, Machines, Inventories
<1>4. ScanTypes'
  BY <1>1, <1>2, <1>3 DEF Fetch, ScanTypes, pings
<1>5. stage[w] = "begun" /\ stage'[w] = "fetched" /\ cim'[w] = got
  BY <1>1, <1>2 DEF Fetch, ScanTypes
<1>6. FoundNow(w)'
  <2>1. got = {} => "inventory" \in warned'[w]
    BY <1>1, <1>2 DEF ScanTypes
  <2>2. machine' = machine /\ during' = during
    BY DEF Fetch
  <2>3. QED
    BY <1>1, <1>3, <1>5, <2>1, <2>2 DEF FoundNow, Past
<1>7. \A v \in Scanners \ {w} :
        /\ stage'[v] = stage[v] /\ cim'[v] = cim[v]
        /\ load'[v] = load[v] /\ warned'[v] = warned[v]
  BY <1>1, <1>2 DEF Fetch, ScanTypes
<1>8. QED
  BY <1>4, <1>5, <1>6, <1>7, OwnStep DEF Fetch

\* What is put in the cache is of no account to what is shown.
LEMMA KeepStep ==
  ASSUME ScanInv, NEW w \in Scanners, Keep(w) PROVE ScanInv'
<1>1. ScanTypes /\ FoundNow(w)
  BY DEF ScanInv
<1>2. ScanTypes' /\ stage[w] = "fetched" /\ stage'[w] = "read"
  BY <1>1 DEF Keep, ScanTypes, pings
<1>3. FoundNow(w)'
  BY <1>1, <1>2 DEF Keep, FoundNow, Past
<1>4. QED
  BY <1>1, <1>2, <1>3, OwnStep DEF Keep, ScanTypes

\* A probe finds the load of now, or leaves it unknown.
LEMMA ProbeStep ==
  ASSUME ScanInv, NEW w \in Scanners, Probe(w) PROVE ScanInv'
<1>1. ScanTypes /\ FoundNow(w)
  BY DEF ScanInv
<1>2. PICK got \in {machine.load, Unknown}, told \in {warned[w], warned[w] \cup {"probe"}} :
        /\ load' = [load EXCEPT ![w] = got] /\ warned' = [warned EXCEPT ![w] = told]
        /\ stage[w] = "read" /\ stage' = [stage EXCEPT ![w] = "measured"]
        /\ UNCHANGED <<machine, cache, network, quick, carried, cim, pings, during>>
  <2>1. warned = [warned EXCEPT ![w] = warned[w]]
    BY <1>1 DEF ScanTypes
  <2>2. QED
    BY <2>1 DEF Probe
<1>3. got \in Loads \cup {Unknown} /\ told \subseteq {"inventory", "probe"}
  BY <1>1, <1>2 DEF ScanTypes, Machines
<1>4. ScanTypes' /\ stage'[w] = "measured" /\ load'[w] = got /\ warned[w] \subseteq warned'[w]
  BY <1>1, <1>2, <1>3 DEF ScanTypes, pings
<1>5. FoundNow(w)'
  BY <1>1, <1>2, <1>4 DEF FoundNow, Past
<1>6. QED
  BY <1>1, <1>2, <1>4, <1>5, OwnStep DEF Probe, ScanTypes

\* What the window reads of the network is of a link it has met; an answer that came
\* through the tunnel unmarked means that it has met two, or not read the way to it.
LEMMA NetworkStep ==
  ASSUME ScanAssumption, ScanInv, Route \/ Ping PROVE ScanInv'
<1> USE DEF ScanInv
<1>1. UNCHANGED <<machine, cache, network, scanner, during, shown>>
  BY DEF Route, Ping
<1>2. "window" \in Scanners /\ stage["window"] # "idle" /\ machine \in during["window"]
  BY DEF Route, Ping, NetworkTurn, FoundNow, Scanners
<1>3. machine.link \in Past("window", "link")
  BY <1>2 DEF Past
<1>4. \A w \in Scanners : FoundNow(w)'
  BY <1>1 DEF FoundNow, Past, scanner
<1>5. InventoryHonest' /\ NetworkHonest'
  BY <1>1 DEF InventoryHonest, NetworkHonest, Seen
<1>6. machine.link \in Links /\ Past("window", "link")' = Past("window", "link")
  BY <1>1 DEF ScanTypes, Machines, Past
<1>7. CASE Route
  <2>1. /\ router' = router /\ routing = "unread"
        /\ \/ routing' \in {machine.link, "unreadable"}
           \/ routing' = "way unread" /\ machine.link \in {"direct", "tunnel"}
    BY <1>7 DEF Route
  <2>2. ScanTypes'
    BY <1>1, <1>6, <2>1 DEF ScanTypes, scanner
  <2>3. router' = "tunnel" => {"direct", "tunnel"} \subseteq Past("window", "link")
    BY <1>2, <2>1 DEF NetworkNow
  <2>4. routing' = "way unread" => Past("window", "link") \cap {"direct", "tunnel"} # {}
    BY <1>3, <1>6, <2>1 DEF ScanAssumption
  <2>5. routing' # "way unread" =>
          routing' \in Past("window", "link") \cup {"unread", "unreadable"}
    BY <1>3, <2>1
  <2>6. NetworkNow'
    BY <1>1, <1>2, <1>6, <2>3, <2>4, <2>5 DEF NetworkNow, scanner
  <2>7. QED
    BY <1>4, <1>5, <2>2, <2>6
<1>8. CASE Ping
  <2>1. /\ routing' = routing /\ routing \in {"direct", "tunnel", "way unread"}
        /\ machine.link \in {"direct", "tunnel"}
        /\ router' = IF routing = "tunnel" THEN "marked" ELSE machine.link
    BY <1>8 DEF Ping, PingMarked
  <2>2. ScanTypes'
    BY <1>1, <2>1 DEF ScanTypes, scanner
  <2>3. router' = "tunnel" =>
          routing = "way unread" \/ {"direct", "tunnel"} \subseteq Past("window", "link")
    BY <1>2, <1>3, <2>1 DEF NetworkNow
  <2>4. NetworkNow'
    BY <1>1, <1>2, <1>6, <2>1, <2>3 DEF NetworkNow, scanner
  <2>5. QED
    BY <1>4, <1>5, <2>2, <2>4
<1>9. QED
  BY <1>7, <1>8

\* A scanner that is idle again holds nothing.
LEMMA IdleStep ==
  ASSUME ScanTypes, NEW w \in Scanners, Idle(w)
  PROVE  /\ stage' \in [Scanners -> {"idle", "begun", "fetched", "read", "measured"}]
         /\ quick' \in [Scanners -> BOOLEAN] /\ carried' \in [Scanners -> SUBSET NetworkSet]
         /\ cim' \in [Scanners -> SUBSET Inventories]
         /\ load' \in [Scanners -> Loads \cup {Unknown}]
         /\ warned' \in [Scanners -> SUBSET {"inventory", "probe"}]
         /\ during' \in [Scanners -> SUBSET Machines] /\ stage'[w] = "idle"
         /\ \A v \in Scanners \ {w} :
              /\ stage'[v] = stage[v] /\ quick'[v] = quick[v] /\ carried'[v] = carried[v]
              /\ cim'[v] = cim[v] /\ load'[v] = load[v] /\ warned'[v] = warned[v]
              /\ during'[v] = during[v]
BY DEF ScanTypes, Idle

\* ... so nothing has to be true of it; and the other one stays as it is.
LEMMA IdleFound ==
  ASSUME ScanInv, NEW w \in Scanners, Idle(w), machine' = machine
  PROVE  \A v \in Scanners : FoundNow(v)'
<1>1. stage'[w] = "idle" /\ \A v \in Scanners \ {w} :
        /\ stage'[v] = stage[v] /\ quick'[v] = quick[v]
        /\ cim'[v] = cim[v] /\ load'[v] = load[v] /\ warned'[v] = warned[v]
        /\ during'[v] = during[v]
  BY IdleStep DEF ScanInv
<1>2. QED
  BY <1>1 DEF ScanInv, FoundNow, Past

\* Two links are more than one.
LEMMA TwoLinks ==
  ASSUME NEW S, IsFiniteSet(S), {"direct", "tunnel"} \subseteq S PROVE Cardinality(S) > 1
<1>1. {"direct"} \cup {"tunnel"} = {"direct", "tunnel"} /\ "tunnel" \notin {"direct"}
  OBVIOUS
<1>2. IsFiniteSet({"direct"}) /\ Cardinality({"direct"}) = 1
  BY FS_Singleton
<1>3. Cardinality({"direct"} \cup {"tunnel"}) = Cardinality({"direct"}) + 1
  BY <1>1, <1>2, FS_AddElement
<1>4. Cardinality({"direct", "tunnel"}) <= Cardinality(S)
  BY FS_Subset
<1>5. Cardinality(S) \in Nat
  BY FS_CardinalityType
<1>6. QED
  BY <1>1, <1>2, <1>3, <1>4, <1>5

\* What the window shows is what its own scan held at the end.
LEMMA CompletedStep ==
  ASSUME ScanInv, Completed PROVE ScanInv'
<1> USE DEF ScanInv
<1>1. /\ "window" \in Scanners /\ stage["window"] = "measured" /\ Idle("window")
      /\ machine' = machine
      /\ quick["window"] \/ routing # "unread"
  BY DEF Completed, Scanners
<1> DEFINE net == IF quick["window"] THEN CarriedOn ELSE {NetworkRead}
           s == [quick |-> quick["window"], inventory |-> cim["window"],
                 load |-> load["window"], network |-> net,
                 warned |-> warned["window"], during |-> during["window"],
                 before |-> UNION {x.network : x \in shown}]
<1>2. shown' = {s} /\ network' = (IF net = {} THEN network ELSE net)
  BY DEF Completed
<1>3. net # {} /\ net \subseteq NetworkSet
  <2>1. quick["window"] => CarriedOn = network /\ network # {}
    BY <1>1 DEF CarriedOn, NetworkNow
  <2>2. NetworkRead \in NetworkSet
    BY DEF NetworkRead, NetworkSet, ScanTypes
  <2>3. QED
    BY <2>1, <2>2 DEF ScanTypes
<1>4. network' = UNION {x.network : x \in shown'}
  BY <1>2, <1>3
<1>5. ScanTypes'
  <2>1. network' \subseteq NetworkSet
    BY <1>2, <1>3 DEF ScanTypes
  <2>2. machine' = machine /\ cache' = cache /\ routing' = "unread" /\ router' = "none"
    BY DEF Completed
  <2>3. QED
    BY <1>1, <2>1, <2>2, IdleStep DEF ScanTypes
<1>6. NetworkNow'
  BY <1>1, <1>4, IdleStep DEF NetworkNow
<1>7. InventoryHonest'
  <2>1. /\ s.load \in Seen(s, "load") \cup {Unknown}
        /\ s.inventory = {} => "inventory" \in s.warned
        /\ s.quick \/ s.inventory \subseteq Seen(s, "hardware") \cup {Unknown}
    BY <1>1 DEF FoundNow, Past, Seen
  <2> HIDE DEF s
  <2>2. QED
    BY <1>2, <2>1 DEF InventoryHonest, Seen
<1>8. NetworkHonest'
  <2>1. CASE quick["window"]
    <3>1. s.quick = TRUE /\ s.network = s.before
      BY <1>1, <2>1 DEF CarriedOn, NetworkNow
    <3> HIDE DEF s
    <3>2. QED
      BY <1>2, <3>1 DEF NetworkHonest
  <2>2. CASE ~quick["window"]
    <3>1. s.network = {NetworkRead} /\ s.quick = FALSE /\ s.during = during["window"]
      BY <1>1, <2>2 DEF ScanTypes
    <3>2. NetworkRead.routing = routing /\ NetworkRead.router = router
      BY DEF NetworkRead
    <3>3. Seen(s, "link") = Past("window", "link")
      BY DEF Seen, Past
    <3>4. IsFiniteSet(Past("window", "link"))
      BY <1>1 DEF FoundNow
    <3> HIDE DEF s
    <3>5. IF routing = "way unread" THEN Seen(s, "link") \cap {"direct", "tunnel"} # {}
          ELSE routing \in Seen(s, "link") \cup {"unreadable"}
      BY <1>1, <2>2, <3>3 DEF NetworkNow
    <3>6. router = "tunnel" => routing = "way unread" \/ Cardinality(Seen(s, "link")) > 1
      BY <1>1, <3>3, <3>4, TwoLinks DEF NetworkNow
    <3>7. QED
      BY <1>2, <3>1, <3>2, <3>5, <3>6 DEF NetworkHonest, Seen
  <2>3. QED
    BY <2>1, <2>2
<1>9. QED
  BY <1>1, <1>5, <1>6, <1>7, <1>8, IdleFound

\* A scan that fails, and the optimizer's own, show nothing.
LEMMA FailedStep ==
  ASSUME ScanInv, Failed \/ Remeasured PROVE ScanInv'
<1> USE DEF ScanInv
<1>1. PICK w \in Scanners :
        /\ Idle(w)
        /\ w = "optimizer" => UNCHANGED pings
        /\ w # "optimizer" => w = "window" /\ routing' = "unread" /\ router' = "none"
  BY DEF Failed, Remeasured, Scanners
<1>2. UNCHANGED <<machine, cache, network, shown>>
  BY DEF Failed, Remeasured
<1>3. ScanTypes'
  BY <1>1, <1>2, IdleStep DEF ScanTypes, pings
<1>4. NetworkNow'
  <2>1. CASE w = "window"
    BY <1>1, <1>2, <2>1, IdleStep DEF NetworkNow
  <2>2. CASE w = "optimizer"
    <3>1. /\ stage'["window"] = stage["window"] /\ carried'["window"] = carried["window"]
          /\ quick'["window"] = quick["window"] /\ during'["window"] = during["window"]
          /\ UNCHANGED <<routing, router>>
      BY <1>1, <2>2, IdleStep DEF Scanners, pings
    <3>2. QED
      BY <1>2, <3>1 DEF NetworkNow, Past
  <2>3. QED
    BY <2>1, <2>2 DEF Scanners
<1>5. InventoryHonest' /\ NetworkHonest'
  BY <1>2 DEF InventoryHonest, NetworkHonest, Seen
<1>6. QED
  BY <1>1, <1>2, <1>3, <1>4, <1>5, IdleFound

\* Whatever the machine becomes in the middle of a scan was found during it.
LEMMA MovesStep ==
  ASSUME ScanInv, MachineMoves PROVE ScanInv'
<1> USE DEF ScanInv
<1>1. UNCHANGED <<cache, network, scanner, pings, shown>>
  BY DEF MachineMoves
<1>2. machine' \in Machines
  BY DEF MachineMoves, ScanTypes, Machines
<1>3. /\ during' \in [Scanners -> SUBSET Machines]
      /\ \A w \in Scanners : stage[w] # "idle" => during'[w] = during[w] \cup {machine'}
  BY <1>2 DEF MachineMoves, ScanTypes
<1>4. ScanTypes'
  BY <1>1, <1>2, <1>3 DEF ScanTypes, scanner, pings
<1>5. \A w \in Scanners : FoundNow(w)'
  <2>1. ASSUME NEW w \in Scanners, stage[w] # "idle" PROVE IsFiniteSet(Past(w, "link"))'
    <3>1. {m["link"] : m \in during'[w]} = Past(w, "link") \cup {machine'.link}
      BY <1>3, <2>1 DEF Past
    <3>2. IsFiniteSet(Past(w, "link"))
      BY <2>1 DEF FoundNow
    <3>3. IsFiniteSet(Past(w, "link") \cup {machine'.link})
      BY <3>2, FS_AddElement
    <3>4. QED
      BY <3>1, <3>3 DEF Past
  <2>2. QED
    BY <1>1, <1>3, <2>1 DEF FoundNow, Past, scanner
<1>6. NetworkNow'
  <2>1. stage["window"] # "idle" => Past("window", "link") \subseteq Past("window", "link")'
    BY <1>3 DEF Past, Scanners
  <2> DEFINE old == Past("window", "link")
             new == Past("window", "link")'
  <2>2. /\ network = UNION {s.network : s \in shown}
        /\ stage["window"] # "idle" =>
             /\ carried["window"] = network
             /\ quick["window"] => network # {}
             /\ IF routing = "way unread" THEN old \cap {"direct", "tunnel"} # {}
                ELSE routing \in old \cup {"unread", "unreadable"}
             /\ router = "tunnel" => routing = "way unread" \/ {"direct", "tunnel"} \subseteq old
    BY DEF NetworkNow
  <2> HIDE DEF old, new
  <2>3. stage["window"] # "idle" =>
          /\ IF routing = "way unread" THEN new \cap {"direct", "tunnel"} # {}
             ELSE routing \in new \cup {"unread", "unreadable"}
          /\ router = "tunnel" => routing = "way unread" \/ {"direct", "tunnel"} \subseteq new
    BY <2>1, <2>2 DEF old, new
  <2>4. QED
    BY <1>1, <2>2, <2>3 DEF NetworkNow, new, scanner, pings
<1>7. InventoryHonest' /\ NetworkHonest'
  BY <1>1 DEF InventoryHonest, NetworkHonest, Seen
<1>8. QED
  BY <1>4, <1>5, <1>6, <1>7

\* Every step keeps the strengthening.
LEMMA ScanStep == ASSUME ScanAssumption, ScanInv, [ScanNext]_scanVars PROVE ScanInv'
<1>1. CASE Start \/ Refresh \/ Remeasure
  BY <1>1, BeginStep DEF Start, Refresh, Remeasure, Scanners
<1>2. CASE \E w \in Scanners : Reuse(w) \/ Fetch(w) \/ Keep(w) \/ Probe(w)
  BY <1>2, ReuseStep, FetchStep, KeepStep, ProbeStep
<1>3. CASE Route \/ Ping
  BY <1>3, NetworkStep
<1>4. CASE Completed \/ Failed \/ Remeasured \/ MachineMoves
  BY <1>4, CompletedStep, FailedStep, MovesStep
<1>5. CASE UNCHANGED scanVars
  BY <1>5 DEF scanVars, ScanInv, ScanTypes, FoundNow, Past, NetworkNow, InventoryHonest,
     NetworkHonest, Seen
<1>6. QED
  BY <1>1, <1>2, <1>3, <1>4, <1>5 DEF ScanNext

\* However the window's scans and the optimizer's interleave on the one scanner and its
\* cache, and however the machine changes meanwhile, a live value that is shown was found
\* during its scan, and after a full scan so were the drives, or they are shown as unknown
\* (core/scanner/hardware_scan.py).
THEOREM InventoryAlwaysHonest ==
  ASSUME ScanAssumption PROVE ScanSpec => []InventoryHonest
<1>1. ScanInv => InventoryHonest
  BY DEF ScanInv
<1>2. QED
  BY ScanStart, ScanStep, <1>1, PTL DEF ScanSpec

\* A refresh shows the network as it was shown before, and a full scan never times a
\* tunnel as the local network unless the machine was rerouted in the middle of it, or the
\* adapter that traffic to the router takes could not be read (network/adapter/routing.py;
\* core/scanner/hardware_scan.py; app/controllers/scan_controller.py, _publish).
THEOREM NetworkAlwaysHonest ==
  ASSUME ScanAssumption PROVE ScanSpec => []NetworkHonest
<1>1. ScanInv => NetworkHonest
  BY DEF ScanInv
<1>2. QED
  BY ScanStart, ScanStep, <1>1, PTL DEF ScanSpec

-----------------------------------------------------------------------------
(* ClubProfile.                                                             *)

\* A PC and a profile, field by field.
IsPC(pc) ==
  /\ pc = [figure |-> pc.figure, name |-> pc.name, registry |-> pc.registry,
           windows10 |-> pc.windows10, driver |-> pc.driver, scheme |-> pc.scheme,
           rate |-> pc.rate, service |-> pc.service]
  /\ pc.rate \in [Monitors -> Rates \cup {Unread}]

IsProfile(p) ==
  /\ p = [figure |-> p.figure, name |-> p.name, settings |-> p.settings,
          scheme |-> p.scheme, maximum |-> p.maximum, minimum |-> p.minimum,
          services |-> p.services]
  /\ p.settings = CapturedSettings(ref) /\ p.maximum \in BOOLEAN
  /\ DOMAIN p.services \subseteq Services

ProfileTypes ==
  /\ section \in Sections /\ ref \in PCs(section)
  /\ IsPC(here) /\ IsPC(scanned)
  /\ \A p \in file : IsProfile(p)

\* What a comparison shows of a PC that has not moved since is what comparing it says.
ShownInv ==
  UpToDate => scanned = here /\ \E p \in file : result = {Differences(p)} /\ fixes = Fixes(p)

\* Only the club's own demands make a profile another than the captured one.
FileInv == section \notin {"display", "services"} => file \subseteq {Captured(ref)}

\* Where the PCs differ in a figure nothing can be put right, so this one stays what a
\* PC can be.
FigureInv ==
  section \in Numbers => here \in PCs(section) /\ scanned \in PCs(section) /\ fixes = {}

\* A fix is only offered for what the profile holds, and what was put right is as it
\* has it.
FixesInv == fixes \subseteq DOMAIN CapturedSettings(ref) \cup {"power"} \cup Monitors
ReachedInv ==
  /\ \A s \in reached \cap Settings :
       s \in DOMAIN CapturedSettings(ref) /\ here.registry[s] = CapturedSettings(ref)[s]
  /\ \A m \in reached \cap Monitors : here.rate[m] = Best[m]

ProfileInv == ProfileTypes /\ ShownInv /\ FileInv /\ FigureInv /\ FixesInv /\ ReachedInv

-----------------------------------------------------------------------------
\* What may drift is told apart by its name.
LEMMA ThingsApart ==
  ASSUME ClubProfileAssumption
  PROVE  /\ Settings \cap (Sections \cup Monitors \cup Services) = {}
         /\ Monitors \cap (Settings \cup Sections \cup Services) = {}
         /\ Services \cap Sections = {}
<1>1. Settings \cap Sections = {}
  BY DEF ClubProfileAssumption, Sections, Numbers, Names, SETTINGS
<1>2. QED
  BY <1>1 DEF ClubProfileAssumption

\* Of a PC, only what its section is about is not Plain.
PlainBut(s, pc) ==
  /\ s \notin Numbers => pc.figure = Plain.figure
  /\ s \notin {"settings"} =>
       /\ pc.registry = Plain.registry /\ pc.windows10 = Plain.windows10
       /\ pc.driver = Plain.driver
  /\ s # "power" => pc.scheme = Plain.scheme
  /\ s # "display" => pc.rate = Best

\* The PCs of a section are Plain but for it.
LEMMA PCsAre ==
  ASSUME ClubProfileAssumption, NEW s \in Sections, NEW pc \in PCs(s)
  PROVE  /\ IsPC(pc) /\ PlainBut(s, pc)
         /\ s \in Numbers => pc.figure \in Figures
<1> DEFINE base == Plain
<1>1. /\ base = [figure |-> 16, name |-> "SSD", registry |-> base.registry,
                 windows10 |-> base.windows10, driver |-> "on", scheme |-> base.scheme,
                 rate |-> Best, service |-> base.service]
      /\ Best \in [Monitors -> Rates \cup {Unread}]
  BY DEF Plain, SetTo, ClubProfileAssumption
<1>2. PlainBut(s, pc) =
        (/\ s \notin Numbers => pc.figure = base.figure
         /\ s # "settings" =>
              /\ pc.registry = base.registry /\ pc.windows10 = base.windows10
              /\ pc.driver = base.driver
         /\ s # "power" => pc.scheme = base.scheme
         /\ s # "display" => pc.rate = Best)
  BY DEF PlainBut
<1>3. /\ s \in Numbers => pc \in {[base EXCEPT !.figure = f] : f \in Figures}
      /\ s \in Names => pc \in {[base EXCEPT !.name = n] : n \in Named}
      /\ s = "settings" => \E r, d : pc = SetTo(r, d)
      /\ s = "power" => \E p : pc = [base EXCEPT !.scheme = p]
      /\ s = "display" => pc \in {[base EXCEPT !.rate = r] : r \in [Monitors -> Rates \cup {Unread}]}
      /\ s = "services" => \E t : pc = [base EXCEPT !.service = t]
  <2> HIDE DEF base
  <2> DEFINE one == {[base EXCEPT !.figure = f] : f \in Figures}
             two == {[base EXCEPT !.name = n] : n \in Named}
             three == {SetTo(r, d) :
                         r \in {g \in [Settings -> UNION {Found(x) : x \in Settings}] :
                                  \A x \in Settings : g[x] \in Found(x)},
                         d \in Switch \cup {"unsupported", "unasked"}}
             four == {[base EXCEPT !.scheme = p] : p \in Schemes \cup {"unread"}}
             five == {[base EXCEPT !.rate = r] : r \in [Monitors -> Rates \cup {Unread}]}
             six == {[base EXCEPT !.service = t] : t \in [Services -> StartupTypes]}
  <2>1. PCs(s) = CASE s \in Numbers -> one
                   [] s \in Names -> two
                   [] s = "settings" -> three
                   [] s = "power" -> four
                   [] s = "display" -> five
                   [] OTHER -> six
    BY DEF base, PCs
  <2> HIDE DEF one, two, three, four, five, six
  <2>2. /\ s \in Numbers => pc \in one
        /\ s \in Names => pc \in two
        /\ s = "settings" => pc \in three
        /\ s = "power" => pc \in four
        /\ s = "display" => pc \in five
        /\ s = "services" => pc \in six
    BY <2>1 DEF Numbers, Names
  <2>3. QED
    BY <2>2 DEF one, two, three, four, five, six
<1> HIDE DEF base
<1>4. CASE s \in Numbers
  <2>1. PICK f \in Figures : pc = [base EXCEPT !.figure = f]
    BY <1>3, <1>4
  <2>2. QED
    BY <1>1, <1>2, <1>4, <2>1 DEF IsPC, Numbers
<1>5. CASE s \in Names
  <2>1. PICK n \in Named : pc = [base EXCEPT !.name = n]
    BY <1>3, <1>5
  <2>2. QED
    BY <1>1, <1>2, <1>5, <2>1 DEF IsPC, Numbers, Names
<1>6. CASE s = "settings"
  <2>1. PICK r, d : pc = SetTo(r, d)
    BY <1>3, <1>6
  <2>2. QED
    BY <1>1, <1>2, <1>6, <2>1 DEF IsPC, Numbers, SetTo, base, Plain
<1>7. CASE s = "power"
  BY <1>1, <1>2, <1>3, <1>7 DEF IsPC, Numbers
<1>8. CASE s = "display"
  <2>1. PICK r \in [Monitors -> Rates \cup {Unread}] : pc = [base EXCEPT !.rate = r]
    BY <1>3, <1>8
  <2>2. QED
    BY <1>1, <1>2, <1>8, <2>1 DEF IsPC, Numbers
<1>9. CASE s = "services"
  BY <1>1, <1>2, <1>3, <1>9 DEF IsPC, Numbers
<1>10. QED
  BY <1>4, <1>5, <1>6, <1>7, <1>8, <1>9 DEF Sections

\* What is captured of a setting is one of its options.
LEMMA CapturedOptions ==
  ASSUME NEW pc, NEW s \in DOMAIN CapturedSettings(pc)
  PROVE  s \in Settings /\ CapturedSettings(pc)[s] \in SETTINGS[s].options
<1>1. /\ s \in Settings /\ CapturedSettings(pc)[s] = CurrentKey(s, pc)
      /\ CurrentKey(s, pc) # NoKey
  BY DEF CapturedSettings
<1>2. s = "hags" => SETTINGS[s].options = Switch
  BY DEF SETTINGS, SettingSpec
<1>3. QED
  BY <1>1, <1>2 DEF CurrentKey

\* Where an option is found it is in force.
LEMMA OptionInForce ==
  ASSUME ClubProfileAssumption, NEW pc, NEW s \in Settings,
         pc.registry[s] \in SETTINGS[s].options
  PROVE  CurrentKey(s, pc) = pc.registry[s]
<1>1. "absent" \notin SETTINGS[s].options
  BY DEF ClubProfileAssumption, SETTINGS, SettingSpec, Switch
<1>2. QED
  BY <1>1 DEF CurrentKey

\* The captured profile, and PCs whose settings are the same.
LEMMA CapturedIs == IsProfile(Captured(ref))
BY DEF IsProfile, Captured

\* A PC with the settings of the reference does not drift from them.
LEMMA SameSettings ==
  ASSUME NEW p, IsProfile(p),
         here.registry = ref.registry, here.windows10 = ref.windows10,
         here.driver = ref.driver
  PROVE  CompareSettings(p) = {}
<1>1. \A s \in Settings : CurrentKey(s, here) = CurrentKey(s, ref)
  BY DEF CurrentKey
<1>2. QED
  BY <1>1 DEF IsProfile, CompareSettings, CapturedSettings

\* The sections, the reference PC and what is captured of it stay.
LEMMA SameReference ==
  ASSUME UNCHANGED <<section, ref>>
  PROVE  /\ PCs(section)' = PCs(section)
         /\ CapturedSettings(ref)' = CapturedSettings(ref)
         /\ Captured(ref)' = Captured(ref)
         /\ \A p : IsProfile(p) => IsProfile(p)'
<1>1. CapturedSettings(ref)' = CapturedSettings(ref)
  BY DEF CapturedSettings
<1>2. PCs(section)' = PCs(section)
  BY DEF PCs
<1>3. Captured(ref)' = Captured(ref)
  BY <1>1 DEF Captured, Demanded
<1>4. QED
  BY <1>1, <1>2, <1>3 DEF IsProfile

\* A step that leaves the file and the reference alone.
LEMMA UnchangedTypes ==
  ASSUME ProfileInv, UNCHANGED <<section, ref, file>>, IsPC(here'), IsPC(scanned')
  PROVE  (ProfileTypes /\ FileInv)'
<1>1. ProfileTypes'
  <2>1. section' \in Sections /\ ref' \in PCs(section')
    BY SameReference DEF ProfileInv, ProfileTypes
  <2>2. \A p \in file' : IsProfile(p)'
    BY SameReference DEF ProfileInv, ProfileTypes
  <2>3. IsPC(here)' /\ IsPC(scanned)'
    BY DEF IsPC
  <2>4. QED
    BY <2>1, <2>2, <2>3 DEF ProfileTypes
<1>2. FileInv'
  BY SameReference DEF ProfileInv, FileInv
<1>3. QED
  BY <1>1, <1>2

-----------------------------------------------------------------------------
\* Nothing is compared yet.
LEMMA ProfileStart == ASSUME ClubProfileAssumption, ProfileInit PROVE ProfileInv
<1>1. /\ section \in Sections /\ ref \in PCs(section) /\ here \in PCs(section)
      /\ scanned = here /\ file = {} /\ result = {} /\ fixes = {} /\ reached = {}
  BY DEF ProfileInit
<1>2. IsPC(here)
  BY <1>1, PCsAre
<1>3. QED
  BY <1>1, <1>2 DEF ProfileInv, ProfileTypes, ShownInv, UpToDate, FileInv, FigureInv,
    FixesInv, ReachedInv

\* The profile is what was captured.
LEMMA SaveStep == ASSUME ProfileInv, Save PROVE ProfileInv'
<1>1. /\ UNCHANGED <<section, ref, here, scanned, result, fixes, reached, stale>>
      /\ file = {} /\ file' = {Captured(ref)}
  BY DEF Save
<1>2. ProfileTypes'
  BY <1>1, CapturedIs DEF ProfileInv, ProfileTypes, IsProfile, CapturedSettings
<1>3. ShownInv'
  BY <1>1 DEF ProfileInv, ShownInv, UpToDate
<1>4. FileInv'
  BY <1>1 DEF FileInv, Captured, CapturedSettings
<1>5. (FigureInv /\ FixesInv /\ ReachedInv)'
  BY <1>1 DEF ProfileInv, FigureInv, FixesInv, ReachedInv, CapturedSettings, PCs
<1>6. QED
  BY <1>2, <1>3, <1>4, <1>5 DEF ProfileInv

\* Editing the file takes nothing captured from it.
LEMMA EditStep == ASSUME ProfileInv, Edit PROVE ProfileInv'
<1>1. UNCHANGED <<section, ref, here, scanned, result, fixes, reached, stale>> /\ result = {}
  BY DEF Edit
<1>2. PICK p \in file :
        \/ section = "display" /\ \E m \in Rates, max \in BOOLEAN :
             file' = {[p EXCEPT !.minimum = m, !.maximum = max]}
        \/ section = "services" /\ \E t :
             file' = {[p EXCEPT !.services = [s \in Services |-> t]]}
        \/ file' = file
  BY DEF Edit
<1>3. IsProfile(p)
  BY DEF ProfileInv, ProfileTypes
<1>4. \A q \in file' : IsProfile(q)
  <2>1. CASE file' = file
    BY <2>1 DEF ProfileInv, ProfileTypes
  <2>2. ASSUME NEW m \in Rates, NEW max \in BOOLEAN,
               file' = {[p EXCEPT !.minimum = m, !.maximum = max]}
        PROVE  \A q \in file' : IsProfile(q)
    <3> DEFINE least == [p EXCEPT !.minimum = m]
               both == [least EXCEPT !.maximum = max]
    <3>1. /\ least.figure = p.figure /\ least.name = p.name
          /\ least.settings = p.settings /\ least.scheme = p.scheme
          /\ least.maximum = p.maximum /\ least.minimum = m
          /\ least.services = p.services
          /\ least = [figure |-> least.figure, name |-> least.name,
                      settings |-> least.settings, scheme |-> least.scheme,
                      maximum |-> least.maximum, minimum |-> least.minimum,
                      services |-> least.services]
      BY <1>3 DEF IsProfile
    <3>2. file' = {both}
      BY <2>2
    <3> HIDE DEF least
    <3>3. IsProfile(both)
      BY <1>3, <3>1 DEF IsProfile
    <3>4. QED
      BY <3>2, <3>3
  <2>3. ASSUME NEW t, file' = {[p EXCEPT !.services = [s \in Services |-> t]]}
        PROVE  \A q \in file' : IsProfile(q)
    <3>1. DEFINE every == [s \in Services |-> t]
    <3>2. DOMAIN every = Services
      OBVIOUS
    <3>3. file' = {[p EXCEPT !.services = every]}
      BY <2>3
    <3> HIDE DEF every
    <3>4. QED
      BY <1>3, <3>2, <3>3 DEF IsProfile
  <2>4. QED
    BY <1>2, <2>1, <2>2, <2>3
<1>5. ProfileTypes'
  BY <1>1, <1>4 DEF ProfileInv, ProfileTypes, IsProfile, CapturedSettings
<1>6. ShownInv'
  BY <1>1 DEF ShownInv, UpToDate
<1>7. FileInv'
  BY <1>1, <1>2 DEF ProfileInv, FileInv, Captured, CapturedSettings
<1>8. (FigureInv /\ FixesInv /\ ReachedInv)'
  BY <1>1 DEF ProfileInv, FigureInv, FixesInv, ReachedInv, CapturedSettings, PCs
<1>9. QED
  BY <1>5, <1>6, <1>7, <1>8 DEF ProfileInv

\* Where the PCs differ in a figure there is nothing to put right.
LEMMA NoFixes ==
  ASSUME ClubProfileAssumption, ProfileInv, section \in Numbers, NEW p \in file
  PROVE  Fixes(p) = {}
<1>1. section # "display" /\ section # "services" /\ section # "power" /\ section # "settings"
  BY DEF Numbers
<1>2. PlainBut(section, ref) /\ PlainBut(section, here) /\ PlainBut(section, scanned)
  BY PCsAre DEF ProfileInv, ProfileTypes, FigureInv
<1>3. IsProfile(p) /\ p = Captured(ref)
  BY <1>1 DEF ProfileInv, ProfileTypes, FileInv
<1>4. CompareSettings(p) = {}
  BY <1>1, <1>2, <1>3, SameSettings DEF PlainBut
<1>5. ComparePower(p) = {}
  <2>1. p.scheme \subseteq {ref.scheme} /\ here.scheme = ref.scheme
    BY <1>1, <1>2, <1>3 DEF Captured, PlainBut
  <2>2. QED
    BY <2>1 DEF ComparePower
<1>6. DisplayFixes(p) = {}
  <2>1. scanned.rate = Best /\ \A m \in Monitors : Best[m] \in Nat
    BY <1>1, <1>2 DEF PlainBut, ClubProfileAssumption
  <2>2. QED
    BY <2>1 DEF DisplayFixes, Slow
<1>7. QED
  BY <1>4, <1>5, <1>6 DEF Fixes

\* A comparison shows what there is to show.
LEMMA CompareStep == ASSUME ClubProfileAssumption, ProfileInv, Compare PROVE ProfileInv'
<1>1. UNCHANGED <<section, ref, here, scanned, file, reached>> /\ stale' = (scanned # here)
  BY DEF Compare
<1>2. PICK p \in file : result' = {Differences(p)} /\ fixes' = Fixes(p)
  BY DEF Compare
<1>3. IsProfile(p)
  BY DEF ProfileInv, ProfileTypes
<1>4. (ProfileTypes /\ FileInv /\ ReachedInv)'
  BY <1>1, UnchangedTypes, SameReference DEF ProfileInv, ProfileTypes, ReachedInv
<1>5. ShownInv'
  <2>1. Differences(p)' = Differences(p) /\ Fixes(p)' = Fixes(p)
    BY <1>1 DEF Differences, CompareHardware, ComparePower, CompareDisplay, CompareSettings,
      CompareServices, Fixes, DisplayFixes, Slow, BelowLeast, Below
  <2>2. QED
    BY <1>1, <1>2, <2>1 DEF ShownInv, UpToDate
<1>6. FixesInv'
  <2>1. Fixes(p) \subseteq DOMAIN p.settings \cup {"power"} \cup Monitors
    BY DEF Fixes, CompareSettings, ComparePower, DisplayFixes
  <2>2. QED
    BY <1>1, <1>2, <1>3, <2>1 DEF FixesInv, IsProfile, CapturedSettings
<1>7. FigureInv'
  <2>1. section \in Numbers => fixes' = {}
    BY <1>2, NoFixes
  <2>2. QED
    BY <1>1, <2>1 DEF ProfileInv, FigureInv, PCs
<1>8. QED
  BY <1>4, <1>5, <1>6, <1>7 DEF ProfileInv

\* What is put right without a failure is as the profile has it.
LEMMA FixStep == ASSUME ClubProfileAssumption, ProfileInv, Fix PROVE ProfileInv'
<1>1. /\ UNCHANGED <<section, ref, scanned, file, stale>>
      /\ fixes # {} /\ fixes' = {} /\ result' = {}
  BY DEF Fix
<1>2. PICK p \in file, what \in SUBSET fixes : here' = Fixed(p, what) /\ reached' = what
  BY DEF Fix
<1>3. IsProfile(p) /\ IsPC(here)
  BY DEF ProfileInv, ProfileTypes
<1> DEFINE registry == [s \in Settings |->
             IF s \in what THEN p.settings[s] ELSE here.registry[s]]
           scheme == IF "power" \in what /\ PowerNeedsChange THEN CHOOSE w \in p.scheme : TRUE
                     ELSE here.scheme
           rate == [m \in Monitors |-> IF m \in what THEN Best[m] ELSE here.rate[m]]
<1>4. here' = [figure |-> here.figure, name |-> here.name, registry |-> registry,
               windows10 |-> here.windows10, driver |-> here.driver, scheme |-> scheme,
               rate |-> rate, service |-> here.service]
  <2> DEFINE set == [here EXCEPT !.registry = registry]
             switched == [set EXCEPT !.scheme = scheme]
             faster == [switched EXCEPT !.rate = rate]
  <2>1. here' = faster
    BY <1>2 DEF Fixed
  <2> HIDE DEF registry, scheme, rate
  <2>2. set = [figure |-> here.figure, name |-> here.name, registry |-> registry,
               windows10 |-> here.windows10, driver |-> here.driver,
               scheme |-> here.scheme, rate |-> here.rate, service |-> here.service]
    BY <1>3 DEF IsPC
  <2> HIDE DEF set
  <2>3. switched = [figure |-> here.figure, name |-> here.name, registry |-> registry,
                    windows10 |-> here.windows10, driver |-> here.driver,
                    scheme |-> scheme, rate |-> here.rate, service |-> here.service]
    BY <2>2
  <2> HIDE DEF switched
  <2>4. QED
    BY <2>1, <2>3
<1>5. rate \in [Monitors -> Rates \cup {Unread}]
  BY <1>3 DEF IsPC, ClubProfileAssumption
<1>6. IsPC(here')
  <2> HIDE DEF registry, scheme, rate
  <2> QED
    BY <1>4, <1>5 DEF IsPC
<1>7. here'.registry = registry /\ here'.rate = rate
  <2> HIDE DEF registry, scheme, rate
  <2> QED
    BY <1>4
<1>8. (ProfileTypes /\ FileInv)'
  BY <1>1, <1>6, UnchangedTypes DEF ProfileInv, ProfileTypes
<1>9. (ShownInv /\ FigureInv /\ FixesInv)'
  BY <1>1 DEF ProfileInv, ShownInv, UpToDate, FigureInv, FixesInv
<1>10. ReachedInv'
  <2>1. what \cap Settings \subseteq DOMAIN CapturedSettings(ref)
    BY ThingsApart DEF ProfileInv, FixesInv, Sections
  <2>2. \A s \in what \cap Settings : registry[s] = CapturedSettings(ref)[s]
    BY <1>3 DEF IsProfile
  <2>3. \A m \in what \cap Monitors : rate[m] = Best[m]
    OBVIOUS
  <2> HIDE DEF registry, rate
  <2>4. CapturedSettings(ref)' = CapturedSettings(ref)
    BY <1>1 DEF CapturedSettings
  <2>5. QED
    BY <1>2, <1>7, <2>1, <2>2, <2>3, <2>4 DEF ReachedInv
<1>11. QED
  BY <1>8, <1>9, <1>10 DEF ProfileInv

\* The comparison is closed, or the PC is scanned again.
LEMMA LookAwayStep ==
  ASSUME ProfileInv, CloseComparison \/ Rescan
  PROVE  ProfileInv'
<1>1. /\ UNCHANGED <<section, ref, here, file, reached>>
      /\ scanned' \in {here, scanned} /\ fixes' \in {{}, fixes}
      /\ ~UpToDate'
  BY DEF CloseComparison, Rescan, UpToDate
<1>2. (ProfileTypes /\ FileInv /\ ReachedInv)'
  BY <1>1, UnchangedTypes, SameReference DEF ProfileInv, ProfileTypes, ReachedInv
<1>3. (ShownInv /\ FigureInv /\ FixesInv)'
  BY <1>1 DEF ProfileInv, ShownInv, FigureInv, FixesInv, PCs, CapturedSettings
<1>4. QED
  BY <1>2, <1>3 DEF ProfileInv

\* Whatever moves on this PC, the comparison counts as old from then on.
LEMMA OtherMovesStep == ASSUME ClubProfileAssumption, ProfileInv, OtherMoves PROVE ProfileInv'
<1>1. /\ UNCHANGED <<section, ref, scanned, file, result, fixes>>
      /\ here' \in PCs(section) /\ reached' = {} /\ stale' = TRUE
  BY DEF OtherMoves
<1>2. IsPC(here')
  BY <1>1, PCsAre DEF ProfileInv, ProfileTypes
<1>3. (ProfileTypes /\ FileInv /\ ReachedInv)'
  BY <1>1, <1>2, UnchangedTypes, SameReference DEF ProfileInv, ProfileTypes, ReachedInv
<1>4. (ShownInv /\ FigureInv /\ FixesInv)'
  BY <1>1, SameReference DEF ProfileInv, ShownInv, UpToDate, FigureInv, FixesInv
<1>5. QED
  BY <1>3, <1>4 DEF ProfileInv

-----------------------------------------------------------------------------
(* What a comparison shows, put down to the profile it was made with.       *)

\* The profile that a comparison was made with.
LEMMA ShownIs ==
  ASSUME ProfileInv, UpToDate
  PROVE  /\ scanned = here
         /\ \E p \in file : /\ IsProfile(p) /\ result = {Differences(p)} /\ fixes = Fixes(p)
                            /\ Drifted = Differences(p)
<1>1. scanned = here /\ \E p \in file : result = {Differences(p)} /\ fixes = Fixes(p)
  BY DEF ProfileInv, ShownInv
<1>2. QED
  BY <1>1 DEF ProfileInv, ProfileTypes, Drifted

\* Each part of a comparison is about things of its own.
LEMMA DriftedParts ==
  ASSUME ClubProfileAssumption, ProfileTypes, NEW p, IsProfile(p), NEW x \in Differences(p)
  PROVE  /\ x \in Settings => x \in CompareSettings(p)
         /\ x \in Monitors => x \in CompareDisplay(p)
<1>1. CompareHardware(p) \cup ComparePower(p) \subseteq Sections
  BY DEF CompareHardware, ComparePower, Sections, ProfileTypes
<1>2. /\ CompareDisplay(p) \subseteq Monitors
      /\ CompareServices(p) \subseteq Services
  BY DEF CompareDisplay, CompareServices, IsProfile
<1>3. CompareSettings(p) \subseteq Settings
  BY DEF CompareSettings, IsProfile, CapturedSettings
<1>4. QED
  BY <1>1, <1>2, <1>3, ThingsApart DEF Differences

\* What was put right does not drift, and a display that could do better has its fix.
LEMMA ReachedHolds == ASSUME ClubProfileAssumption, ProfileInv PROVE ProfileReached
<1> SUFFICES ASSUME UpToDate PROVE ProfileReached
  BY DEF ProfileReached, Reached
<1>1. PICK p \in file : /\ IsProfile(p) /\ fixes = Fixes(p) /\ Drifted = Differences(p)
  BY ShownIs
<1>2. scanned = here
  BY ShownIs
<1>3. ASSUME NEW s \in reached \cap Settings PROVE s \notin Drifted
  <2>1. /\ s \in DOMAIN CapturedSettings(ref)
        /\ here.registry[s] = CapturedSettings(ref)[s]
    BY DEF ProfileInv, ReachedInv
  <2>2. CurrentKey(s, here) = p.settings[s]
    BY <1>1, <2>1, CapturedOptions, OptionInForce DEF IsProfile
  <2>3. QED
    BY <1>1, <2>2, DriftedParts DEF CompareSettings, ProfileInv
<1>4. ASSUME NEW m \in reached \cap Monitors PROVE ~Slow(here, m)
  <2>1. here.rate[m] = Best[m] /\ Best[m] \in Nat
    BY DEF ProfileInv, ReachedInv, ClubProfileAssumption
  <2>2. QED
    BY <2>1 DEF Slow
<1>5. ASSUME NEW m \in Monitors \cap Drifted, Slow(here, m) PROVE m \in fixes
  <2>1. m \in CompareDisplay(p)
    BY <1>1, DriftedParts DEF ProfileInv
  <2>2. QED
    BY <1>1, <1>2, <1>5, <2>1 DEF CompareDisplay, Fixes, DisplayFixes
<1>6. QED
  BY <1>3, <1>4, <1>5 DEF ProfileReached, Reached

\* A figure that is read is at least the whole gigabytes that were captured of a PC
\* that has no more of it.
LEMMA NotBelow ==
  ASSUME NEW s \in {"ram", "vram", "cores"}, NEW r \in Figures, NEW f \in Figures, f >= r,
         NEW w \in Demanded(s, r)
  PROVE  ~Below(s, f, w)
<1>1. r \in Nat /\ f \in Nat /\ w = (IF s = "cores" THEN r ELSE r \div 4)
  BY DEF Figures, Unread, Demanded, WholeGigabytes
<1>2. w \in Nat /\ (s # "cores" => 4 * w <= r) /\ (s = "cores" => w = r)
  BY <1>1
<1>3. QED
  BY <1>1, <1>2 DEF Below

\* A PC whose settings agree with those of the reference, as far as either can be read,
\* drifts at most in what is left to a driver that could not be asked.
LEMMA AgreeingSettings ==
  ASSUME ClubProfileAssumption, NEW p, IsProfile(p), AtLeastRef
  PROVE  CompareSettings(p) \subseteq LeftToUnasked
<1> SUFFICES ASSUME NEW s \in CompareSettings(p) PROVE s \in LeftToUnasked
  OBVIOUS
<1>1. /\ s \in Settings /\ Readable(s, ref) /\ Readable(s, here)
      /\ Available(s, ref) /\ Available(s, here)
      /\ CurrentKey(s, ref) # NoKey /\ CurrentKey(s, here) # CurrentKey(s, ref)
  BY DEF CompareSettings, IsProfile, CapturedSettings
<1>2. here.registry[s] = ref.registry[s]
  BY <1>1 DEF AtLeastRef, Agrees, Readable
<1>3. s = "hags"
  BY <1>1, <1>2 DEF CurrentKey
<1>4. SETTINGS[s].absent \notin SETTINGS[s].options
  BY <1>3 DEF SETTINGS, SettingSpec, Switch
<1>5. here.registry[s] = "absent" /\ ref.driver \in Switch /\ here.driver # ref.driver
  BY <1>1, <1>2, <1>3, <1>4 DEF CurrentKey
<1>6. here.driver = "unasked"
  BY <1>5 DEF AtLeastRef, Agrees, Switch
<1>7. QED
  BY <1>1, <1>3, <1>5, <1>6 DEF LeftToUnasked

\* A display drifts from what was captured only where the reference could not be seen
\* to have it at its best.
LEMMA AgreeingDisplays ==
  ASSUME ClubProfileAssumption, IsPC(ref), IsPC(here), scanned = here, AtLeastRef,
         NEW m \in CompareDisplay(Captured(ref))
  PROVE  m \in ShortOfClub
<1>1. /\ m \in Monitors /\ Best[m] \in Nat
      /\ here.rate[m] \in Nat \cup {Unread} /\ ref.rate[m] \in Nat \cup {Unread}
  BY DEF CompareDisplay, ClubProfileAssumption, IsPC
<1>2. here.rate[m] # Unread /\ (here.rate[m] < Best[m] \/ here.rate[m] < 0)
  BY DEF CompareDisplay, Slow, BelowLeast, Captured
<1>3. here.rate[m] = ref.rate[m] \/ ref.rate[m] = Unread
  BY <1>1, <1>2 DEF AtLeastRef, Agrees
<1>4. ref.rate[m] < Best[m]
  BY <1>1, <1>2, <1>3 DEF Unread
<1>5. QED
  BY <1>1, <1>4 DEF ShortOfClub

\* So does a figure or a name, free space apart, in none.
LEMMA AgreeingHardware ==
  ASSUME ClubProfileAssumption, ProfileInv, scanned = here, AtLeastRef
  PROVE  CompareHardware(Captured(ref)) \subseteq ShortOfClub
<1> DEFINE p == Captured(ref)
<1>1. p.figure = Demanded(section, ref.figure) /\ p.name \subseteq {n \in {ref.name} : n # ""}
  BY DEF Captured
<1> HIDE DEF p
<1>2. CASE section \in Numbers
  <2>1. here.figure \in Figures /\ ref.figure \in Figures
    BY <1>2, PCsAre DEF ProfileInv, ProfileTypes, FigureInv
  <2>2. here.figure # Unread => here.figure >= ref.figure
    BY DEF AtLeastRef
  <2>3. CASE section = "free"
    <3>1. here.figure # Unread /\ here.figure < 20 => ref.figure < 20
      BY <2>1, <2>2 DEF Figures, Unread
    <3>2. CompareHardware(p) \subseteq
            {s \in {"free"} : here.figure # Unread /\ here.figure < 20}
      BY <1>1, <2>3 DEF CompareHardware, Demanded, Below, Numbers
    <3>3. QED
      BY <2>3, <3>1, <3>2 DEF ShortOfClub, p
  <2>4. CASE section # "free"
    <3>1. section \in {"ram", "vram", "cores"}
      BY <1>2, <2>4 DEF Numbers
    <3>2. CompareHardware(p) = {}
      BY <1>1, <1>2, <2>1, <2>2, <3>1, NotBelow DEF CompareHardware
    <3>3. QED
      BY <3>2 DEF p
  <2>5. QED
    BY <2>3, <2>4
<1>3. CASE section \notin Numbers
  <2>1. CompareHardware(p) = {}
    BY <1>1, <1>3 DEF CompareHardware, AtLeastRef, Agrees
  <2>2. QED
    BY <2>1 DEF p
<1>4. QED
  BY <1>2, <1>3

\* A PC that agrees with the reference drifts in none of the parts of a comparison but
\* for what the reference falls short of, and a driver that could not be asked.
LEMMA AcceptableHolds == ASSUME ClubProfileAssumption, ProfileInv PROVE ReferenceAcceptable
<1> SUFFICES ASSUME UpToDate, AtLeastRef, file = {Captured(ref)}
             PROVE  Drifted \subseteq ShortOfClub \cup LeftToUnasked
  BY DEF ReferenceAcceptable
<1> DEFINE p == Captured(ref)
<1>1. IsProfile(p) /\ Drifted = Differences(p) /\ scanned = here
  BY ShownIs
<1>2. IsPC(ref) /\ IsPC(here)
  BY PCsAre DEF ProfileInv, ProfileTypes
<1>3. CompareSettings(p) \subseteq LeftToUnasked
  BY <1>1, AgreeingSettings
<1>4. ComparePower(p) = {}
  <2>1. p.scheme \subseteq {ref.scheme} \ {"unread"}
    BY DEF Captured
  <2>2. QED
    BY <2>1 DEF ComparePower, AtLeastRef, Agrees
<1>5. CompareDisplay(p) \subseteq ShortOfClub
  BY <1>1, <1>2, AgreeingDisplays
<1>6. CompareServices(p) = {}
  <2>1. p.services = << >>
    BY DEF Captured
  <2>2. QED
    BY <2>1 DEF CompareServices
<1>7. CompareHardware(p) \subseteq ShortOfClub
  BY <1>1, AgreeingHardware
<1>8. QED
  BY <1>1, <1>3, <1>4, <1>5, <1>6, <1>7 DEF Differences

\* Every step keeps the strengthening.
LEMMA ProfileStep ==
  ASSUME ClubProfileAssumption, ProfileInv, [ProfileNext]_profileVars
  PROVE  ProfileInv'
<1>1. CASE ProfileNext
  BY <1>1, SaveStep, EditStep, CompareStep, FixStep, LookAwayStep, OtherMovesStep
    DEF ProfileNext
<1>2. CASE UNCHANGED profileVars
  <2>1. UNCHANGED <<section, ref, here, scanned, file, result, fixes, reached, stale>>
    BY <1>2 DEF profileVars
  <2>2. (ProfileTypes /\ FileInv)'
    BY <2>1, UnchangedTypes DEF ProfileInv, ProfileTypes
  <2>3. (ShownInv /\ FigureInv /\ FixesInv /\ ReachedInv)'
    <3>1. \A p \in file : Differences(p)' = Differences(p) /\ Fixes(p)' = Fixes(p)
      BY <2>1 DEF Differences, CompareHardware, ComparePower, CompareDisplay, CompareSettings,
        CompareServices, Fixes, DisplayFixes, Slow, BelowLeast, Below
    <3>2. ShownInv'
      BY <2>1, <3>1 DEF ProfileInv, ShownInv, UpToDate
    <3>3. QED
      BY <2>1, <3>2, SameReference DEF ProfileInv, FigureInv, FixesInv, ReachedInv
  <2>4. QED
    BY <2>2, <2>3 DEF ProfileInv
<1>3. QED
  BY <1>1, <1>2

\* The strengthening holds throughout.
LEMMA ProfileInvariant == ASSUME ClubProfileAssumption PROVE ProfileSpec => []ProfileInv
<1>1. ProfileInit => ProfileInv
  BY ProfileStart
<1>2. ProfileInv /\ [ProfileNext]_profileVars => ProfileInv'
  BY ProfileStep
<1>3. QED
  BY <1>1, <1>2, PTL DEF ProfileSpec

\* A PC that is what the reference PC is, or has more of what is counted, as far as
\* either could be read, shows no drift against the profile captured from it, for any
\* settings, schemes and displays; but for the free space and the best rate the
\* reference itself does not have, and HAGS where the driver could not be asked
\* (core/profiles/golden.py, capture and compare; settings_drift.py).
THEOREM ReferenceAlwaysAcceptable ==
  ASSUME ClubProfileAssumption PROVE ProfileSpec => []ReferenceAcceptable
<1>1. ProfileInv => ReferenceAcceptable
  BY AcceptableHolds
<1>2. QED
  BY <1>1, ProfileInvariant, PTL

\* What a fix put right without a failure does not drift when the PC is scanned and
\* compared again, and every display that could do better is offered one
\* (core/profiles/golden.py, settings_drift.py, fixes.py).
THEOREM FixesReachProfile ==
  ASSUME ClubProfileAssumption PROVE ProfileSpec => []ProfileReached
<1>1. ProfileInv => ProfileReached
  BY ReachedHolds
<1>2. QED
  BY <1>1, ProfileInvariant, PTL

-----------------------------------------------------------------------------
(* Scoring.                                                                 *)

\* The lists, one by one.
LEMMA GradesOf ==
  /\ Readings = {"cpu", "ram", "free", "media", "smart", "vram", "temperature", "throttling",
       "below", "warnings", "kind", "speed", "duplex", "path", "gateway", "router",
       "router_loss", "router_delay", "internet", "loss", "jitter", "delay"}
  /\ Grades["cpu"] = <<96, 80, 40, 0>> /\ Grades["ram"] = <<95, 85, 60, 40>>
  /\ Grades["free"] = <<3, 8, 15, 25>> /\ Grades["media"] = <<"HDD", "SSD">>
  /\ Grades["smart"] = <<"bad", "good">> /\ Grades["vram"] = <<4, 8>>
  /\ Grades["temperature"] = <<"critical", "warning", "fine">>
  /\ Grades["throttling"] = <<"thermal", "power", "none">>
  /\ Grades["below"] = <<2, 1, 0>> /\ Grades["warnings"] = <<5, 2, 0>>
  /\ Grades["kind"] = <<"WIRELESS", "WIRED">> /\ Grades["speed"] = <<100, 1000>>
  /\ Grades["duplex"] = <<"half", "full">> /\ Grades["path"] = <<"none", "tunnel", "card">>
  /\ Grades["gateway"] = <<"none", "there">>
  /\ Grades["router"] = <<"untrusted", "silent", "replies">>
  /\ Grades["router_loss"] = <<40, 4, 0>> /\ Grades["router_delay"] = <<30, 2>>
  /\ Grades["internet"] = <<"untrusted", "silent", "replies">>
  /\ Grades["loss"] = <<40, 4, 0>> /\ Grades["jitter"] = <<30, 3>>
  /\ Grades["delay"] = <<200, 20>>
BY DEF Readings, Grades

LEMMA GradesLen ==
  /\ \A f \in {"cpu", "ram", "free"} : Len(Grades[f]) = 4
  /\ \A f \in {"temperature", "throttling", "below", "warnings", "path", "router",
               "router_loss", "internet", "loss"} : Len(Grades[f]) = 3
  /\ \A f \in {"media", "smart", "vram", "kind", "speed", "duplex", "gateway",
               "router_delay", "jitter", "delay"} : Len(Grades[f]) = 2
<1>1. /\ \A a, b : Len(<<a, b>>) = 2
      /\ \A a, b, c : Len(<<a, b, c>>) = 3
      /\ \A a, b, c, d : Len(<<a, b, c, d>>) = 4
  OBVIOUS
<1>2. \A f \in {"cpu", "ram", "free"} : \E a, b, c, d : Grades[f] = <<a, b, c, d>>
  BY GradesOf
<1>3. \A f \in {"temperature", "throttling", "below", "warnings", "path", "router",
                "router_loss", "internet", "loss"} : \E a, b, c : Grades[f] = <<a, b, c>>
  BY GradesOf
<1>4. \A f \in {"media", "smart", "vram", "kind", "speed", "duplex", "gateway",
                "router_delay", "jitter", "delay"} : \E a, b : Grades[f] = <<a, b>>
  BY GradesOf
<1>5. QED
  BY <1>1, <1>2, <1>3, <1>4

\* Every reading is one that it may have: what is always read has a grade.
GradedScan(s) ==
  /\ DOMAIN s = Readings /\ s = [f \in Readings |-> s[f]]
  /\ \A f \in Readings : s[f] \in ReadingsOf(f)

LEMMA UsualGraded == \A f \in Readings : Usual[f] \in ReadingsOf(f)
<1>1. \A f \in Readings : Len(Grades[f]) \in {2, 3, 4}
  BY GradesOf, GradesLen
<1>2. \A f \in Readings : Usual[f] \in 1..Len(Grades[f])
  <2>1. Len(Grades["ram"]) = 4
    BY GradesLen
  <2>2. QED
    BY <1>1, <2>1 DEF Usual
<1>3. QED
  BY <1>2 DEF ReadingsOf

\* Nothing is sent where there is no gateway, or no route.
Unsent(s) ==
  /\ ~Uplink(s) => s["router"] = NotRead
  /\ Is(s, "path", "none") => s["internet"] = NotRead

GradedInv ==
  /\ GradedScan(before) /\ Unsent(before)
  /\ \A t \in after : GradedScan(t)

LEMMA MeasuredGraded ==
  ASSUME NEW s, GradedScan(s) PROVE GradedScan(Measured(s)) /\ Unsent(Measured(s))
<1> DEFINE there == IF s["kind"] = NotRead THEN [s EXCEPT !["gateway"] = 1] ELSE s
           silent == s["cpu"] # NotRead /\ s["ram"] # NotRead
           m == Measured(s)
<1>1. m = [f \in Readings |->
        IF \/ f = "internet" /\ Is(there, "path", "none")
           \/ f = "router" /\ Is(there, "gateway", "none")
        THEN NotRead
        ELSE IF f = "warnings" /\ Is(there, f, 0) /\ ~silent THEN there[f] - 1
        ELSE there[f]]
  BY DEF Measured
<1>2. /\ \A f \in Readings : there[f] \in ReadingsOf(f)
      /\ \A f \in Readings \ {"gateway"} : there[f] = s[f]
      /\ s["kind"] = NotRead => Is(there, "gateway", "none")
  <2>1. 1 \in ReadingsOf("gateway") /\ Grades["gateway"][1] = "none"
    BY GradesOf, GradesLen DEF ReadingsOf
  <2>2. QED
    BY <2>1, GradesOf DEF GradedScan, Is, NotRead
<1>3. Is(there, "warnings", 0) => there["warnings"] - 1 \in ReadingsOf("warnings")
  <2>1. there["warnings"] \in 1..3
    <3>1. ReadingsOf("warnings") = 1..3
      BY GradesLen DEF ReadingsOf, AlwaysRead
    <3>2. QED
      BY <1>2, <3>1, GradesOf
  <2>2. Is(there, "warnings", 0) => there["warnings"] = 3
    BY <2>1, GradesOf DEF Is
  <2>3. QED
    BY <2>2, GradesOf, GradesLen DEF ReadingsOf
<1> HIDE DEF there, silent, m
<1>4. ASSUME NEW f \in Readings PROVE m[f] \in ReadingsOf(f)
  <2>1. NotRead \in ReadingsOf("internet") /\ NotRead \in ReadingsOf("router")
    BY DEF ReadingsOf, AlwaysRead
  <2>2. QED
    BY <1>1, <1>2, <1>3, <2>1
<1>5. GradedScan(m)
  BY <1>1, <1>4 DEF GradedScan
<1>6. /\ m["kind"] = s["kind"] /\ m["path"] = there["path"]
      /\ Is(there, "path", "none") => m["internet"] = NotRead
      /\ Is(there, "gateway", "none") => m["router"] = NotRead
  BY <1>1, <1>2, GradesOf
<1>7. Unsent(m)
  BY <1>2, <1>6 DEF Unsent, Uplink, Is
<1>8. QED
  BY <1>5, <1>7 DEF m

LEMMA GradedStart == ScoringAssumption /\ ScoreInit => GradedInv
<1> SUFFICES ASSUME ScoringAssumption, ScoreInit PROVE GradedInv
  OBVIOUS
<1>1. PICK v \in {w \in [studied -> 0..4] : \A f \in studied : w[f] \in ReadingsOf(f)} :
        before = Measured([f \in Readings |-> IF f \in studied THEN v[f] ELSE Usual[f]])
  BY DEF ScoreInit
<1> DEFINE s == [f \in Readings |-> IF f \in studied THEN v[f] ELSE Usual[f]]
<1>2. \A f \in Readings : s[f] \in ReadingsOf(f)
  BY UsualGraded
<1>3. GradedScan(s)
  BY <1>2 DEF GradedScan
<1>4. QED
  BY <1>1, <1>3, MeasuredGraded DEF ScoreInit, GradedInv

LEMMA GradedStep == GradedInv /\ [ScoreNext]_scoreVars => GradedInv'
<1> SUFFICES ASSUME GradedInv, ScoreNext PROVE GradedInv'
  BY DEF GradedInv, GradedScan, Unsent, Uplink, Is, scoreVars
<1>0. PICK f \in Readings :
        \E v \in ReadingsOf(f) : after' = {Measured([before EXCEPT ![f] = v])}
  BY DEF ScoreNext, MeasureAgain
<1>1. PICK v \in ReadingsOf(f) : after' = {Measured([before EXCEPT ![f] = v])}
  BY <1>0
<1> DEFINE s == [before EXCEPT ![f] = v]
<1>3. GradedScan(s)
  BY DEF GradedInv, GradedScan
<1>4. after' = {Measured(s)} /\ before' = before /\ GradedScan(Measured(s))
  BY <1>1, <1>3, MeasuredGraded DEF ScoreNext, MeasureAgain
<1> HIDE DEF s
<1>5. QED
  BY <1>4 DEF GradedInv, GradedScan, Unsent, Uplink, Is

\* What is said of a scan that lost readings was said before they were lost.
LEMMA SaidBefore ==
  ASSUME NEW s, NEW t, GradedScan(s), GradedScan(t), OnlyLost(s, t), s["kind"] = t["kind"]
  PROVE  Issues(t) \subseteq Issues(s) \cup {"scan_warning"}
<1>1. ASSUME NEW f \in Readings \ {"warnings"}, NEW value, Is(t, f, value) PROVE Is(s, f, value)
  BY <1>1 DEF Is, OnlyLost
<1>2. ASSUME NEW f \in Readings \ {"warnings"}, NEW limit, Over(t, f, limit)
      PROVE  Over(s, f, limit)
  BY <1>2 DEF Over, Value, OnlyLost
<1>3. /\ {"temperature", "throttling", "free", "smart", "below", "ram", "kind", "path", "gateway",
          "router", "internet", "loss", "jitter", "delay", "speed", "duplex", "router_loss",
          "router_delay"} \subseteq Readings \ {"warnings"}
  BY DEF Readings, Grades
<1>4. t["path"] = s["path"] /\ t["throttling"] = s["throttling"]
  <2>1. NotRead \notin ReadingsOf("path") /\ NotRead \notin ReadingsOf("throttling")
    BY GradesLen DEF ReadingsOf, AlwaysRead, NotRead
  <2>2. QED
    BY <1>3, <2>1 DEF GradedScan, OnlyLost
<1>5. HardwareIssues(t) \subseteq HardwareIssues(s) \cup {"scan_warning"}
  <2>1. ~Is(t, "throttling", "none") => ~Is(s, "throttling", "none")
    BY <1>4 DEF Is
  <2>2. LowSpace(t) => LowSpace(s)
    BY <1>3 DEF LowSpace, OnlyLost, Value
  <2>3. \A v : Is(t, "temperature", v) => Is(s, "temperature", v)
    BY <1>1, <1>3
  <2>4. Is(t, "smart", "bad") => Is(s, "smart", "bad")
    BY <1>1, <1>3
  <2>5. (Over(t, "below", 0) => Over(s, "below", 0)) /\ (Over(t, "ram", 84) => Over(s, "ram", 84))
    BY <1>2, <1>3
  <2>6. QED
    BY <2>1, <2>2, <2>3, <2>4, <2>5 DEF HardwareIssues
<1>6. ConnectionIssues(t) \subseteq ConnectionIssues(s)
  <2>1. \A v : \A f \in {"path", "gateway", "kind", "duplex", "internet", "speed"} :
          Is(t, f, v) => Is(s, f, v)
    BY <1>1, <1>3
  <2>2. /\ Trusted(t, "router") => Trusted(s, "router")
        /\ Trusted(t, "internet") => Trusted(s, "internet")
        /\ SlowCable(t) => SlowCable(s)
    BY <1>1, <1>3 DEF Trusted, SlowCable
  <2>3. Uplink(t) = Uplink(s) /\ RouterLimit(t) = RouterLimit(s)
    BY DEF Uplink, RouterLimit, Is
  <2>4. \A n : \A f \in {"router_loss", "router_delay", "loss", "jitter", "delay"} :
          Over(t, f, n) => Over(s, f, n)
    BY <1>2, <1>3
  <2>5. QED
    BY <2>1, <2>2, <2>3, <2>4 DEF ConnectionIssues
<1>7. Connected(t) <=> Connected(s)
  BY <1>4 DEF Connected, Uplink, Is
<1>8. QED
  BY <1>5, <1>6, <1>7 DEF Issues, NetworkIssues

\* compute_findings: when a reading can no longer be taken, for any readings studied
\* together, no finding appears that was not there before, but the one that says that
\* something could not be read.
THEOREM AbsenceNeverEvidence == ScoringAssumption /\ ScoreSpec => []AbsenceNoEvidence
<1>1. ScoringAssumption /\ ScoreInit => GradedInv
  BY GradedStart
<1>2. GradedInv /\ [ScoreNext]_scoreVars => GradedInv'
  BY GradedStep
<1>3. GradedInv => AbsenceNoEvidence
  BY SaidBefore DEF GradedInv, AbsenceNoEvidence
<1>4. QED
  BY <1>1, <1>2, <1>3, PTL DEF ScoreSpec

\* t is read as s is, and is at least as good.
NotWorse(s, t) == GradedScan(s) /\ GradedScan(t) /\ SameRead(s, t) /\ Better(s, t)

LEMMA ReadAlike ==
  ASSUME NEW s, NEW t, NotWorse(s, t), NEW f \in Readings, s[f] # NotRead
  PROVE  s[f] \in 1..Len(Grades[f]) /\ t[f] \in 1..Len(Grades[f]) /\ s[f] <= t[f]
BY DEF NotWorse, GradedScan, SameRead, Better, ReadingsOf, NotRead

\* Two places in a list, the second no earlier.
NoEarlier(i, j, length) == i \in 1..length /\ j \in 1..length /\ i <= j

LEMMA PlacesRead ==
  ASSUME NEW s, NEW t, NotWorse(s, t), NEW f \in Readings, s[f] # NotRead
  PROVE  /\ f \in {"cpu", "ram", "free"} => NoEarlier(s[f], t[f], 4)
         /\ f \in {"temperature", "throttling", "below", "warnings", "path", "router_loss",
                   "loss"} => NoEarlier(s[f], t[f], 3)
         /\ f \in {"media", "smart", "vram", "kind", "speed", "duplex", "jitter", "delay"} =>
              NoEarlier(s[f], t[f], 2)
BY ReadAlike, GradesLen DEF NoEarlier

\* What is at a place of a list whose numbers fall.
LEMMA Fall4 ==
  ASSUME NEW a \in Nat, NEW b \in Nat, NEW c \in Nat, NEW d \in Nat, a >= b, b >= c, c >= d,
         NEW i, NEW j, NoEarlier(i, j, 4)
  PROVE  LET l == <<a, b, c, d>> IN l[i] \in Nat /\ l[j] \in Nat /\ l[j] <= l[i]
<1>1. i \in {1, 2, 3, 4} /\ j \in {1, 2, 3, 4} /\ i <= j
  BY DEF NoEarlier
<1>2. QED
  BY <1>1

LEMMA Fall3 ==
  ASSUME NEW a \in Nat, NEW b \in Nat, NEW c \in Nat, a >= b, b >= c,
         NEW i, NEW j, NoEarlier(i, j, 3)
  PROVE  LET l == <<a, b, c>> IN l[i] \in Nat /\ l[j] \in Nat /\ l[j] <= l[i]
<1>1. i \in {1, 2, 3} /\ j \in {1, 2, 3} /\ i <= j
  BY DEF NoEarlier
<1>2. QED
  BY <1>1

LEMMA Fall2 ==
  ASSUME NEW a \in Nat, NEW b \in Nat, a >= b, NEW i, NEW j, NoEarlier(i, j, 2)
  PROVE  LET l == <<a, b>> IN l[i] \in Nat /\ l[j] \in Nat /\ l[j] <= l[i]
<1>1. i \in {1, 2} /\ j \in {1, 2} /\ i <= j
  BY DEF NoEarlier
<1>2. QED
  BY <1>1

\* The lists run from the worst to the best: where less is better, a better reading
\* is not more ...
LEMMA NotMore ==
  ASSUME NEW s, NEW t, NotWorse(s, t),
         NEW f \in {"cpu", "ram", "below", "warnings", "router_loss", "loss", "jitter", "delay"},
         s[f] # NotRead
  PROVE  Value(s, f) \in Nat /\ Value(t, f) \in Nat /\ Value(t, f) <= Value(s, f)
<1>0. f \in Readings
  BY GradesOf
<1>1. CASE f = "cpu"
  <2>1. NoEarlier(s[f], t[f], 4) /\ Grades[f] = <<96, 80, 40, 0>>
    BY <1>0, <1>1, PlacesRead, GradesOf
  <2>2. QED
    BY <2>1, Fall4 DEF Value
<1>2. CASE f = "ram"
  <2>1. NoEarlier(s[f], t[f], 4) /\ Grades[f] = <<95, 85, 60, 40>>
    BY <1>0, <1>2, PlacesRead, GradesOf
  <2>2. QED
    BY <2>1, Fall4 DEF Value
<1>3. CASE f \in {"below", "warnings", "router_loss", "loss"}
  <2>1. /\ NoEarlier(s[f], t[f], 3)
        /\ \/ Grades[f] = <<2, 1, 0>> \/ Grades[f] = <<5, 2, 0>> \/ Grades[f] = <<40, 4, 0>>
    BY <1>0, <1>3, PlacesRead, GradesOf
  <2>2. QED
    BY <2>1, Fall3 DEF Value
<1>4. CASE f \in {"jitter", "delay"}
  <2>1. /\ NoEarlier(s[f], t[f], 2)
        /\ Grades[f] = <<30, 3>> \/ Grades[f] = <<200, 20>>
    BY <1>0, <1>4, PlacesRead, GradesOf
  <2>2. QED
    BY <2>1, Fall2 DEF Value
<1>5. QED
  BY <1>1, <1>2, <1>3, <1>4

\* ... and where more is better, not less.
LEMMA NotLess ==
  ASSUME NEW s, NEW t, NotWorse(s, t), NEW f \in {"free", "vram"}, s[f] # NotRead
  PROVE  Value(s, f) \in Nat /\ Value(t, f) \in Nat /\ Value(s, f) <= Value(t, f)
<1>0. f \in Readings
  BY GradesOf
<1>1. CASE f = "free"
  <2>1. NoEarlier(s[f], t[f], 4) /\ Grades[f] = <<3, 8, 15, 25>>
    BY <1>0, <1>1, PlacesRead, GradesOf
  <2>2. s[f] \in {1, 2, 3, 4} /\ t[f] \in {1, 2, 3, 4} /\ s[f] <= t[f]
    BY <2>1 DEF NoEarlier
  <2>3. QED
    BY <2>1, <2>2 DEF Value
<1>2. CASE f = "vram"
  <2>1. NoEarlier(s[f], t[f], 2) /\ Grades[f] = <<4, 8>>
    BY <1>0, <1>2, PlacesRead, GradesOf
  <2>2. s[f] \in {1, 2} /\ t[f] \in {1, 2} /\ s[f] <= t[f]
    BY <2>1 DEF NoEarlier
  <2>3. QED
    BY <2>1, <2>2 DEF Value
<1>3. QED
  BY <1>1, <1>2

\* What is at its worst in the better scan was so in the other.
LEMMA WasWorst ==
  ASSUME NEW s, NEW t, NotWorse(s, t)
  PROVE  /\ Is(t, "media", "HDD") => Is(s, "media", "HDD")
         /\ Is(t, "smart", "bad") => Is(s, "smart", "bad")
         /\ Is(t, "kind", "WIRELESS") => Is(s, "kind", "WIRELESS")
         /\ Is(t, "speed", 100) => Is(s, "speed", 100)
         /\ Is(t, "duplex", "half") => Is(s, "duplex", "half")
         /\ Is(t, "path", "none") => Is(s, "path", "none")
         /\ Is(t, "kind", "WIRED") => Is(s, "kind", "WIRED") \/ Is(s, "kind", "WIRELESS")
<1>1. ASSUME NEW f \in {"media", "smart", "kind", "speed", "duplex"}, t[f] # NotRead
      PROVE  s[f] # NotRead /\ s[f] \in {1, 2} /\ t[f] \in {1, 2} /\ s[f] <= t[f]
  <2>1. f \in Readings
    BY GradesOf
  <2>2. s[f] # NotRead /\ NoEarlier(s[f], t[f], 2)
    BY <1>1, <2>1, PlacesRead DEF NotWorse, SameRead
  <2>3. QED
    BY <2>2 DEF NoEarlier
<1>2. t["path"] # NotRead => /\ s["path"] # NotRead /\ s["path"] \in {1, 2, 3}
                             /\ t["path"] \in {1, 2, 3} /\ s["path"] <= t["path"]
  <2>1. t["path"] # NotRead => s["path"] # NotRead /\ NoEarlier(s["path"], t["path"], 3)
    BY PlacesRead, GradesOf DEF NotWorse, SameRead
  <2>2. QED
    BY <2>1 DEF NoEarlier
<1>3. Is(t, "path", "none") => Is(s, "path", "none")
  BY <1>2, GradesOf DEF Is
<1>4. /\ Is(t, "media", "HDD") => Is(s, "media", "HDD")
      /\ Is(t, "smart", "bad") => Is(s, "smart", "bad")
  BY <1>1, GradesOf DEF Is
<1>5. /\ Is(t, "speed", 100) => Is(s, "speed", 100)
      /\ Is(t, "duplex", "half") => Is(s, "duplex", "half")
  BY <1>1, GradesOf DEF Is
<1>6. /\ Is(t, "kind", "WIRELESS") => Is(s, "kind", "WIRELESS")
      /\ Is(t, "kind", "WIRED") => Is(s, "kind", "WIRED") \/ Is(s, "kind", "WIRELESS")
  BY <1>1, GradesOf DEF Is
<1>7. QED
  BY <1>3, <1>4, <1>5, <1>6

\* The score of each component, where both scans measure it.
LEMMA CpuMonotone ==
  ASSUME NEW s, NEW t, NotWorse(s, t), s["cpu"] # NotRead
  PROVE  ScoreCpu(s) \in Nat /\ ScoreCpu(t) \in Nat /\ ScoreCpu(s) <= ScoreCpu(t)
BY NotMore, GradesOf DEF ScoreCpu, Clamp

LEMMA RamMonotone ==
  ASSUME NEW s, NEW t, NotWorse(s, t), s["ram"] # NotRead
  PROVE  ScoreRam(s) \in Nat /\ ScoreRam(t) \in Nat /\ ScoreRam(s) <= ScoreRam(t)
BY NotMore, GradesOf DEF ScoreRam, Clamp

LEMMA StorageMonotone ==
  ASSUME NEW s, NEW t, NotWorse(s, t), s["free"] # NotRead
  PROVE  /\ ScoreStorage(s) \in Nat /\ ScoreStorage(t) \in Nat
         /\ ScoreStorage(s) <= ScoreStorage(t)
<1>1. /\ Value(s, "free") \in Nat /\ Value(t, "free") \in Nat
      /\ Value(s, "free") <= Value(t, "free")
  BY NotLess
<1>2. QED
  BY <1>1, WasWorst DEF ScoreStorage, Clamp, HddCapped, AtMost

LEMMA DisplayMonotone ==
  ASSUME NEW s, NEW t, NotWorse(s, t)
  PROVE  /\ ScoreDisplay(s) \in Nat /\ ScoreDisplay(t) \in Nat
         /\ ScoreDisplay(s) <= ScoreDisplay(t)
<1>1. (s["below"] = NotRead) = (t["below"] = NotRead)
  BY GradesOf DEF NotWorse, SameRead
<1>2. CASE s["below"] = NotRead
  BY <1>1, <1>2 DEF ScoreDisplay
<1>3. CASE s["below"] # NotRead
  <2>1. /\ Value(s, "below") \in Nat /\ Value(t, "below") \in Nat
        /\ Value(t, "below") <= Value(s, "below")
    BY <1>3, NotMore, GradesOf
  <2>2. QED
    BY <1>1, <1>3, <2>1 DEF ScoreDisplay, Clamp
<1>4. QED
  BY <1>2, <1>3

LEMMA SystemMonotone ==
  ASSUME NEW s, NEW t, NotWorse(s, t)
  PROVE  /\ ScoreSystem(s) \in Nat /\ ScoreSystem(t) \in Nat
         /\ ScoreSystem(s) <= ScoreSystem(t)
<1>1. s["warnings"] # NotRead
  BY GradesOf, GradesLen DEF NotWorse, GradedScan, ReadingsOf, AlwaysRead, NotRead
<1>2. /\ Value(s, "warnings") \in Nat /\ Value(t, "warnings") \in Nat
      /\ Value(t, "warnings") <= Value(s, "warnings")
  BY <1>1, NotMore, GradesOf
<1>3. QED
  BY <1>2 DEF ScoreSystem, Clamp

LEMMA GpuMonotone ==
  ASSUME NEW s, NEW t, NotWorse(s, t), s["vram"] # NotRead
  PROVE  ScoreGpu(s) \in Nat /\ ScoreGpu(t) \in Nat /\ ScoreGpu(s) <= ScoreGpu(t)
<1>1. /\ Value(s, "vram") \in Nat /\ Value(t, "vram") \in Nat
      /\ Value(s, "vram") <= Value(t, "vram")
  BY NotLess
<1>2. ASSUME NEW f \in {"temperature", "throttling"}, t[f] # NotRead
      PROVE  s[f] # NotRead /\ s[f] \in {1, 2, 3} /\ t[f] \in {1, 2, 3} /\ s[f] <= t[f]
  <2>1. f \in Readings
    BY GradesOf
  <2>2. s[f] # NotRead /\ NoEarlier(s[f], t[f], 3)
    BY <1>2, <2>1, PlacesRead DEF NotWorse, SameRead
  <2>3. QED
    BY <2>2 DEF NoEarlier
<1>3. Heat(s) \in {80, 240, 400} /\ Heat(t) \in {80, 240, 400} /\ Heat(s) <= Heat(t)
  <2>1. (s["temperature"] = NotRead) = (t["temperature"] = NotRead)
    BY GradesOf DEF NotWorse, SameRead
  <2>2. CASE t["temperature"] = NotRead
    BY <2>1, <2>2 DEF Heat, Is
  <2>3. CASE t["temperature"] # NotRead
    BY <1>2, <2>1, <2>3, GradesOf DEF Heat, Is
  <2>4. QED
    BY <2>2, <2>3
<1>4. /\ Throttle(s) \in {100, 280, 400} /\ Throttle(t) \in {100, 280, 400}
      /\ Throttle(s) <= Throttle(t)
  <2>1. (s["throttling"] = NotRead) = (t["throttling"] = NotRead)
    BY GradesOf DEF NotWorse, SameRead
  <2>2. CASE t["throttling"] = NotRead
    BY <2>1, <2>2 DEF Throttle, Is
  <2>3. CASE t["throttling"] # NotRead
    BY <1>2, <2>1, <2>3, GradesOf DEF Throttle, Is
  <2>4. QED
    BY <2>2, <2>3
<1>5. QED
  BY <1>1, <1>3, <1>4 DEF ScoreGpu, AtMost, Clamp

\* What is taken off for pings.
LEMMA PenaltyMonotone ==
  ASSUME NEW s, NEW t, NotWorse(s, t), NEW f \in {"router_loss", "loss", "jitter", "delay"},
         NEW free \in {0, 5, 50}, NEW each \in {2, 8, 12}, NEW cap \in {120, 240}
  PROVE  /\ Penalty(s, f, free, each, cap) \in Nat /\ Penalty(t, f, free, each, cap) \in Nat
         /\ Penalty(t, f, free, each, cap) <= Penalty(s, f, free, each, cap)
<1>1. (s[f] = NotRead) = (t[f] = NotRead)
  BY GradesOf DEF NotWorse, SameRead
<1>2. CASE s[f] = NotRead
  BY <1>1, <1>2 DEF Penalty
<1>3. CASE s[f] # NotRead
  <2>1. Value(s, f) \in Nat /\ Value(t, f) \in Nat /\ Value(t, f) <= Value(s, f)
    BY <1>3, NotMore
  <2> DEFINE a == Positive(Value(s, f) - free)
             b == Positive(Value(t, f) - free)
  <2>2. a \in Nat /\ b \in Nat /\ b <= a
    BY <2>1 DEF Positive
  <2>3. /\ Penalty(s, f, free, each, cap) = AtMost(each * a, cap)
        /\ Penalty(t, f, free, each, cap) = AtMost(each * b, cap)
    BY <1>1, <1>3 DEF Penalty
  <2> HIDE DEF a, b
  <2>4. each = 2 \/ each = 8 \/ each = 12
    OBVIOUS
  <2>5. each * a \in Nat /\ each * b \in Nat /\ each * b <= each * a
    BY <2>2, <2>4
  <2>6. QED
    BY <2>3, <2>5 DEF AtMost
<1>4. QED
  BY <1>2, <1>3

\* A network that is no worse is not scored lower, whatever pings were answered.
LEMMA NetworkMonotone ==
  ASSUME NEW s, NEW t, NotWorse(s, t), \A p \in Pings : s[p] = t[p]
  PROVE  /\ ScoreNetwork(s) \in Nat /\ ScoreNetwork(t) \in Nat
         /\ ScoreNetwork(s) <= ScoreNetwork(t)
<1> DEFINE link(u) == IF Is(u, "kind", "WIRELESS") \/ SlowCable(u) THEN 80 ELSE 0
           half(u) == IF Uplink(u) /\ Is(u, "duplex", "half") THEN 80 ELSE 0
           lossy(u) ==
             IF Trusted(u, "router") THEN Penalty(u, "router_loss", 0, 12, 240) ELSE 0
           internet(u) ==
             IF Trusted(u, "internet")
             THEN Penalty(u, "loss", 0, 12, 240) + Penalty(u, "jitter", 5, 8, 120)
                  + Penalty(u, "delay", 50, 2, 120)
             ELSE 0
<1>1. Uplink(s) = Uplink(t) /\ (Connected(s) => Connected(t))
  BY WasWorst, GradesOf DEF Uplink, Connected, NotWorse, SameRead
<1>2. Trusted(s, "router") = Trusted(t, "router") /\ Trusted(s, "internet") = Trusted(t, "internet")
  BY DEF Trusted, Is, Pings
<1>3. link(s) \in {0, 80} /\ link(t) \in {0, 80} /\ link(t) <= link(s)
  BY WasWorst DEF SlowCable
<1>4. half(s) \in {0, 80} /\ half(t) \in {0, 80} /\ half(t) <= half(s)
  BY WasWorst, <1>1
<1>5. lossy(s) \in Nat /\ lossy(t) \in Nat /\ lossy(t) <= lossy(s)
  BY <1>2, PenaltyMonotone
<1>6. internet(s) \in Nat /\ internet(t) \in Nat /\ internet(t) <= internet(s)
  <2>1. /\ Penalty(s, "loss", 0, 12, 240) \in Nat /\ Penalty(t, "loss", 0, 12, 240) \in Nat
        /\ Penalty(t, "loss", 0, 12, 240) <= Penalty(s, "loss", 0, 12, 240)
    BY PenaltyMonotone
  <2>2. /\ Penalty(s, "jitter", 5, 8, 120) \in Nat /\ Penalty(t, "jitter", 5, 8, 120) \in Nat
        /\ Penalty(t, "jitter", 5, 8, 120) <= Penalty(s, "jitter", 5, 8, 120)
    BY PenaltyMonotone
  <2>3. /\ Penalty(s, "delay", 50, 2, 120) \in Nat /\ Penalty(t, "delay", 50, 2, 120) \in Nat
        /\ Penalty(t, "delay", 50, 2, 120) <= Penalty(s, "delay", 50, 2, 120)
    BY PenaltyMonotone
  <2>4. QED
    BY <1>2, <2>1, <2>2, <2>3
<1>7. \A u \in {s, t} : ScoreNetwork(u) =
        IF ~Connected(u) THEN 0
        ELSE Clamp(400 - link(u) - half(u) - lossy(u) - internet(u))
  BY DEF ScoreNetwork
<1> HIDE DEF link, half, lossy, internet
<1>8. QED
  BY <1>1, <1>3, <1>4, <1>5, <1>6, <1>7 DEF Clamp

\* The part of the sum a component has.
Part(s, c) == IF c \in Usable(s) THEN Weight[c] * Score(s, c) ELSE 0
Share(s, c) == IF c \in Usable(s) THEN Weight[c] ELSE 0

LEMMA WeightOf ==
  /\ Components = {"gpu", "cpu", "network", "ram", "storage", "display", "system"}
  /\ Weight["gpu"] = 25 /\ Weight["cpu"] = 20 /\ Weight["network"] = 15
  /\ \A c \in {"ram", "storage", "display", "system"} : Weight[c] = 10
BY DEF Components, Weight

LEMMA SumOfParts ==
  ASSUME NEW s
  PROVE  /\ Points(s) = Part(s, "gpu") + Part(s, "cpu") + Part(s, "network") + Part(s, "ram")
              + Part(s, "storage") + Part(s, "display") + Part(s, "system")
         /\ Weights(s) = Share(s, "gpu") + Share(s, "cpu") + Share(s, "network")
              + Share(s, "ram") + Share(s, "storage") + Share(s, "display") + Share(s, "system")
BY WeightOf DEF Points, Weights, Sum, Part, Share

\* A component that both scans measure is not scored lower, and none but the
\* network drops out: with no adapter nor route it is scored zero.
LEMMA PartMonotone ==
  ASSUME NEW s, NEW t, NotWorse(s, t), Unsent(s), \A p \in Pings : s[p] = t[p],
         NEW c \in Components
  PROVE  /\ Part(s, c) \in Nat /\ Part(t, c) \in Nat /\ Part(s, c) <= Part(t, c)
         /\ Share(s, c) \in Nat /\ Share(t, c) \in Nat /\ Share(t, c) <= Share(s, c)
<1>1. \A f \in Readings : (s[f] = NotRead) = (t[f] = NotRead)
  BY DEF NotWorse, SameRead
<1>2. /\ \A n \in Nat : Weight[c] * n \in Nat
      /\ \A n, k \in Nat : n <= k => Weight[c] * n <= Weight[c] * k
      /\ Weight[c] \in Nat
  BY WeightOf
<1>3. CASE c # "network"
  <2>1. c \in Usable(s) <=> c \in Usable(t)
    BY <1>1, <1>3, WeightOf, GradesOf DEF Usable
  <2>2. c \in Usable(s) => /\ Score(s, c) \in Nat /\ Score(t, c) \in Nat
                           /\ Score(s, c) <= Score(t, c)
    <3>1. CASE c = "cpu"
      BY <3>1, CpuMonotone DEF Score, Usable
    <3>2. CASE c = "ram"
      BY <3>2, RamMonotone DEF Score, Usable
    <3>3. CASE c = "storage"
      BY <3>3, StorageMonotone DEF Score, Usable
    <3>4. CASE c = "gpu"
      BY <3>4, GpuMonotone DEF Score, Usable
    <3>5. CASE c = "display"
      BY <3>5, DisplayMonotone DEF Score
    <3>6. CASE c = "system"
      BY <3>6, SystemMonotone DEF Score
    <3>7. QED
      BY <1>3, <3>1, <3>2, <3>3, <3>4, <3>5, <3>6, WeightOf
  <2>3. QED
    BY <1>2, <2>1, <2>2 DEF Part, Share
<1>4. CASE c = "network"
  <2>1. /\ Score(s, c) = ScoreNetwork(s) /\ Score(t, c) = ScoreNetwork(t)
        /\ ScoreNetwork(s) \in Nat /\ ScoreNetwork(t) \in Nat
        /\ ScoreNetwork(s) <= ScoreNetwork(t)
    BY <1>4, NetworkMonotone DEF Score
  <2>2. /\ Uplink(s) = Uplink(t) /\ (Connected(s) => Connected(t))
        /\ \A p \in Pings : Trusted(s, p) = Trusted(t, p)
    BY <1>1, WasWorst, GradesOf DEF Uplink, Connected, Trusted, Is
  <2>3. \A u : c \in Usable(u) <=>
          ~Connected(u) \/ Uplink(u) \/ Trusted(u, "router") \/ Trusted(u, "internet")
    BY <1>4, WeightOf DEF Usable
  <2>4. c \in Usable(t) => c \in Usable(s)
    BY <2>2, <2>3 DEF Pings
  <2>5. c \in Usable(s) /\ c \notin Usable(t) => Score(s, c) = 0
    BY <2>1, <2>2, <2>3 DEF ScoreNetwork, Pings
  <2>6. QED
    BY <1>2, <2>1, <2>4, <2>5 DEF Part, Share
<1>5. QED
  BY <1>3, <1>4

\* More points over no more weights.
LEMMA NotAbove ==
  ASSUME NEW p \in Nat, NEW q \in Nat, NEW v \in Nat, NEW w \in Nat, p <= q, w <= v
  PROVE  ~(p * w > q * v)
<1>1. p * w <= q * w
  OBVIOUS
<1>2. q * w <= q * v
  OBVIOUS
<1>3. QED
  BY <1>1, <1>2

\* compute_score and the scores of the components: of two scans that read the same, the
\* one that is worse in nothing never has the lower score, for any readings studied
\* together: whichever caps, floors and penalties meet, and where the network drops out
\* of the average because the machine is connected after all.
THEOREM ScoreNeverFalls == ScoringAssumption /\ ScoreSpec => []ScoreMonotone
<1>1. ScoringAssumption /\ ScoreInit => GradedInv
  BY GradedStart
<1>2. GradedInv /\ [ScoreNext]_scoreVars => GradedInv'
  BY GradedStep
<1>3. GradedInv => ScoreMonotone
  <2> SUFFICES ASSUME GradedInv, NEW t \in after, SameRead(before, t), Better(before, t),
                      \A p \in Pings : before[p] = t[p]
               PROVE  ~Above(before, t)
    BY DEF ScoreMonotone
  <2>1. NotWorse(before, t) /\ Unsent(before)
    BY DEF GradedInv, NotWorse
  <2>2. \A c \in Components :
          /\ Part(before, c) \in Nat /\ Part(t, c) \in Nat /\ Part(before, c) <= Part(t, c)
          /\ Share(before, c) \in Nat /\ Share(t, c) \in Nat /\ Share(t, c) <= Share(before, c)
    BY <2>1, PartMonotone
  <2>3. Points(before) \in Nat /\ Points(t) \in Nat /\ Points(before) <= Points(t)
    BY <2>2, SumOfParts, WeightOf
  <2>4. Weights(before) \in Nat /\ Weights(t) \in Nat /\ Weights(t) <= Weights(before)
    BY <2>2, SumOfParts, WeightOf
  <2>5. QED
    BY <2>3, <2>4, NotAbove DEF Above
<1>4. QED
  BY <1>1, <1>2, <1>3, PTL DEF ScoreSpec
===============================================================================
