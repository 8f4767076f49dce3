----------------------------- MODULE SeriesProofs -----------------------------
(***************************************************************************)
(* What users put in is kept, for any number of writers, of users and of   *)
(* data sets: series and their files (TimeSeriesData, SeriesFiles) and the *)
(* model they compose (ModelComposer); and so is a total that is spread    *)
(* over a year (DayShapes).                                                *)
(***************************************************************************)
EXTENDS MCCalculations, SumTheorems

-----------------------------------------------------------------------------
(***************************************************************************)
(* The files of the series: what writers and a reader may hold.  While     *)
(* nobody disturbs a reader that has verified, the file is what it         *)
(* expects; and what a writer wrote alone is whole until another begins.   *)
(***************************************************************************)
WriterSteps == {"asked", "refused", "writing", "written", "returned", "killed"}
ReaderSteps == {"idle", "asked", "verified", "damaged", "read"}
Contents == [table : SeriesTables, whole : BOOLEAN]
WholeFile(w) == [table |-> given[w], whole |-> TRUE]

FilesTyped ==
  /\ given \in [Writers -> SeriesTables]
  /\ made \in [Writers -> [step : WriterSteps, checksum : Contents \cup {None}]]
  /\ held \in Contents \cup {None}
  /\ shown \in [step : ReaderSteps, expected : Contents \cup {None}, table : Contents \cup {None}, quiet : BOOLEAN]
FileIsExpected ==
  shown.quiet /\ shown.expected # None =>
    /\ shown.step = "verified" => shown.expected = held
    /\ shown.step = "read" => shown.table = shown.expected /\ Files!Writable(shown.table.table)
OnlyWritable ==
  /\ held # None => Files!Writable(held.table)
  /\ \A w \in Writers : made[w].step = "writing" => Files!Writable(given[w])
AloneIsWhole ==
  \A w \in Writers : ~Files!Together(w) =>
    /\ made[w].step = "written" => held = WholeFile(w)
    /\ made[w].step = "returned" => made[w].checksum = WholeFile(w)
FilesInv == running = "files" => FilesTyped /\ FileIsExpected /\ OnlyWritable /\ AloneIsWhole

\* While files are stored nothing else moves.
LEMMA FilesSteps ==
  ASSUME [CalculationsNext]_calculationVars, running = "files" \/ running' = "files"
  PROVE  running = "files" /\ (Files!Next \/ UNCHANGED <<given, made, held, shown>>)
  BY DEF CalculationsNext, calculationVars, ApplyDuty, ShareAssets, ListBenefits, ComposeBounds, OverrideLedger,
         UseSeries, StoreSeries, SpreadShapes, ComposeModel

\* Every step of a writer keeps what is held of the types.
LEMMA WritersTyped ==
  ASSUME FilesTyped, NEW w \in Writers,
         \/ Files!Refuse(w) \/ Files!StartWriting(w) \/ Files!FinishWriting(w)
         \/ Files!ReturnChecksum(w) \/ Files!Kill(w)
  PROVE  FilesTyped'
<1>1. given[w] \in SeriesTables /\ made[w] \in [step : WriterSteps, checksum : Contents \cup {None}]
  BY DEF FilesTyped
<1>2. CASE Files!Refuse(w)
  BY <1>1, <1>2 DEF FilesTyped, Files!Refuse, WriterSteps
<1>3. CASE Files!StartWriting(w)
  BY <1>1, <1>3 DEF FilesTyped, Files!StartWriting, Files!Disturb, WriterSteps, Contents
<1>4. CASE Files!FinishWriting(w)
  <2>1. PICK whole \in {TRUE} \cup {\A v \in Writers \ {w} : ~Files!Writing(v)} :
          held' = [table |-> given[w], whole |-> whole]
    BY <1>4 DEF Files!FinishWriting
  <2>2. whole \in BOOLEAN
    OBVIOUS
  <2>3. held' \in Contents
    BY <1>1, <2>1, <2>2 DEF Contents
  <2>4. /\ made' = [made EXCEPT ![w].step = "written"] /\ UNCHANGED given
        /\ shown' = [shown EXCEPT !.quiet = FALSE]
    BY <1>4 DEF Files!FinishWriting, Files!Disturb
  <2> QED BY <1>1, <2>3, <2>4 DEF FilesTyped, WriterSteps
<1>5. CASE Files!ReturnChecksum(w)
  BY <1>1, <1>5 DEF FilesTyped, Files!ReturnChecksum, Files!ComputeChecksum, WriterSteps
<1>6. CASE Files!Kill(w)
  BY <1>1, <1>6 DEF FilesTyped, Files!Kill, WriterSteps
<1> QED BY <1>2, <1>3, <1>4, <1>5, <1>6

\* Every step keeps FilesInv.
LEMMA FilesInductive ==
  ASSUME FilesInv, [CalculationsNext]_calculationVars
  PROVE  FilesInv'
<1> SUFFICES ASSUME running' = "files" PROVE (FilesTyped /\ FileIsExpected /\ OnlyWritable /\ AloneIsWhole)'
  BY DEF FilesInv
<1>1. running = "files" /\ (Files!Next \/ UNCHANGED <<given, made, held, shown>>)
  BY FilesSteps
<1>2. FilesTyped /\ FileIsExpected /\ OnlyWritable /\ AloneIsWhole
  BY <1>1 DEF FilesInv
<1>3. CASE UNCHANGED <<given, made, held, shown>>
  BY <1>2, <1>3 DEF FilesTyped, FileIsExpected, OnlyWritable, AloneIsWhole, Files!Together, WholeFile, Files!Writable
<1>4. ASSUME NEW w \in Writers, Files!Refuse(w) PROVE (FilesTyped /\ FileIsExpected /\ OnlyWritable /\ AloneIsWhole)'
  <2>1. FilesTyped'
    BY <1>2, <1>4, WritersTyped
  <2>2. made' = [made EXCEPT ![w].step = "refused"] /\ UNCHANGED <<given, held, shown>>
    BY <1>4 DEF Files!Refuse
  <2>3. \A v \in Writers : v # w => made'[v] = made[v]
    BY <1>2, <2>2 DEF FilesTyped
  <2>4. made'[w].step = "refused" /\ made[w].step = "asked"
    BY <1>2, <1>4 DEF FilesTyped, Files!Refuse
  <2>5. FileIsExpected' /\ OnlyWritable'
    BY <1>2, <2>2, <2>3, <2>4 DEF FileIsExpected, OnlyWritable, Files!Writable
  <2>6. ASSUME NEW v \in Writers, ~Files!Together(v)' PROVE v # w => ~Files!Together(v)
    BY <2>3, <2>4, <2>6 DEF Files!Together
  <2>7. AloneIsWhole'
    BY <1>2, <2>2, <2>3, <2>4, <2>6 DEF AloneIsWhole, WholeFile
  <2> QED BY <2>1, <2>5, <2>7
<1>5. ASSUME NEW w \in Writers, Files!StartWriting(w) PROVE (FilesTyped /\ FileIsExpected /\ OnlyWritable /\ AloneIsWhole)'
  <2>1. FilesTyped'
    BY <1>2, <1>5, WritersTyped
  <2>2. /\ made' = [made EXCEPT ![w].step = "writing"] /\ UNCHANGED given
        /\ held' = [table |-> given[w], whole |-> FALSE] /\ shown' = [shown EXCEPT !.quiet = FALSE]
        /\ Files!Writable(given[w])
    BY <1>5 DEF Files!StartWriting, Files!Disturb
  <2>3. \A v \in Writers : v # w => made'[v] = made[v]
    BY <1>2, <2>2 DEF FilesTyped
  <2>4. made'[w].step = "writing"
    BY <1>2, <2>2 DEF FilesTyped
  <2>5. shown'.quiet = FALSE
    BY <1>2, <2>2 DEF FilesTyped
  <2>6. FileIsExpected' /\ OnlyWritable'
    BY <1>2, <2>2, <2>3, <2>5 DEF FileIsExpected, OnlyWritable, Files!Writable
  <2>7. \A v \in Writers : v # w => Files!Together(v)'
    BY <2>4 DEF Files!Together
  <2>8. AloneIsWhole'
    BY <2>4, <2>7 DEF AloneIsWhole
  <2> QED BY <2>1, <2>6, <2>8
<1>6. ASSUME NEW w \in Writers, Files!FinishWriting(w) PROVE (FilesTyped /\ FileIsExpected /\ OnlyWritable /\ AloneIsWhole)'
  <2>1. FilesTyped'
    BY <1>2, <1>6, WritersTyped
  <2>2. PICK whole \in {TRUE} \cup {\A v \in Writers \ {w} : ~Files!Writing(v)} :
          held' = [table |-> given[w], whole |-> whole]
    BY <1>6 DEF Files!FinishWriting
  <2>3. /\ made' = [made EXCEPT ![w].step = "written"] /\ UNCHANGED given /\ made[w].step = "writing"
        /\ shown' = [shown EXCEPT !.quiet = FALSE] /\ Files!Writable(given[w])
    BY <1>2, <1>6 DEF Files!FinishWriting, Files!Disturb, Files!Writing, OnlyWritable
  <2>4. \A v \in Writers : v # w => made'[v] = made[v]
    BY <1>2, <2>3 DEF FilesTyped
  <2>5. made'[w].step = "written" /\ shown'.quiet = FALSE
    BY <1>2, <2>3 DEF FilesTyped
  <2>6. FileIsExpected' /\ OnlyWritable'
    BY <1>2, <2>2, <2>3, <2>4, <2>5 DEF FileIsExpected, OnlyWritable, Files!Writable
  <2>7. \A v \in Writers : v # w => Files!Together(v)'
    BY <2>5 DEF Files!Together
  <2>8. ASSUME ~Files!Together(w)' PROVE held' = WholeFile(w)'
    <3>1. \A v \in Writers \ {w} : ~Files!Writing(v)
      BY <2>4, <2>8 DEF Files!Together, Files!Writing
    <3>2. whole = TRUE
      BY <3>1
    <3> QED BY <2>2, <2>3, <3>2 DEF WholeFile
  <2>9. AloneIsWhole'
    BY <2>5, <2>7, <2>8 DEF AloneIsWhole
  <2> QED BY <2>1, <2>6, <2>9
<1>7. ASSUME NEW w \in Writers, Files!ReturnChecksum(w) PROVE (FilesTyped /\ FileIsExpected /\ OnlyWritable /\ AloneIsWhole)'
  <2>1. FilesTyped'
    BY <1>2, <1>7, WritersTyped
  <2>2. /\ made' = [made EXCEPT ![w] = [step |-> "returned", checksum |-> held]]
        /\ made[w].step = "written" /\ UNCHANGED <<given, held, shown>>
    BY <1>7 DEF Files!ReturnChecksum, Files!ComputeChecksum
  <2>3. \A v \in Writers : v # w => made'[v] = made[v]
    BY <1>2, <2>2 DEF FilesTyped
  <2>4. made'[w].step = "returned" /\ made'[w].checksum = held
    BY <1>2, <2>2 DEF FilesTyped
  <2>5. FileIsExpected' /\ OnlyWritable'
    BY <1>2, <2>2, <2>3, <2>4 DEF FileIsExpected, OnlyWritable, Files!Writable
  <2>6. \A v \in Writers : v # w => Files!Together(v)'
    BY <2>4 DEF Files!Together
  <2>7. ~Files!Together(w)' => ~Files!Together(w)
    BY <2>3 DEF Files!Together
  <2>8. AloneIsWhole'
    BY <1>2, <2>2, <2>4, <2>6, <2>7 DEF AloneIsWhole, WholeFile
  <2> QED BY <2>1, <2>5, <2>8
<1>8. ASSUME NEW w \in Writers, Files!Kill(w) PROVE (FilesTyped /\ FileIsExpected /\ OnlyWritable /\ AloneIsWhole)'
  <2>1. FilesTyped'
    BY <1>2, <1>8, WritersTyped
  <2>2. made' = [made EXCEPT ![w].step = "killed"] /\ UNCHANGED <<given, held, shown>>
    BY <1>8 DEF Files!Kill
  <2>3. \A v \in Writers : v # w => made'[v] = made[v]
    BY <1>2, <2>2 DEF FilesTyped
  <2>4. made'[w].step = "killed"
    BY <1>2, <2>2 DEF FilesTyped
  <2>5. FileIsExpected' /\ OnlyWritable'
    BY <1>2, <2>2, <2>3, <2>4 DEF FileIsExpected, OnlyWritable, Files!Writable
  <2>6. \A v \in Writers : v # w => Files!Together(v)'
    BY <2>4 DEF Files!Together
  <2>7. AloneIsWhole'
    BY <2>4, <2>6 DEF AloneIsWhole
  <2> QED BY <2>1, <2>5, <2>7
<1>9. CASE Files!Ask \/ Files!Verify \/ Files!Read
  <2>1. UNCHANGED <<given, made, held>>
    BY <1>9 DEF Files!Ask, Files!Verify, Files!Read
  <2>2. OnlyWritable' /\ AloneIsWhole'
    BY <1>2, <2>1 DEF OnlyWritable, AloneIsWhole, WholeFile, Files!Together, Files!Writable
  <2>3. CASE Files!Ask
    <3>1. PICK c \in Files!Checksums : shown' = [shown EXCEPT !.step = "asked", !.expected = c]
      BY <2>3 DEF Files!Ask
    <3>2. c \in Contents \cup {None}
      BY <1>2, <3>1 DEF Files!Checksums, FilesTyped
    <3>3. FilesTyped'
      BY <1>2, <2>1, <3>1, <3>2 DEF FilesTyped, ReaderSteps
    <3>4. shown'.step = "asked"
      BY <1>2, <3>1 DEF FilesTyped
    <3>5. FileIsExpected'
      BY <3>4 DEF FileIsExpected
    <3> QED BY <2>2, <3>3, <3>5
  <2>4. CASE Files!Verify
    <3>1. shown' = [shown EXCEPT !.step = IF shown.expected \in {None, held} THEN "verified" ELSE "damaged", !.quiet = TRUE]
      BY <2>4 DEF Files!Verify, Files!ComputeChecksum
    <3>2. FilesTyped'
      BY <1>2, <2>1, <3>1 DEF FilesTyped, ReaderSteps
    <3>3. /\ shown'.expected = shown.expected
          /\ shown'.step = IF shown.expected \in {None, held} THEN "verified" ELSE "damaged"
      BY <1>2, <3>1 DEF FilesTyped
    <3>4. FileIsExpected'
      BY <2>1, <3>3 DEF FileIsExpected
    <3> QED BY <2>2, <3>2, <3>4
  <2>5. CASE Files!Read
    <3>1. shown' = [shown EXCEPT !.step = "read", !.table = held] /\ shown.step = "verified"
      BY <2>5 DEF Files!Read
    <3>2. FilesTyped'
      BY <1>2, <2>1, <3>1 DEF FilesTyped, ReaderSteps
    <3>3. /\ shown'.expected = shown.expected /\ shown'.step = "read" /\ shown'.table = held
          /\ shown'.quiet = shown.quiet
      BY <1>2, <3>1 DEF FilesTyped
    <3>4. FileIsExpected'
      BY <1>2, <2>1, <3>1, <3>3 DEF FileIsExpected, OnlyWritable, Files!Writable
    <3> QED BY <2>2, <3>2, <3>4
  <2> QED BY <1>9, <2>3, <2>4, <2>5
<1> QED BY <1>1, <1>3, <1>4, <1>5, <1>6, <1>7, <1>8, <1>9 DEF Files!Next
-----------------------------------------------------------------------------
(***************************************************************************)
(* The composition of a model: what one edit does to the names in it.      *)
(***************************************************************************)
Resource == Composer!Instances
Composed(c) == Composer!IsComposition(c)

\* In a composition there are as many names as resources.
LEMMA NamesCount ==
  ASSUME NEW c, Composed(c)
  PROVE  Cardinality(Composer!NamesOf(c)) = Len(c)
<1> DEFINE n == Len(c)
           T == Composer!NamesOf(c)
           f == [i \in 1 .. n |-> c[i].name]
<1>1. /\ n \in Nat /\ DOMAIN c = 1 .. n
      /\ \A i, j \in 1 .. n : c[i].name = c[j].name => i = j
  BY DEF Composed, Composer!IsComposition
<1>2. f \in [1 .. n -> T]
  BY <1>1 DEF Composer!NamesOf
<1>3. f \in Injection(1 .. n, T)
  BY <1>1, <1>2, Fun_IsInj
<1>4. \A y \in T : \E i \in 1 .. n : f[i] = y
  BY <1>1 DEF Composer!NamesOf
<1>5. f \in Surjection(1 .. n, T)
  <2> HIDE DEF f, T
  <2> QED BY <1>2, <1>4, Fun_IsSurj
<1>6. ExistsBijection(1 .. n, T)
  BY <1>3, <1>5 DEF ExistsBijection, Bijection
<1> QED
  <2> HIDE DEF T, n
  <2>1. Cardinality(T) = n
    BY <1>1, <1>6, FS_CountingElements
  <2> QED BY <2>1 DEF T, n

\* The sequences that the instance puts end to end are those of SumTheorems.
LEMMA ComposerFlattens == \A ss : Composer!FlattenSeq(ss) = FlattenSeq(ss)
  BY Zenon DEF Composer!FlattenSeq, FlattenSeq

\* What is left without the resource of a name.
Shortened(left, c, k) ==
  /\ left \in Seq(Resource) /\ Len(left) = Len(c) - 1
  /\ \A p \in 1 .. k - 1 : left[p] = c[p]
  /\ \A p \in k + 1 .. Len(c) : left[p - 1] = c[p]
\* A resource that is taken out is out, and the others stay.
LEMMA WithoutOne ==
  ASSUME NEW c \in Seq(Resource), NEW k \in 1 .. Len(c), NEW name, c[k].name = name,
         \A i \in 1 .. Len(c) : i # k => c[i].name # name
  PROVE  Shortened(Composer!Without(c, name), c, k)
<1>1. Composer!Without(c, name) = FlattenSeq(OneReplaced(c, k, <<>>))
  <2>1. DOMAIN c = 1 .. Len(c)
    OBVIOUS
  <2>2. [i \in DOMAIN c |-> IF c[i].name = name THEN <<>> ELSE <<c[i]>>] = OneReplaced(c, k, <<>>)
    BY <2>1 DEF OneReplaced
  <2> QED BY <2>2, ComposerFlattens DEF Composer!Without
<1>2. <<>> \in Seq(Resource) /\ Len(<<>>) = 0 /\ Len(c) \in Nat
  OBVIOUS
<1> DEFINE all == FlattenSeq(OneReplaced(c, k, <<>>))
<1>6. HasPart(all, Resource, c, k, <<>>)
  BY <1>2, FlattenReplaced
<1> HIDE DEF all
<1>3. /\ all \in Seq(Resource) /\ Len(all) = Len(c) - 1 + Len(<<>>)
      /\ \A p \in 1 .. k - 1 : all[p] = c[p]
      /\ \A p \in k + 1 .. Len(c) : all[p - 1 + Len(<<>>)] = c[p]
  BY <1>6 DEF HasPart
<1>4. \A p \in k + 1 .. Len(c) : p - 1 + Len(<<>>) = p - 1
  BY <1>2
<1>5. Len(all) = Len(c) - 1 /\ \A p \in k + 1 .. Len(c) : all[p - 1] = c[p]
  BY <1>2, <1>3, <1>4
<1>7. Shortened(all, c, k)
  BY <1>3, <1>5 DEF Shortened
<1> QED BY <1>1, <1>7 DEF all

\* Where one resource in the middle is new, what is left without it is what
\* was there before.
LEMMA WithoutNew ==
  ASSUME NEW c \in Seq(Resource), NEW new \in Seq(Resource), NEW k \in 1 .. Len(new), NEW name,
         Len(new) = Len(c) + 1, new[k].name = name, \A i \in 1 .. Len(c) : c[i].name # name,
         \A p \in 1 .. k - 1 : new[p] = c[p], \A p \in k .. Len(c) : new[p + 1] = c[p]
  PROVE  Composer!Without(new, name) = c
<1> DEFINE left == Composer!Without(new, name)
           n == Len(c)
<1>1. n \in Nat /\ Len(new) = n + 1 /\ k \in 1 .. n + 1 /\ DOMAIN c = 1 .. n
  OBVIOUS
<1>2. ASSUME NEW i \in 1 .. n + 1, i # k PROVE new[i].name # name
  <2>1. CASE i < k
    <3>1. i \in 1 .. k - 1 /\ i \in 1 .. n
      BY <1>1, <2>1
    <3> QED BY <3>1
  <2>2. CASE i > k
    <3>1. i - 1 \in k .. n /\ i - 1 \in 1 .. n /\ i - 1 + 1 = i
      BY <1>1, <2>2
    <3>2. new[i - 1 + 1] = c[i - 1]
      BY <3>1
    <3> QED BY <3>1, <3>2
  <2> QED BY <1>1, <1>2, <2>1, <2>2
<1>3. /\ left \in Seq(Resource) /\ Len(left) = Len(new) - 1
      /\ \A p \in 1 .. k - 1 : left[p] = new[p]
      /\ \A p \in k + 1 .. Len(new) : left[p - 1] = new[p]
  <2>1. Shortened(left, new, k)
    BY <1>1, <1>2, WithoutOne
  <2> HIDE DEF left
  <2> QED BY <2>1 DEF Shortened
<1> HIDE DEF left
<1>4. ASSUME NEW p \in 1 .. n PROVE left[p] = c[p]
  <2>1. CASE p < k
    <3>1. p \in 1 .. k - 1
      BY <1>1, <2>1
    <3> QED BY <1>3, <3>1
  <2>2. CASE p >= k
    <3>1. p \in k .. n /\ p + 1 \in k + 1 .. Len(new) /\ p + 1 - 1 = p
      BY <1>1, <2>2
    <3>2. left[p + 1 - 1] = new[p + 1]
      BY <1>3, <3>1
    <3> QED BY <3>1, <3>2
  <2> QED BY <1>1, <2>1, <2>2
<1>5. Len(left) = n
  BY <1>1, <1>3
<1>6. left = c
  BY <1>3, <1>4, <1>5, SeqEqual
<1> QED BY <1>6 DEF left
\* Who is looked for is the one who has the name.
LEMMA SourceIsIt ==
  ASSUME NEW c, Composed(c), NEW k \in 1 .. Len(c)
  PROVE  Composer!SourceOf(c, c[k].name) = c[k]
<1> DEFINE I == {i \in 1 .. Len(c) : c[i].name = c[k].name}
<1>1. /\ Len(c) \in Nat /\ DOMAIN c = 1 .. Len(c)
      /\ \A i, j \in 1 .. Len(c) : c[i].name = c[j].name => i = j
  BY DEF Composed, Composer!IsComposition, Resource
<1>2. I = {k}
  BY <1>1
<1> HIDE DEF I
<1>3. Composer!Min(I) = k
  BY <1>2, <1>1 DEF Composer!Min
<1>4. Composer!SourceOf(c, c[k].name) = c[IF I # {} THEN Composer!Min(I) ELSE 0]
  BY DEF Composer!SourceOf, Composer!SelectInSeq, I
<1> QED BY <1>2, <1>3, <1>4

\* What an edit r makes of the composition c.
EditKeeps(c, new, r) ==
  /\ Composed(new)
  /\ \A nm \in Composer!NamesOf(c) : ~(r.kind = "remove" /\ r.name = nm) => nm \in Composer!NamesOf(new)
  /\ \A nm \in Composer!NamesOf(new) : nm \in Composer!NamesOf(c) \/ Composer!GivenBy(r) = nm
  /\ r.kind \in {"add", "duplicate"} => Composer!GivenBy(r) \in Composer!NamesOf(new)
  /\ r.kind = "remove" => r.name \notin Composer!NamesOf(new)
  /\ Composer!TouchesItsOwn(c, new, r)

\* A resource that is added leaves the others.
LEMMA AddKeeps ==
  ASSUME NEW c, Composed(c), NEW r, r.kind = "add", r.tag \in STRING, r.name \in STRING, Composer!AddAccepted(c, r)
  PROVE  EditKeeps(c, Composer!AddResource(c, r), r)
<1> DEFINE added == [tag |-> r.tag, name |-> r.name, size |-> None]
           new == Append(c, added)
           n == Len(c)
<1>1. /\ c \in Seq(Resource) /\ n \in Nat /\ DOMAIN c = 1 .. n
      /\ \A i, j \in 1 .. n : c[i].name = c[j].name => i = j
  BY DEF Composed, Composer!IsComposition, Resource
<1>2. added \in Resource /\ added.name = r.name
  BY DEF Composer!Instances, Resource
<1> HIDE DEF added
<1>3. /\ new \in Seq(Resource) /\ Len(new) = n + 1 /\ new[n + 1] = added
      /\ \A i \in 1 .. n : new[i] = c[i]
  BY <1>1, <1>2, AppendProperties
<1> HIDE DEF new
<1>4. DOMAIN new = 1 .. n + 1 /\ \A i \in 1 .. n + 1 : i \in 1 .. n \/ i = n + 1
  BY <1>1, <1>3
<1>5. \A i \in 1 .. n : c[i].name # r.name /\ new[i].name = c[i].name /\ i \in 1 .. n + 1
  <2>1. r.name \notin Composer!NamesOf(c)
    BY DEF Composer!AddAccepted
  <2>2. \A i \in 1 .. n : c[i].name # r.name
    BY <1>1, <2>1 DEF Composer!NamesOf
  <2>3. \A i \in 1 .. n : i \in 1 .. n + 1
    BY <1>1
  <2> QED BY <1>3, <2>2, <2>3
<1>6. new[n + 1].name = r.name /\ n + 1 \in 1 .. n + 1
  BY <1>1, <1>2, <1>3
<1>7. Composed(new)
  <2>1. ASSUME NEW i \in 1 .. n + 1, NEW j \in 1 .. n + 1, new[i].name = new[j].name PROVE i = j
    BY <1>1, <1>4, <1>5, <1>6, <2>1
  <2> QED BY <1>3, <1>4, <2>1 DEF Composed, Composer!IsComposition, Resource
<1>8. \A nm \in Composer!NamesOf(c) : nm \in Composer!NamesOf(new)
  BY <1>1, <1>4, <1>5 DEF Composer!NamesOf
<1>9. \A nm \in Composer!NamesOf(new) : nm \in Composer!NamesOf(c) \/ nm = r.name
  BY <1>1, <1>4, <1>5, <1>6 DEF Composer!NamesOf
<1>10. r.name \in Composer!NamesOf(new)
  BY <1>4, <1>6 DEF Composer!NamesOf
<1>11. Composer!Without(new, r.name) = c
  <2>1. n + 1 \in 1 .. Len(new) /\ n + 1 - 1 = n
    BY <1>1, <1>3
  <2>2. \A p \in 1 .. n + 1 - 1 : new[p] = c[p]
    BY <1>3, <2>1
  <2>3. \A p \in n + 1 .. Len(c) : new[p + 1] = c[p]
    BY <1>1
  <2> QED BY <1>1, <1>3, <1>5, <1>6, <2>1, <2>2, <2>3, WithoutNew
<1>12. Composer!TouchesItsOwn(c, new, r)
  BY <1>11 DEF Composer!TouchesItsOwn
<1>13. Composer!GivenBy(r) = r.name
  BY DEF Composer!GivenBy
<1>14. EditKeeps(c, new, r)
  BY <1>7, <1>8, <1>9, <1>10, <1>12, <1>13 DEF EditKeeps
<1> QED BY <1>14 DEF new, added, Composer!AddResource

\* A resource that is removed leaves the others.
LEMMA RemoveKeeps ==
  ASSUME NEW c, Composed(c), NEW r, r.kind = "remove", Composer!RemoveAccepted(c, r)
  PROVE  EditKeeps(c, Composer!RemoveResource(c, r), r)
<1> DEFINE new == Composer!Without(c, r.name)
           n == Len(c)
<1>1. /\ c \in Seq(Resource) /\ n \in Nat /\ DOMAIN c = 1 .. n
      /\ \A i, j \in 1 .. n : c[i].name = c[j].name => i = j
  BY DEF Composed, Composer!IsComposition, Resource
<1>2. PICK k \in 1 .. n : c[k].name = r.name
  BY <1>1 DEF Composer!RemoveAccepted, Composer!NamesOf
<1>3. \A i \in 1 .. n : i # k => c[i].name # r.name
  BY <1>1, <1>2
<1>4. Shortened(new, c, k)
  BY <1>1, <1>2, <1>3, WithoutOne
<1> HIDE DEF new
<1>5. new \in Seq(Resource) /\ Len(new) = n - 1 /\ DOMAIN new = 1 .. n - 1
  BY <1>1, <1>4 DEF Shortened
<1> DEFINE was(i) == IF i < k THEN i ELSE i + 1
           goes(i) == IF i < k THEN i ELSE i - 1
<1>6. ASSUME NEW i \in 1 .. n - 1 PROVE was(i) \in 1 .. n /\ was(i) # k /\ new[i] = c[was(i)]
  <2>1. CASE i < k
    <3>1. i \in 1 .. k - 1 /\ i \in 1 .. n
      BY <1>1, <2>1
    <3> QED BY <1>4, <2>1, <3>1 DEF Shortened
  <2>2. CASE ~(i < k)
    <3>1. i + 1 \in k + 1 .. n /\ i + 1 \in 1 .. n /\ i + 1 # k /\ i + 1 - 1 = i
      BY <1>1, <2>2
    <3>2. new[i + 1 - 1] = c[i + 1]
      BY <1>4, <3>1 DEF Shortened
    <3> QED BY <2>2, <3>1, <3>2
  <2> QED BY <2>1, <2>2
<1>7. ASSUME NEW i \in 1 .. n, i # k PROVE goes(i) \in 1 .. n - 1 /\ was(goes(i)) = i
  BY <1>1, <1>7
<1>8. \A i, j \in 1 .. n - 1 : was(i) = was(j) => i = j
  BY <1>1
<1>9. Composed(new)
  <2>1. ASSUME NEW i \in 1 .. n - 1, NEW j \in 1 .. n - 1, new[i].name = new[j].name PROVE i = j
    <3> HIDE DEF was
    <3>1. was(i) = was(j)
      BY <1>1, <1>6, <2>1
    <3> QED BY <1>8, <3>1
  <2> QED BY <1>5, <2>1 DEF Composed, Composer!IsComposition, Resource
<1> HIDE DEF was, goes
<1>10. ASSUME NEW nm \in Composer!NamesOf(c), nm # r.name PROVE nm \in Composer!NamesOf(new)
  <2>1. PICK i \in 1 .. n : c[i].name = nm
    BY <1>1 DEF Composer!NamesOf
  <2>2. goes(i) \in 1 .. n - 1 /\ new[goes(i)] = c[i]
    BY <1>2, <1>6, <1>7, <1>10, <2>1
  <2> QED BY <1>5, <2>1, <2>2 DEF Composer!NamesOf
<1>11. ASSUME NEW nm \in Composer!NamesOf(new) PROVE nm \in Composer!NamesOf(c) /\ nm # r.name
  <2>1. PICK i \in 1 .. n - 1 : new[i].name = nm
    BY <1>5 DEF Composer!NamesOf
  <2>2. was(i) \in 1 .. n /\ was(i) # k /\ c[was(i)].name = nm
    BY <1>6, <2>1
  <2> QED BY <1>1, <1>3, <2>2 DEF Composer!NamesOf
<1>12. Composer!TouchesItsOwn(c, new, r)
  BY <1>5 DEF Composer!TouchesItsOwn, new
<1>13. EditKeeps(c, new, r)
  BY <1>9, <1>10, <1>11, <1>12 DEF EditKeeps
<1> QED BY <1>13 DEF new, Composer!RemoveResource

\* A copy comes behind its source and leaves the others.
LEMMA DuplicateKeeps ==
  ASSUME NEW c, Composed(c), NEW r, r.kind = "duplicate", r.copy \in STRING, Composer!DuplicateAccepted(c, r)
  PROVE  EditKeeps(c, Composer!DuplicateResource(c, r), r)
<1> DEFINE n == Len(c)
           new == Composer!DuplicateResource(c, r)
<1>1. /\ c \in Seq(Resource) /\ n \in Nat /\ DOMAIN c = 1 .. n
      /\ \A i, j \in 1 .. n : c[i].name = c[j].name => i = j
  BY DEF Composed, Composer!IsComposition, Resource
<1>2. PICK k \in 1 .. n : c[k].name = r.name
  BY <1>1 DEF Composer!DuplicateAccepted, Composer!NamesOf
<1> DEFINE copied == [c[k] EXCEPT !.name = r.copy]
<1>3. Composer!SourceOf(c, r.name) = c[k]
  BY <1>2, SourceIsIt
<1>4. c[k] \in Resource /\ copied \in Resource /\ copied.name = r.copy /\ copied.size = c[k].size
  <2>1. c[k] \in Resource
    BY <1>1
  <2> QED BY <2>1 DEF Resource, Composer!Instances
<1>5. [i \in DOMAIN c |-> IF c[i].name = r.name THEN <<c[i], [Composer!SourceOf(c, r.name) EXCEPT !.name = r.copy]>> ELSE <<c[i]>>]
        = OneReplaced(c, k, <<c[k], copied>>)
  <2> DEFINE f == [i \in DOMAIN c |-> IF c[i].name = r.name THEN <<c[i], copied>> ELSE <<c[i]>>]
             g == OneReplaced(c, k, <<c[k], copied>>)
  <2> HIDE DEF copied
  <2>1. ASSUME NEW i \in 1 .. n PROVE f[i] = g[i]
    <3>1. CASE i = k
      BY <1>1, <1>2, <3>1 DEF OneReplaced
    <3>2. CASE i # k
      <4>1. c[i].name # r.name
        BY <1>1, <1>2, <3>2
      <4> QED BY <1>1, <3>2, <4>1 DEF OneReplaced
    <3> QED BY <3>1, <3>2
  <2>2. f = g
    BY <1>1, <2>1 DEF OneReplaced
  <2> QED BY <1>3, <2>2 DEF copied
<1>6. new = FlattenSeq(OneReplaced(c, k, <<c[k], copied>>))
  <2> HIDE DEF copied
  <2> QED BY <1>5, ComposerFlattens DEF Composer!DuplicateResource, copied
<1> HIDE DEF new, copied
<1>7. HasPart(new, Resource, c, k, <<c[k], copied>>)
  <2> DEFINE part == <<c[k], copied>>
  <2>1. part \in Seq(Resource)
    BY <1>4
  <2> HIDE DEF part
  <2>2. HasPart(FlattenSeq(OneReplaced(c, k, part)), Resource, c, k, part)
    BY <1>1, <2>1, FlattenReplaced
  <2> QED BY <1>6, <2>2 DEF part
<1>8. /\ new \in Seq(Resource) /\ Len(new) = n + 1 /\ DOMAIN new = 1 .. n + 1
      /\ \A p \in 1 .. k - 1 : new[p] = c[p]
      /\ new[k] = c[k] /\ new[k + 1] = copied
      /\ \A p \in k + 1 .. n : new[p + 1] = c[p]
  <2> DEFINE part == <<c[k], copied>>
  <2>1. Len(part) = 2 /\ part[1] = c[k] /\ part[2] = copied /\ 1 \in 1 .. Len(part) /\ 2 \in 1 .. Len(part)
    OBVIOUS
  <2> HIDE DEF part
  <2>2. HasPart(new, Resource, c, k, part)
    BY <1>7 DEF part
  <2>3. new \in Seq(Resource) /\ Len(new) = n - 1 + 2 /\ \A p \in 1 .. k - 1 : new[p] = c[p]
    BY <2>1, <2>2 DEF HasPart
  <2>4. new[k - 1 + 1] = part[1] /\ new[k - 1 + 2] = part[2]
    BY <2>1, <2>2 DEF HasPart
  <2>5. \A p \in k + 1 .. n : new[p - 1 + 2] = c[p]
    BY <2>1, <2>2 DEF HasPart
  <2>6. k - 1 + 1 = k /\ k - 1 + 2 = k + 1 /\ n - 1 + 2 = n + 1 /\ \A p \in k + 1 .. n : p - 1 + 2 = p + 1
    BY <1>1
  <2>7. \A p \in k + 1 .. n : new[p + 1] = c[p]
    BY <2>5, <2>6
  <2>8. Len(new) = n + 1 /\ DOMAIN new = 1 .. n + 1
    BY <1>1, <2>3, <2>6
  <2> QED BY <2>1, <2>3, <2>4, <2>6, <2>7, <2>8
<1>9. \A p \in 1 .. k : p \in 1 .. n /\ new[p] = c[p]
  <2>1. \A p \in 1 .. k : p \in 1 .. n /\ (p = k \/ p \in 1 .. k - 1)
    BY <1>1
  <2> QED BY <1>8, <2>1
<1> DEFINE was(i) == IF i <= k THEN i ELSE i - 1
           goes(i) == IF i <= k THEN i ELSE i + 1
<1>10. ASSUME NEW i \in 1 .. n + 1, i # k + 1 PROVE was(i) \in 1 .. n /\ new[i] = c[was(i)]
  <2>1. CASE i <= k
    <3>1. i \in 1 .. k
      BY <1>1, <2>1
    <3> QED BY <1>9, <2>1, <3>1
  <2>2. CASE ~(i <= k)
    <3>1. i - 1 \in k + 1 .. n /\ i - 1 \in 1 .. n /\ i - 1 + 1 = i
      BY <1>1, <1>10, <2>2
    <3>2. new[i - 1 + 1] = c[i - 1]
      BY <1>8, <3>1
    <3> QED BY <2>2, <3>1, <3>2
  <2> QED BY <2>1, <2>2
<1>11. ASSUME NEW i \in 1 .. n PROVE goes(i) \in 1 .. n + 1 /\ goes(i) # k + 1 /\ was(goes(i)) = i
  BY <1>1
<1>12. \A i, j \in 1 .. n + 1 : i # k + 1 /\ j # k + 1 /\ was(i) = was(j) => i = j
  BY <1>1
<1> HIDE DEF was, goes
<1>13. k + 1 \in 1 .. n + 1 /\ new[k + 1].name = r.copy /\ new[k + 1].size = c[k].size
  BY <1>1, <1>4, <1>8
<1>14. \A i \in 1 .. n : c[i].name # r.copy
  <2>1. r.copy \notin Composer!NamesOf(c)
    BY DEF Composer!DuplicateAccepted
  <2> QED BY <1>1, <2>1 DEF Composer!NamesOf
<1>15. \A i \in 1 .. n + 1 : new[i].name = r.copy => i = k + 1
  BY <1>10, <1>14
<1>16. Composed(new)
  <2>1. ASSUME NEW i \in 1 .. n + 1, NEW j \in 1 .. n + 1, new[i].name = new[j].name PROVE i = j
    <3>1. CASE i = k + 1 \/ j = k + 1
      BY <1>13, <1>15, <2>1, <3>1
    <3>2. CASE i # k + 1 /\ j # k + 1
      <4>1. was(i) = was(j)
        BY <1>1, <1>10, <2>1, <3>2
      <4> QED BY <1>12, <3>2, <4>1
    <3> QED BY <3>1, <3>2
  <2> QED BY <1>8, <2>1 DEF Composed, Composer!IsComposition, Resource
<1>17. ASSUME NEW nm \in Composer!NamesOf(c) PROVE nm \in Composer!NamesOf(new)
  <2>1. PICK i \in 1 .. n : c[i].name = nm
    BY <1>1 DEF Composer!NamesOf
  <2>2. goes(i) \in 1 .. n + 1 /\ new[goes(i)] = c[i]
    BY <1>10, <1>11
  <2> QED BY <1>8, <2>1, <2>2 DEF Composer!NamesOf
<1>18. ASSUME NEW nm \in Composer!NamesOf(new) PROVE nm \in Composer!NamesOf(c) \/ nm = r.copy
  <2>1. PICK i \in 1 .. n + 1 : new[i].name = nm
    BY <1>8 DEF Composer!NamesOf
  <2>2. CASE i = k + 1
    BY <1>13, <2>1, <2>2
  <2>3. CASE i # k + 1
    BY <1>1, <1>10, <2>1, <2>3 DEF Composer!NamesOf
  <2> QED BY <2>2, <2>3
<1>19. r.copy \in Composer!NamesOf(new)
  BY <1>8, <1>13 DEF Composer!NamesOf
<1>20. Composer!Without(new, r.copy) = c
  <2> DEFINE l == k + 1
  <2>1. l \in 1 .. Len(new) /\ l - 1 = k
    BY <1>1, <1>8
  <2>2. new[l].name = r.copy /\ \A p \in l .. Len(c) : new[p + 1] = c[p]
    BY <1>8, <1>13
  <2> HIDE DEF l
  <2>3. \A p \in 1 .. l - 1 : new[p] = c[p]
    BY <1>9, <2>1
  <2>4. Len(new) = Len(c) + 1 /\ new \in Seq(Resource) /\ c \in Seq(Resource)
    BY <1>1, <1>8
  <2> QED BY <1>14, <2>1, <2>2, <2>3, <2>4, WithoutNew
<1>21. ASSUME NEW i \in DOMAIN new, new[i].name = r.copy
       PROVE  new[i - 1] = Composer!SourceOf(c, r.name) /\ new[i].size = new[i - 1].size
  <2>1. i = k + 1 /\ i - 1 = k
    BY <1>1, <1>8, <1>15, <1>21
  <2> QED BY <1>3, <1>8, <1>13, <2>1
<1>22. Composer!TouchesItsOwn(c, new, r)
  BY <1>8, <1>20, <1>21 DEF Composer!TouchesItsOwn
<1>23. Composer!GivenBy(r) = r.copy
  BY DEF Composer!GivenBy
<1>24. EditKeeps(c, new, r)
  BY <1>16, <1>17, <1>18, <1>19, <1>22, <1>23 DEF EditKeeps
<1> QED BY <1>24 DEF new

\* A form changes sizes, and only those of places it has fields for; where the
\* composition is as drawn these are the resources the form was drawn for.
LEMMA SettingsKeep ==
  ASSUME NEW c, Composed(c), NEW r, r.kind = "set", r.fields \in Seq(Int \cup {None}), Len(r.fields) <= Len(DemoModel),
         DemoModel \in Seq(Resource),
         \A i, j \in DOMAIN DemoModel : DemoModel[i].name = DemoModel[j].name => i = j
  PROVE  EditKeeps(c, Composer!Edited(c, r), r)
<1> DEFINE n == Len(c)
           new == Composer!Edited(c, r)
<1>1. /\ c \in Seq(Resource) /\ n \in Nat /\ DOMAIN c = 1 .. n
      /\ \A i, j \in 1 .. n : c[i].name = c[j].name => i = j
  BY DEF Composed, Composer!IsComposition, Resource
<1>2. new = [i \in 1 .. n |-> IF i \in DOMAIN r.fields THEN [c[i] EXCEPT !.size = r.fields[i]] ELSE c[i]]
  BY <1>1 DEF Composer!Edited
<1> HIDE DEF new
<1>3. ASSUME NEW i \in 1 .. n
      PROVE  new[i] \in Resource /\ new[i].name = c[i].name /\ (i \notin DOMAIN r.fields => new[i] = c[i])
  <2>1. c[i] \in Resource
    BY <1>1
  <2>2. i \in DOMAIN r.fields => r.fields[i] \in Int \cup {None}
    OBVIOUS
  <2> QED BY <1>2, <2>1, <2>2 DEF Resource, Composer!Instances
<1>4. new \in Seq(Resource) /\ DOMAIN new = 1 .. n
  <2>1. new \in [1 .. n -> Resource]
    BY <1>2, <1>3
  <2>2. n \in Nat
    BY <1>1
  <2> HIDE DEF n
  <2> QED BY <2>1, <2>2, SeqDef
<1>5. Composer!NamesOf(new) = Composer!NamesOf(c)
  <2>1. \A nm : nm \in Composer!NamesOf(new) <=> \E i \in 1 .. n : new[i].name = nm
    BY <1>4 DEF Composer!NamesOf
  <2>2. \A nm : nm \in Composer!NamesOf(c) <=> \E i \in 1 .. n : c[i].name = nm
    BY <1>1 DEF Composer!NamesOf
  <2>3. \A i \in 1 .. n : new[i].name = c[i].name
    BY <1>3
  <2>4. \A nm : nm \in Composer!NamesOf(new) <=> nm \in Composer!NamesOf(c)
    BY <2>1, <2>2, <2>3
  <2> QED BY <2>4
<1>6. Composed(new)
  <2>1. \A i, j \in 1 .. n : new[i].name = new[j].name => i = j
    BY <1>1, <1>3
  <2> QED BY <1>4, <2>1 DEF Composed, Composer!IsComposition, Resource
<1>7. /\ DOMAIN r.fields \subseteq DOMAIN DemoModel /\ DOMAIN DemoModel \subseteq Nat
      /\ \A j \in DOMAIN DemoModel, i \in 1 .. n : i \notin DOMAIN DemoModel => j \in 1 .. n
  <2>1. /\ DOMAIN DemoModel = 1 .. Len(DemoModel) /\ Len(DemoModel) \in Nat
        /\ DOMAIN r.fields = 1 .. Len(r.fields) /\ Len(r.fields) \in Nat
    OBVIOUS
  <2> DEFINE d == Len(DemoModel)
             e == Len(r.fields)
  <2>2. e <= d /\ d \in Nat /\ e \in Nat /\ DOMAIN DemoModel = 1 .. d /\ DOMAIN r.fields = 1 .. e
    BY <2>1
  <2> HIDE DEF d, e
  <2> QED BY <1>1, <2>2
<1>8. ASSUME Composer!AsDrawn(c) PROVE Composer!FormReaches(c, new, r)
  <2>1. \A i \in 1 .. n, j \in DOMAIN DemoModel : c[i].name = DemoModel[j].name => i = j
    <3> SUFFICES ASSUME NEW i \in 1 .. n, NEW j \in DOMAIN DemoModel, c[i].name = DemoModel[j].name
                 PROVE  i = j
      OBVIOUS
    <3>1. \A k \in 1 .. n : k \in DOMAIN DemoModel => c[k].name = DemoModel[k].name
      BY <1>1, <1>8 DEF Composer!AsDrawn
    <3>2. CASE i \in DOMAIN DemoModel
      BY <3>1, <3>2
    <3>3. CASE i \notin DOMAIN DemoModel
      BY <1>1, <1>7, <3>1, <3>3
    <3> QED BY <3>2, <3>3
  <2>2. \A i \in 1 .. n : i \in DOMAIN r.fields => c[i].name = DemoModel[i].name /\ new[i].size = r.fields[i]
    <3> SUFFICES ASSUME NEW i \in 1 .. n, i \in DOMAIN r.fields
                 PROVE  c[i].name = DemoModel[i].name /\ new[i].size = r.fields[i]
      OBVIOUS
    <3>1. c[i].name = DemoModel[i].name
      BY <1>1, <1>7, <1>8 DEF Composer!AsDrawn
    <3>2. c[i] \in Resource
      BY <1>1
    <3>3. new[i].size = r.fields[i]
      BY <1>2, <3>2 DEF Resource, Composer!Instances
    <3> QED BY <3>1, <3>3
  <2>3. \A i \in 1 .. n : new[i] # c[i] => new[i].name \in {DemoModel[j].name : j \in DOMAIN r.fields}
    BY <1>3, <2>2
  <2>4. \A i \in 1 .. n, j \in DOMAIN r.fields : new[i].name = DemoModel[j].name => new[i].size = r.fields[j]
    BY <1>3, <1>7, <2>1, <2>2
  <2> QED BY <1>4, <2>3, <2>4 DEF Composer!FormReaches
<1>10. Composer!TouchesItsOwn(c, new, r)
  BY <1>1, <1>3, <1>8 DEF Composer!TouchesItsOwn
<1>9. EditKeeps(c, new, r)
  BY <1>5, <1>6, <1>10 DEF EditKeeps
<1> QED BY <1>9 DEF new
\* Whatever is asked and accepted keeps the composition one.
LEMMA AskedKeeps ==
  ASSUME NEW c, Composed(c), NEW r \in Composer!Asked, Composer!Accepted(c, r)
  PROVE  EditKeeps(c, Composer!Result(c, r), r)
<1>1. /\ \A a \in Additions : a.tag \in STRING /\ a.name \in STRING
      /\ CopyNames \subseteq STRING /\ DemoModel \in Seq(Resource)
      /\ \A f \in Submissions : f \in Seq(Int \cup {None}) /\ Len(f) <= Len(DemoModel)
      /\ \A i, j \in DOMAIN DemoModel : DemoModel[i].name = DemoModel[j].name => i = j
  BY ComposerAssumption DEF Composer!IsComposition, Resource
<1>2. CASE r \in [kind : {"remove"}, name : Composer!EveryName \ {""}]
  <2>1. r.kind = "remove"
    BY <1>2
  <2>2. Composer!RemoveAccepted(c, r) /\ Composer!Result(c, r) = Composer!RemoveResource(c, r)
    BY <2>1 DEF Composer!Accepted, Composer!Result
  <2> QED BY <2>1, <2>2, RemoveKeeps
<1>3. CASE r \in [kind : {"duplicate"}, name : Composer!EveryName \ {""}, copy : CopyNames]
  <2>1. r.kind = "duplicate" /\ r.copy \in STRING
    BY <1>1, <1>3
  <2>2. Composer!DuplicateAccepted(c, r) /\ Composer!Result(c, r) = Composer!DuplicateResource(c, r)
    BY <2>1 DEF Composer!Accepted, Composer!Result
  <2> QED BY <2>1, <2>2, DuplicateKeeps
<1>4. CASE r \in {[kind |-> "add", tag |-> a.tag, name |-> a.name] : a \in Additions}
  <2>1. r.kind = "add" /\ r.tag \in STRING /\ r.name \in STRING
    BY <1>1, <1>4
  <2>2. Composer!AddAccepted(c, r) /\ Composer!Result(c, r) = Composer!AddResource(c, r)
    BY <2>1 DEF Composer!Accepted, Composer!Result
  <2> QED BY <2>1, <2>2, AddKeeps
<1>5. CASE r \in [kind : {"set"}, fields : Submissions]
  <2>1. r.kind = "set" /\ r.fields \in Seq(Int \cup {None}) /\ Len(r.fields) <= Len(DemoModel)
    BY <1>1, <1>5
  <2>2. Composer!Result(c, r) = Composer!Edited(c, r)
    BY <2>1 DEF Composer!Result
  <2> QED BY <1>1, <2>1, <2>2, SettingsKeep
<1> QED BY <1>2, <1>3, <1>4, <1>5 DEF Composer!Asked

-----------------------------------------------------------------------------
(***************************************************************************)
(* Requests that interleave: what of the history h the composition c       *)
(* shows, if it was made of the first m registrations.                     *)
(***************************************************************************)
Given(h, i) == Composer!GivenBy(h[i].asked)
SeenAfter(h, i, m) == \A j \in i + 1 .. m : h[j].after >= i
Spared(h, i, m) == \A j \in i + 1 .. m : h[j].asked.kind # "remove" \/ h[j].asked.name # Given(h, i)
NotAgain(h, i, m) == \A j \in i + 1 .. m : Given(h, j) # h[i].asked.name
Kept(h, i, c, m) ==
  SeenAfter(h, i, m) =>
    /\ h[i].asked.kind \in {"add", "duplicate"} /\ Spared(h, i, m) => Given(h, i) \in Composer!NamesOf(c)
    /\ h[i].asked.kind = "remove" /\ NotAgain(h, i, m) => h[i].asked.name \notin Composer!NamesOf(c)

DemoAsked == [kind |-> "demo"]
Registrations == [asked : Composer!Asked \cup {DemoAsked}, after : Nat]
Seen == Seq(Resource) \cup {None}
UserSteps == {"away", "nothing found", "edited"}
ComposerTyped ==
  /\ made # None => Composed(made)
  /\ given \in Seq(Registrations)
  /\ made = None <=> given = <<>>
  /\ held \in [Composers -> [step : UserSteps, seen : Seen, after : Nat,
                             asked : Composer!Asked \cup {None}, result : Seen]]
UnderWay(u) ==
  /\ held[u].step = "nothing found" => held[u].after = 0
  /\ held[u].step = "edited" =>
       /\ held[u].asked \in Composer!Asked
       /\ Composed(held[u].seen) /\ EditKeeps(held[u].seen, held[u].result, held[u].asked)
       /\ held[u].after <= Len(given)
       /\ \A i \in 1 .. held[u].after : Kept(given, i, held[u].seen, held[u].after)
HistoryKept == \A i \in DOMAIN given : Kept(given, i, made, Len(given))
ComposerInv ==
  running = "composer" => ComposerTyped /\ (\A u \in Composers : UnderWay(u)) /\ HistoryKept

\* What is true of the first m registrations stays so when others follow.
LEMMA KeptStays ==
  ASSUME NEW h \in Seq(Registrations), NEW e \in Registrations, NEW m \in Nat, m <= Len(h),
         NEW i \in 1 .. m, NEW c, Kept(h, i, c, m)
  PROVE  Kept(Append(h, e), i, c, m)
<1> DEFINE g == Append(h, e)
<1>1. \A j \in 1 .. Len(h) : g[j] = h[j]
  BY AppendProperties
<1>2. \A j \in i .. m : j \in 1 .. Len(h)
  OBVIOUS
<1>3. g[i] = h[i] /\ \A j \in i + 1 .. m : g[j] = h[j]
  BY <1>1, <1>2
<1> HIDE DEF g
<1>4. Kept(g, i, c, m)
  BY <1>3 DEF Kept, SeenAfter, Spared, NotAgain, Given
<1> QED BY <1>4 DEF g

\* A registration keeps what its request had seen, and adds its own.
LEMMA RegistrationKeeps ==
  ASSUME NEW h \in Seq(Registrations), NEW r, NEW a \in Nat, a <= Len(h),
         [asked |-> r, after |-> a] \in Registrations, NEW old, NEW new,
         \A i \in 1 .. a : Kept(h, i, old, a), a > 0 \/ r.kind # "demo" => EditKeeps(old, new, r)
  PROVE  LET g == Append(h, [asked |-> r, after |-> a]) IN
         \A i \in DOMAIN g : Kept(g, i, new, Len(g))
<1> DEFINE e == [asked |-> r, after |-> a]
           g == Append(h, e)
           n == Len(h)
           m == n + 1
<1>0. e.asked = r /\ e.after = a
  OBVIOUS
<1> HIDE DEF e
<1>1. n \in Nat /\ Len(g) = n + 1 /\ g[m] = e /\ DOMAIN g = 1 .. m /\ \A j \in 1 .. n : g[j] = h[j]
  BY AppendProperties DEF e
<1> HIDE DEF g
<1> SUFFICES ASSUME NEW i \in 1 .. m, SeenAfter(g, i, m) PROVE Kept(g, i, new, m)
  BY <1>1 DEF g, e, Kept
<1>2. CASE i = m
  <2>1. r.kind \in {"add", "duplicate", "remove"} => EditKeeps(old, new, r)
    OBVIOUS
  <2>2. g[i].asked = r /\ Given(g, i) = Composer!GivenBy(r)
    BY <1>0, <1>1, <1>2 DEF Given
  <2>3. r.kind \in {"add", "duplicate"} => Composer!GivenBy(r) \in Composer!NamesOf(new)
    BY <2>1 DEF EditKeeps
  <2>4. r.kind = "remove" => r.name \notin Composer!NamesOf(new)
    BY <2>1 DEF EditKeeps
  <2> QED BY <2>2, <2>3, <2>4 DEF Kept
<1>3. CASE i \in 1 .. n
  <2>1. m \in i + 1 .. m /\ a >= i
    <3>1. m \in i + 1 .. m
      BY <1>1, <1>3
    <3>2. g[m].after >= i
      BY <3>1 DEF SeenAfter
    <3> QED BY <1>0, <1>1, <3>1, <3>2
  <2>2. i \in 1 .. a /\ EditKeeps(old, new, r) /\ \A j \in i + 1 .. a : j \in i + 1 .. m /\ j \in 1 .. n
    BY <1>1, <1>3, <2>1
  <2>3. g[i] = h[i] /\ Given(g, i) = Given(h, i) /\ \A j \in i + 1 .. a : g[j] = h[j] /\ Given(g, j) = Given(h, j)
    BY <1>1, <1>3, <2>2 DEF Given
  <2>4. SeenAfter(h, i, a)
    BY <2>2, <2>3 DEF SeenAfter
  <2>5. g[m].asked = r /\ Given(g, m) = Composer!GivenBy(r)
    BY <1>0, <1>1 DEF Given
  <2>6. Kept(h, i, old, a)
    BY <2>2
  <2>7. ASSUME g[i].asked.kind \in {"add", "duplicate"}, Spared(g, i, m) PROVE Given(g, i) \in Composer!NamesOf(new)
    <3>1. Spared(h, i, a)
      BY <2>2, <2>3, <2>7 DEF Spared
    <3>2. Given(h, i) \in Composer!NamesOf(old)
      BY <2>3, <2>4, <2>6, <2>7, <3>1 DEF Kept
    <3>3. ~(r.kind = "remove" /\ r.name = Given(g, i))
      BY <2>1, <2>5, <2>7 DEF Spared
    <3> QED BY <2>2, <2>3, <3>2, <3>3 DEF EditKeeps
  <2>8. ASSUME g[i].asked.kind = "remove", NotAgain(g, i, m) PROVE g[i].asked.name \notin Composer!NamesOf(new)
    <3>1. NotAgain(h, i, a)
      BY <2>2, <2>3, <2>8 DEF NotAgain
    <3>2. h[i].asked.name \notin Composer!NamesOf(old)
      BY <2>3, <2>4, <2>6, <2>8, <3>1 DEF Kept
    <3>3. Composer!GivenBy(r) # g[i].asked.name
      BY <2>1, <2>5, <2>8 DEF NotAgain
    <3> QED BY <2>2, <2>3, <3>2, <3>3 DEF EditKeeps
  <2> QED BY <2>7, <2>8 DEF Kept
<1> QED BY <1>1, <1>2, <1>3
\* While a model is composed nothing else moves.
LEMMA ComposerSteps ==
  ASSUME [CalculationsNext]_calculationVars, running = "composer" \/ running' = "composer"
  PROVE  running = "composer" /\ (Composer!ComposerNext \/ UNCHANGED <<made, held, given>>)
  BY DEF CalculationsNext, calculationVars, ApplyDuty, ShareAssets, ListBenefits, ComposeBounds, OverrideLedger,
         UseSeries, StoreSeries, SpreadShapes, ComposeModel

\* What a registration of the composition config does to the kept invariant.
LEMMA RegisterKeeps ==
  ASSUME ComposerTyped, \A v \in Composers : UnderWay(v), HistoryKept, NEW u \in Composers, NEW config, Composed(config),
         NEW r \in Composer!Asked \cup {DemoAsked}, held[u].after <= Len(given), Composer!Register(u, config, r),
         \A i \in 1 .. held[u].after : Kept(given, i, held[u].seen, held[u].after),
         held[u].after > 0 \/ r.kind # "demo" => EditKeeps(held[u].seen, config, r)
  PROVE  ComposerTyped' /\ (\A v \in Composers : UnderWay(v)') /\ HistoryKept'
<1> DEFINE a == held[u].after
           e == [asked |-> r, after |-> a]
<1>1. made' = config /\ given' = Append(given, e) /\ held' = [held EXCEPT ![u] = Composer!Away]
  BY DEF Composer!Register
<1>2. a \in Nat /\ given \in Seq(Registrations) /\ e \in Registrations
  <2>1. a \in Nat
    BY DEF ComposerTyped
  <2> HIDE DEF a
  <2> QED BY <2>1 DEF ComposerTyped, Registrations
<1> HIDE DEF e
<1>3. given' \in Seq(Registrations) /\ Len(given') = Len(given) + 1 /\ given' # <<>> /\ Len(given) \in Nat
  BY <1>1, <1>2, AppendProperties
<1>4. held' \in [Composers -> [step : UserSteps, seen : Seen, after : Nat, asked : Composer!Asked \cup {None}, result : Seen]]
  <2>1. Composer!Away \in [step : UserSteps, seen : Seen, after : Nat, asked : Composer!Asked \cup {None}, result : Seen]
    BY DEF Composer!Away, UserSteps, Seen
  <2> QED BY <1>1, <2>1 DEF ComposerTyped
<1>5. config # None
  BY ComposerAssumption DEF Composed, Composer!IsComposition
<1>6. ComposerTyped'
  BY <1>1, <1>3, <1>4, <1>5 DEF ComposerTyped
<1>7. ASSUME NEW v \in Composers PROVE UnderWay(v)'
  <2>1. CASE v = u
    <3>1. held'[v] = Composer!Away
      BY <1>1, <2>1 DEF ComposerTyped
    <3>2. held'[v].step = "away"
      BY <3>1 DEF Composer!Away
    <3> QED BY <3>2 DEF UnderWay
  <2>2. CASE v # u
    <3>1. held'[v] = held[v] /\ held[v].after \in Nat
      BY <1>1, <2>2 DEF ComposerTyped
    <3>2. UnderWay(v)
      OBVIOUS
    <3>3. ASSUME held[v].step = "edited", NEW i \in 1 .. held[v].after PROVE Kept(given', i, held[v].seen, held[v].after)
      <4>1. held[v].after <= Len(given) /\ Kept(given, i, held[v].seen, held[v].after)
        BY <3>2, <3>3 DEF UnderWay
      <4> QED BY <1>1, <1>2, <3>1, <4>1, KeptStays
    <3>4. held[v].step = "edited" => held[v].after <= Len(given')
      <4>1. held[v].step = "edited" => held[v].after <= Len(given)
        BY <3>2 DEF UnderWay
      <4> QED BY <1>3, <3>1, <4>1
    <3> QED BY <3>1, <3>2, <3>3, <3>4 DEF UnderWay
  <2> QED BY <2>1, <2>2
<1>8. HistoryKept'
  <2>1. LET g == Append(given, [asked |-> r, after |-> a]) IN \A i \in DOMAIN g : Kept(g, i, config, Len(g))
    <3>1. \A i \in 1 .. a : Kept(given, i, held[u].seen, a)
      OBVIOUS
    <3>2. a > 0 \/ r.kind # "demo" => EditKeeps(held[u].seen, config, r)
      OBVIOUS
    <3>3. a <= Len(given) /\ [asked |-> r, after |-> a] \in Registrations
      BY <1>2 DEF e
    <3> HIDE DEF a
    <3> QED BY <1>2, <3>1, <3>2, <3>3, RegistrationKeeps
  <2> QED BY <1>1, <2>1 DEF HistoryKept, e
<1> QED BY <1>6, <1>7, <1>8

\* Every step keeps ComposerInv.
LEMMA ComposerInductive ==
  ASSUME ComposerInv, [CalculationsNext]_calculationVars
  PROVE  ComposerInv'
<1> SUFFICES ASSUME running' = "composer" PROVE ComposerTyped' /\ (\A v \in Composers : UnderWay(v)') /\ HistoryKept'
  BY DEF ComposerInv
<1>1. running = "composer" /\ (Composer!ComposerNext \/ UNCHANGED <<made, held, given>>)
  BY ComposerSteps
<1>2. ComposerTyped /\ (\A v \in Composers : UnderWay(v)) /\ HistoryKept
  BY <1>1 DEF ComposerInv
<1>3. CASE UNCHANGED <<made, held, given>>
  <2>1. ComposerTyped' /\ HistoryKept'
    BY <1>2, <1>3 DEF ComposerTyped, HistoryKept
  <2>2. \A v \in Composers : UnderWay(v)'
    BY <1>2, <1>3 DEF UnderWay
  <2> QED BY <2>1, <2>2
<1>4. ASSUME NEW u \in Composers, Composer!OpenScreen(u)
      PROVE  ComposerTyped' /\ (\A v \in Composers : UnderWay(v)') /\ HistoryKept'
  <2>1. /\ made = None /\ held' = [held EXCEPT ![u].step = "nothing found", ![u].after = Len(given)]
        /\ UNCHANGED <<made, given>>
    BY <1>4 DEF Composer!OpenScreen
  <2>2. Len(given) = 0
    <3>1. given = <<>>
      BY <1>2, <2>1 DEF ComposerTyped
    <3> QED BY <3>1
  <2>3. held'[u].step = "nothing found" /\ held'[u].after = 0 /\ \A v \in Composers : v # u => held'[v] = held[v]
    BY <1>2, <2>1, <2>2 DEF ComposerTyped
  <2>4. ComposerTyped'
    <3> DEFINE Requests == [step : UserSteps, seen : Seen, after : Nat, asked : Composer!Asked \cup {None}, result : Seen]
               r == [held[u] EXCEPT !.step = "nothing found", !.after = Len(given)]
    <3>1. held \in [Composers -> Requests]
      BY <1>2 DEF ComposerTyped
    <3>2. r \in Requests
      <4>1. held[u] \in Requests
        <5> HIDE DEF Requests
        <5> QED BY <3>1
      <4>2. Len(given) \in Nat /\ "nothing found" \in UserSteps
        BY <2>2 DEF UserSteps
      <4> QED BY <4>1, <4>2
    <3>3. held' = [held EXCEPT ![u] = r]
      <4> HIDE DEF Requests
      <4> QED BY <2>1, <3>1
    <3>4. held' \in [Composers -> Requests]
      <4> HIDE DEF Requests, r
      <4> QED BY <3>1, <3>2, <3>3
    <3>5. made' = made /\ given' = given
      BY <2>1
    <3> QED BY <1>2, <3>4, <3>5, Zenon DEF ComposerTyped
  <2>5. ASSUME NEW v \in Composers PROVE UnderWay(v)'
    BY <1>2, <2>1, <2>3 DEF UnderWay
  <2>6. HistoryKept'
    BY <1>2, <2>1 DEF HistoryKept
  <2> QED BY <2>4, <2>5, <2>6
<1>5. ASSUME NEW u \in Composers, Composer!RegisterDemo(u)
      PROVE  ComposerTyped' /\ (\A v \in Composers : UnderWay(v)') /\ HistoryKept'
  <2>1. held[u].step = "nothing found" /\ Composer!Register(u, DemoModel, DemoAsked)
    BY <1>5 DEF Composer!RegisterDemo, DemoAsked
  <2>2. held[u].after = 0 /\ UnderWay(u)
    BY <1>2, <2>1 DEF UnderWay
  <2>3. Composed(DemoModel) /\ DemoAsked.kind = "demo" /\ DemoAsked \in Composer!Asked \cup {DemoAsked} /\ 0 <= Len(given)
    BY <1>2, ComposerAssumption DEF Composed, DemoAsked, ComposerTyped
  <2>4. \A i \in 1 .. held[u].after : Kept(given, i, held[u].seen, held[u].after)
    BY <2>2
  <2>5. ~(held[u].after > 0 \/ DemoAsked.kind # "demo")
    BY <2>2, <2>3
  <2> QED BY <1>2, <2>1, <2>2, <2>3, <2>4, <2>5, RegisterKeeps
<1>6. ASSUME NEW u \in Composers, Composer!RegisterEdit(u)
      PROVE  ComposerTyped' /\ (\A v \in Composers : UnderWay(v)') /\ HistoryKept'
  <2>1. held[u].step = "edited" /\ Composer!Register(u, held[u].result, held[u].asked)
    BY <1>6 DEF Composer!RegisterEdit
  <2>2. /\ held[u].asked \in Composer!Asked /\ EditKeeps(held[u].seen, held[u].result, held[u].asked)
        /\ held[u].after <= Len(given)
        /\ \A i \in 1 .. held[u].after : Kept(given, i, held[u].seen, held[u].after)
    BY <1>2, <2>1 DEF UnderWay
  <2>3. Composed(held[u].result)
    BY <2>2 DEF EditKeeps
  <2> QED BY <1>2, <2>1, <2>2, <2>3, RegisterKeeps
<1>7. ASSUME NEW u \in Composers, NEW r \in Composer!Asked, Composer!Edit(u, r)
      PROVE  ComposerTyped' /\ (\A v \in Composers : UnderWay(v)') /\ HistoryKept'
  <2> DEFINE new == Composer!Result(made, r)
  <2>1. /\ made # None /\ Composer!Accepted(made, r) /\ UNCHANGED <<made, given>>
        /\ held' = [held EXCEPT ![u] = [step |-> "edited", seen |-> made, after |-> Len(given), asked |-> r, result |-> new]]
    BY <1>7 DEF Composer!Edit
  <2>2. Composed(made) /\ EditKeeps(made, new, r)
    BY <1>2, <2>1, AskedKeeps DEF ComposerTyped
  <2> HIDE DEF new
  <2>3. made \in Seen /\ new \in Seen /\ Len(given) \in Nat /\ DOMAIN given = 1 .. Len(given)
    BY <1>2, <2>2 DEF EditKeeps, Composed, Composer!IsComposition, Seen, Resource, ComposerTyped
  <2>4. ComposerTyped'
    <3>1. [step |-> "edited", seen |-> made, after |-> Len(given), asked |-> r, result |-> new]
            \in [step : UserSteps, seen : Seen, after : Nat, asked : Composer!Asked \cup {None}, result : Seen]
      BY <2>3 DEF UserSteps
    <3> QED BY <1>2, <2>1, <3>1 DEF ComposerTyped
  <2>5. /\ held'[u] = [step |-> "edited", seen |-> made, after |-> Len(given), asked |-> r, result |-> new]
        /\ \A v \in Composers : v # u => held'[v] = held[v]
    BY <1>2, <2>1 DEF ComposerTyped
  <2>6. \A i \in 1 .. Len(given) : Kept(given, i, made, Len(given))
    BY <1>2, <2>3 DEF HistoryKept
  <2>7. ASSUME NEW v \in Composers PROVE UnderWay(v)'
    <3>1. CASE v = u
      <4>1. /\ held'[v].step = "edited" /\ held'[v].seen = made /\ held'[v].after = Len(given)
            /\ held'[v].asked = r /\ held'[v].result = new /\ given' = given
        BY <2>1, <2>5, <3>1
      <4>2. Len(given) <= Len(given)
        BY <2>3
      <4> QED BY <2>2, <2>6, <4>1, <4>2 DEF UnderWay
    <3>2. CASE v # u
      BY <1>2, <2>1, <2>5, <3>2 DEF UnderWay
    <3> QED BY <3>1, <3>2
  <2>8. HistoryKept'
    BY <1>2, <2>1 DEF HistoryKept
  <2> QED BY <2>4, <2>7, <2>8
<1>8. ASSUME NEW u \in Composers, NEW r \in Composer!Asked, Composer!RefuseEdit(u, r)
      PROVE  UNCHANGED <<made, held, given>>
  BY <1>8 DEF Composer!RefuseEdit, Composer!composerVars
<1> QED BY <1>1, <1>3, <1>4, <1>5, <1>6, <1>7, <1>8 DEF Composer!ComposerNext

\* From ComposerInv what is said of the composition of a model follows.
LEMMA ComposerImplies ==
  ASSUME ComposerInv, running = "composer"
  PROVE  Composer!ComposerKeepsEdits
<1>1. ComposerTyped /\ (\A v \in Composers : UnderWay(v)) /\ HistoryKept
  BY DEF ComposerInv
<1>2. Composer!NamesIdentify
  <2>1. \A T : Composer!Cardinality(T) = Cardinality(T)
    BY Zenon DEF Composer!Cardinality, Cardinality
  <2> QED BY <1>1, <2>1, NamesCount DEF Composer!NamesIdentify, ComposerTyped
<1>3. Composer!EditsTouchTheirOwn
  BY <1>1 DEF Composer!EditsTouchTheirOwn, UnderWay, EditKeeps
<1>4. Composer!NothingLostAlone
  <2> SUFFICES ASSUME NEW i \in DOMAIN given, Composer!SeenByTheRest(i)
               PROVE  LET r == given[i].asked
                          later == {given[j].asked : j \in i + 1 .. Len(given)} IN
                      /\ r.kind \in {"add", "duplicate"} /\ (\A s \in later : s.kind # "remove" \/ s.name # Composer!GivenBy(r)) =>
                           Composer!GivenBy(r) \in Composer!NamesOf(made)
                      /\ r.kind = "remove" /\ (\A s \in later : Composer!GivenBy(s) # r.name) => r.name \notin Composer!NamesOf(made)
    BY DEF Composer!NothingLostAlone
  <2>1. Kept(given, i, made, Len(given)) /\ SeenAfter(given, i, Len(given))
    BY <1>1 DEF HistoryKept, SeenAfter, Composer!SeenByTheRest
  <2> QED BY <2>1 DEF Kept, Spared, NotAgain, Given
<1> QED BY <1>2, <1>3, <1>4 DEF Composer!ComposerKeepsEdits

-----------------------------------------------------------------------------
(***************************************************************************)
(* A series from its upload to its use.  Gaps are filled from the first to *)
(* the last, so what is left of a gap has been filled when its turn comes  *)
(* and what is right of it is still as it was measured.                    *)
(***************************************************************************)
\* The operators of Functions and FiniteSetsExt are those of SumTheorems.
LEMMA SeriesSums ==
  /\ \A f, T : Series!SumFunctionOnSet(f, T) = SumFunctionOnSet(f, T)
  /\ \A T : Series!Cardinality(T) = Cardinality(T)
<1>1. \A f, T : Series!SumFunctionOnSet(f, T) = SumFunctionOnSet(f, T)
  BY Zenon DEF Series!SumFunctionOnSet, SumFunctionOnSet, Series!FoldFunctionOnSet, FoldFunctionOnSet,
               Series!MapThenFoldSet, MapThenFoldSet
<1>2. \A T : Series!Cardinality(T) = Cardinality(T)
  BY Zenon DEF Series!Cardinality, Cardinality
<1> QED BY <1>1, <1>2
\* The sums of the instance are those of SumTheorems.
LEMMA SeriesSum == \A s : Series!Sum(s) = SumFunction(s)
<1>1. \A f : Series!SumFunction(f) = SumFunction(f)
  BY SeriesSums DEF Series!SumFunction, SumFunction
<1> QED BY <1>1 DEF Series!Sum
\* The sequences that the instance puts end to end are those of SumTheorems.
LEMMA SeriesFlattens == \A ss : Series!FlattenSeq(ss) = FlattenSeq(ss)
  BY Zenon DEF Series!FlattenSeq, FlattenSeq

\* The nearest values of a series on both sides of a place, and how a gap
\* follows from what was measured.
IsLast(s, i, l) == l \in Series!Left(s, i) /\ \A j \in Series!Left(s, i) : j <= l
IsNext(s, i, r) == r \in Series!Right(s, i) /\ \A j \in Series!Right(s, i) : r <= j
Between(v, l, r, i, x) == \E q \in Int : v[r] - v[l] = q * (r - l) /\ x = v[l] + q * (i - l)
Straight(v, i, x) ==
  \/ Series!Left(v, i) = {} /\ \E r : IsNext(v, i, r) /\ x = v[r]
  \/ Series!Right(v, i) = {} /\ \E l : IsLast(v, i, l) /\ x = v[l]
  \/ \E l, r : IsLast(v, i, l) /\ IsNext(v, i, r) /\ Between(v, l, r, i, x)
Before(v, i) == {0} \cup {v[j] : j \in Series!Left(v, i)}
Within(v, i, x) == x \in Int /\ (\E a \in Before(v, i) : a <= x) /\ (\E b \in Before(v, i) : x <= b)
Follows(v, i, x) == IF given.policy = "interpolate" THEN Straight(v, i, x) ELSE Within(v, i, x)
Number == Int \cup {None}

\* What holds while gaps are filled: s is v with its first gaps filled.
Filled(s, v) ==
  /\ v \in Seq(Number) /\ s \in Seq(Number) /\ Len(s) = Len(v)
  /\ \A i \in Series!Present(v) : s[i] = v[i]
  /\ \A i \in Series!Gaps(v) \ Series!Gaps(s) : Follows(v, i, s[i])
  /\ \A i, j \in Series!Gaps(v) : i < j /\ i \in Series!Gaps(s) => j \in Series!Gaps(s)

\* The next gap: all before it is filled, nothing behind it.
NextGap(s, v, i) ==
  /\ i \in Series!Gaps(s) /\ i \in Series!Gaps(v) /\ i \in 1 .. Len(v)
  /\ Series!Left(s, i) = 1 .. i - 1
  /\ Series!Right(s, i) = Series!Right(v, i)
  /\ \A j \in 1 .. i - 1 : j \in DOMAIN s /\ s[j] \in Int
  /\ \A j \in Series!Right(v, i) : s[j] = v[j] /\ v[j] \in Int
\* The first gap has no gap before it.
LEMMA FirstGap ==
  ASSUME NEW v, NEW s, Filled(s, v), Series!Gaps(s) # {}, None \notin Int
  PROVE  NextGap(s, v, Series!Min(Series!Gaps(s)))
<1> DEFINE i == Series!Min(Series!Gaps(s))
           n == Len(v)
<1>0. Series!Gaps(s) # {}
  OBVIOUS
<1>1. n \in Nat /\ DOMAIN v = 1 .. n /\ DOMAIN s = 1 .. n /\ \A j \in 1 .. n : s[j] \in Number /\ v[j] \in Number
  BY DEF Filled
<1>2. i \in Series!Gaps(s) /\ \A j \in Series!Gaps(s) : i <= j
  <2>1. Series!Gaps(s) \subseteq 1 .. n
    BY <1>1 DEF Series!Gaps
  <2>2. IsFiniteSet(1 .. n) /\ \A x \in Series!Gaps(s) : x \in Int
    BY <1>1, <2>1, FS_Interval
  <2> HIDE DEF n
  <2>4. IsFiniteSet(Series!Gaps(s))
    BY <2>1, <2>2, FS_Subset
  <2>3. \E x \in Series!Gaps(s) : \A y \in Series!Gaps(s) : x <= y
    BY <1>0, <2>2, <2>4, FiniteExtremes
  <2> QED BY <2>3 DEF Series!Min
<1> HIDE DEF i
<1>3. i \in 1 .. n /\ s[i] = None /\ v[i] = None /\ i \in Series!Gaps(v)
  BY <1>1, <1>2 DEF Series!Gaps, Series!Present, Filled
<1>4. \A j \in 1 .. i - 1 : j \in 1 .. n /\ s[j] \in Int
  BY <1>1, <1>2, <1>3 DEF Series!Gaps, Series!Present, Number
<1>5. Series!Left(s, i) = 1 .. i - 1
  BY <1>1, <1>3, <1>4 DEF Series!Left, Series!Present
<1>6. Series!Right(s, i) = Series!Right(v, i)
  <2>1. ASSUME NEW j \in 1 .. n, j > i PROVE j \in Series!Present(s) <=> j \in Series!Present(v)
    <3>1. CASE j \in Series!Present(v)
      BY <1>1, <3>1 DEF Filled, Series!Present
    <3>2. CASE j \notin Series!Present(v)
      BY <1>1, <1>2, <1>3, <2>1, <3>2 DEF Filled, Series!Present, Series!Gaps
    <3> QED BY <3>1, <3>2
  <2>2. Series!Present(s) \subseteq 1 .. n /\ Series!Present(v) \subseteq 1 .. n
    BY <1>1 DEF Series!Present
  <2> QED BY <2>1, <2>2 DEF Series!Right
<1>7. \A j \in Series!Right(v, i) : s[j] = v[j] /\ v[j] \in Int
  BY <1>1 DEF Series!Right, Filled, Series!Present, Number
<1> QED BY <1>1, <1>2, <1>3, <1>4, <1>5, <1>6, <1>7 DEF NextGap, i

\* The nearest on either side, where there are some.
LEMMA Nearest ==
  ASSUME NEW s \in Seq(Number), NEW i \in Int
  PROVE  /\ Series!Left(s, i) # {} => IsLast(s, i, Series!Max(Series!Left(s, i)))
         /\ Series!Right(s, i) # {} => IsNext(s, i, Series!Min(Series!Right(s, i)))
<1>1. Len(s) \in Nat /\ DOMAIN s = 1 .. Len(s)
  OBVIOUS
<1>2. Series!Left(s, i) \subseteq 1 .. Len(s) /\ Series!Right(s, i) \subseteq 1 .. Len(s)
  BY <1>1 DEF Series!Left, Series!Right, Series!Present
<1>3. IsFiniteSet(1 .. Len(s)) /\ \A j \in 1 .. Len(s) : j \in Int
  BY <1>1, FS_Interval
<1>4. ASSUME Series!Left(s, i) # {} PROVE IsLast(s, i, Series!Max(Series!Left(s, i)))
  <2> DEFINE T == Series!Left(s, i)
  <2>1. IsFiniteSet(T) /\ \A j \in T : j \in Int
    BY <1>2, <1>3, FS_Subset
  <2> HIDE DEF T
  <2>2. T # {}
    BY <1>4 DEF T
  <2>3. \E x \in T : \A y \in T : x >= y
    BY <2>1, <2>2, FiniteExtremes
  <2>4. Series!Max(T) \in T /\ \A y \in T : Series!Max(T) >= y
    BY <2>3 DEF Series!Max
  <2>5. \A y \in T : y <= Series!Max(T)
    BY <2>1, <2>4
  <2> QED BY <2>4, <2>5 DEF IsLast, T
<1>5. ASSUME Series!Right(s, i) # {} PROVE IsNext(s, i, Series!Min(Series!Right(s, i)))
  <2> DEFINE T == Series!Right(s, i)
  <2>1. IsFiniteSet(T) /\ \A j \in T : j \in Int
    BY <1>2, <1>3, FS_Subset
  <2> HIDE DEF T
  <2>2. T # {}
    BY <1>5 DEF T
  <2>3. \E x \in T : \A y \in T : x <= y
    BY <2>1, <2>2, FiniteExtremes
  <2>4. Series!Min(T) \in T /\ \A y \in T : Series!Min(T) <= y
    BY <2>3 DEF Series!Min
  <2> QED BY <2>4 DEF IsNext, T
<1> QED BY <1>4, <1>5

\* A gap next to a gap has the same neighbours.
SameSides(v, i) ==
  /\ Series!Left(v, i - 1) = Series!Left(v, i)
  /\ Series!Right(v, i - 1) = Series!Right(v, i)
\* Two gaps side by side have the same values beside them.
LEMMA GapByGap ==
  ASSUME NEW v \in Seq(Number), NEW i \in Series!Gaps(v), i - 1 \in Series!Gaps(v)
  PROVE  SameSides(v, i)
<1>1. Len(v) \in Nat /\ DOMAIN v = 1 .. Len(v)
  OBVIOUS
<1>2. i \in 1 .. Len(v) /\ i \notin Series!Present(v) /\ i - 1 \notin Series!Present(v) /\ Series!Present(v) \subseteq 1 .. Len(v)
  BY <1>1 DEF Series!Gaps, Series!Present
<1>3. \A j \in Series!Present(v) : (j < i - 1 <=> j < i) /\ (j > i - 1 <=> j > i)
  BY <1>1, <1>2
<1> QED BY <1>3 DEF SameSides, Series!Left, Series!Right

\* A gap that is interpolated lies on the line between the values measured around it.
LEMMA LineGoesOn ==
  ASSUME NEW v, NEW s, Filled(s, v), NEW i, NextGap(s, v, i), None \notin Int,
         given.policy = "interpolate", Series!Present(v) # {},
         \A a, b \in DOMAIN v : Series!Neighbours(v, a, b) => (v[b] - v[a]) % (b - a) = 0
  PROVE  Straight(v, i, Series!Interpolated(s, i)) /\ Series!Interpolated(s, i) \in Int
<1> DEFINE n == Len(v)
           k == i - 1
           x == Series!Interpolated(s, i)
<1>1. n \in Nat /\ DOMAIN v = 1 .. n /\ DOMAIN s = 1 .. n /\ v \in Seq(Number) /\ s \in Seq(Number)
  BY DEF Filled
<1>2. i \in 1 .. n /\ i \in Int /\ Series!Left(s, i) = 1 .. k /\ Series!Right(s, i) = Series!Right(v, i) /\ i \in Series!Gaps(v)
  BY DEF NextGap
<1>3. Series!Present(v) \subseteq 1 .. n /\ i \notin Series!Present(v) /\ \A j \in Series!Present(v) : v[j] \in Int
  BY <1>1, <1>2 DEF Series!Present, Series!Gaps, Number
<1>4. CASE i = 1
  <2>1. Series!Left(v, i) = {} /\ Series!Left(s, i) = {}
    BY <1>1, <1>2, <1>3, <1>4 DEF Series!Left
  <2>2. Series!Right(v, i) # {}
    <3>1. PICK j : j \in Series!Present(v)
      OBVIOUS
    <3>2. j > i
      BY <1>1, <1>2, <1>3, <1>4, <3>1
    <3> QED BY <3>1, <3>2 DEF Series!Right
  <2> DEFINE r == Series!Min(Series!Right(s, i))
  <2>3. IsNext(v, i, r)
    BY <1>1, <1>2, <2>2, Nearest
  <2>4. x = s[r]
    BY <2>1 DEF Series!Interpolated
  <2>5. s[r] = v[r] /\ v[r] \in Int
    BY <2>3 DEF NextGap, IsNext
  <2> QED BY <2>1, <2>3, <2>4, <2>5 DEF Straight
<1>5. CASE i # 1
  <2>1. k \in 1 .. n /\ k \in Int /\ i = k + 1 /\ k < i
    BY <1>1, <1>2, <1>5
  <2>2. IsLast(s, i, Series!Max(Series!Left(s, i))) /\ Series!Left(s, i) # {}
    <3>1. k \in Series!Left(s, i)
      BY <1>2, <2>1
    <3>2. Series!Left(s, i) # {}
      BY <3>1
    <3> QED BY <1>1, <1>2, <3>2, Nearest
  <2>3. Series!Max(Series!Left(s, i)) = k
    BY <1>2, <2>1, <2>2 DEF IsLast
  <2>4. s[k] \in Int
    BY <2>1 DEF NextGap
  <2>5. CASE Series!Right(v, i) = {}
    <3>1. x = s[k]
      BY <1>2, <2>2, <2>3, <2>5 DEF Series!Interpolated
    <3>2. CASE k \in Series!Present(v)
      <4>1. IsLast(v, i, k)
        BY <1>1, <1>2, <1>3, <2>1, <3>2 DEF IsLast, Series!Left
      <4>2. s[k] = v[k]
        BY <3>2 DEF Filled
      <4> QED BY <2>4, <2>5, <3>1, <4>1, <4>2 DEF Straight
    <3>3. CASE k \notin Series!Present(v)
      <4>1. k \in Series!Gaps(v) /\ k \notin Series!Gaps(s)
        BY <1>1, <2>1, <2>4, <3>3 DEF Series!Gaps, Series!Present
      <4>2. Straight(v, k, s[k])
        BY <4>1 DEF Filled, Follows
      <4>3. SameSides(v, i)
        BY <1>1, <1>2, <4>1, GapByGap
      <4>4. PICK l : IsLast(v, k, l) /\ s[k] = v[l]
        BY <2>5, <4>2, <4>3 DEF Straight, SameSides, IsNext
      <4>5. IsLast(v, i, l)
        BY <4>3, <4>4 DEF SameSides, IsLast
      <4> QED BY <2>4, <2>5, <3>1, <4>4, <4>5 DEF Straight
    <3> QED BY <3>2, <3>3
  <2>6. CASE Series!Right(v, i) # {}
    <3> DEFINE r == Series!Min(Series!Right(v, i))
               d == r - k
    <3>1. IsNext(v, i, r)
      BY <1>1, <1>2, <2>6, Nearest
    <3>2. r \in 1 .. n /\ r \in Int /\ r > i /\ r \in Series!Present(v) /\ v[r] \in Int /\ s[r] = v[r]
      BY <1>1, <1>2, <1>3, <3>1 DEF IsNext, Series!Right, NextGap
    <3>3. x = s[k] + ((v[r] - s[k]) * (i - k)) \div d
      BY <1>2, <2>2, <2>3, <2>6, <3>2 DEF Series!Interpolated
    <3> HIDE DEF r, x
    <3>4. d \in Nat /\ d # 0
      BY <2>1, <3>2
    <3>5. ASSUME NEW q \in Int, v[r] - s[k] = q * d PROVE x = s[k] + q
      <4>1. (v[r] - s[k]) * (i - k) = q * d
        BY <2>1, <2>4, <3>2, <3>5
      <4> HIDE DEF d
      <4>2. (q * d) \div d = q
        BY <3>4, Exact
      <4> QED BY <3>3, <4>1, <4>2
    <3>6. CASE k \in Series!Present(v)
      <4>1. IsLast(v, i, k)
        BY <1>1, <1>2, <1>3, <2>1, <3>6 DEF IsLast, Series!Left
      <4>2. s[k] = v[k]
        BY <3>6 DEF Filled
      <4>3. Series!Neighbours(v, k, r)
        <5>1. ASSUME NEW j \in k + 1 .. r - 1 PROVE v[j] = None
          <6>1. j \in 1 .. n /\ j >= i /\ j < r
            BY <1>1, <1>2, <2>1, <3>2
          <6>2. j \notin Series!Present(v)
            BY <1>2, <1>3, <3>1, <3>2, <6>1 DEF IsNext, Series!Right
          <6> QED BY <1>1, <6>1, <6>2 DEF Series!Present
        <5> QED BY <2>1, <3>2, <3>6, <5>1 DEF Series!Neighbours
      <4>4. (v[r] - v[k]) % d = 0
        BY <1>1, <2>1, <3>2, <4>3
      <4>5. PICK q \in Int : v[r] - v[k] = q * d
        <5> DEFINE a == v[r] - v[k]
        <5>1. a \in Int
          BY <2>4, <3>2, <4>2
        <5> HIDE DEF a, d
        <5>2. a % d = 0
          BY <4>4 DEF a
        <5> QED BY <3>4, <5>1, <5>2, Divides DEF a
      <4>6. x = v[k] + q * (i - k)
        <5>1. x = s[k] + q
          BY <3>5, <4>2, <4>5
        <5> QED BY <2>1, <4>2, <5>1
      <4>7. Between(v, k, r, i, x) /\ x \in Int
        <5>1. x = s[k] + q
          BY <3>5, <4>2, <4>5
        <5>2. x \in Int
          BY <2>4, <5>1
        <5> QED BY <4>5, <4>6, <5>2 DEF Between
      <4> QED BY <3>1, <4>1, <4>7 DEF Straight, x
    <3>7. CASE k \notin Series!Present(v)
      <4>1. k \in Series!Gaps(v) /\ k \notin Series!Gaps(s)
        BY <1>1, <2>1, <2>4, <3>7 DEF Series!Gaps, Series!Present
      <4>2. Straight(v, k, s[k])
        BY <4>1 DEF Filled, Follows
      <4>3. SameSides(v, i)
        BY <1>1, <1>2, <4>1, GapByGap
      <4>4. \A t : (IsNext(v, k, t) <=> IsNext(v, i, t)) /\ (IsLast(v, k, t) <=> IsLast(v, i, t))
        BY <4>3 DEF SameSides, IsLast, IsNext
      <4>5. \A t : IsNext(v, i, t) => t = r
        BY <1>1, <1>3, <3>1, <3>2 DEF IsNext, Series!Right
      <4>6. CASE Series!Left(v, k) = {}
        <5>1. s[k] = v[r]
          BY <4>2, <4>4, <4>5, <4>6 DEF Straight, IsLast
        <5>2. v[r] - s[k] = 0 * d
          BY <3>2, <3>4, <5>1
        <5>3. x = s[k] + 0
          BY <3>5, <5>2
        <5>4. x = v[r] /\ x \in Int
          BY <2>4, <5>1, <5>3
        <5> QED BY <3>1, <4>3, <4>6, <5>4 DEF Straight, SameSides, x
      <4>7. CASE Series!Left(v, k) # {}
        <5>1. PICK l : IsLast(v, k, l) /\ Between(v, l, r, k, s[k])
          BY <2>6, <4>2, <4>3, <4>4, <4>5, <4>7 DEF Straight, SameSides
        <5>2. l \in 1 .. n /\ l \in Int /\ v[l] \in Int
          BY <1>1, <1>3, <5>1 DEF IsLast, Series!Left
        <5>3. PICK q \in Int : v[r] - v[l] = q * (r - l) /\ s[k] = v[l] + q * (k - l)
          BY <5>1 DEF Between
        <5>4. v[r] - s[k] = q * d
          <6>1. v[r] - s[k] = q * (r - l) - q * (k - l)
            <7> DEFINE a == q * (r - l)
                       b == q * (k - l)
            <7>1. a \in Int /\ b \in Int /\ v[r] - v[l] = a /\ s[k] = v[l] + b
              BY <2>1, <3>2, <5>2, <5>3
            <7> HIDE DEF a, b
            <7>2. v[r] - s[k] = a - b
              BY <3>2, <5>2, <7>1
            <7> QED BY <7>2 DEF a, b
          <6>2. q * (r - l) - q * (k - l) = q * (r - k)
            BY <2>1, <3>2, <5>2
          <6> QED BY <6>1, <6>2
        <5>5. x = s[k] + q
          BY <3>5, <5>4
        <5>6. x = v[l] + q * (i - l)
          <6>1. q * (k - l) + q = q * (i - l)
            BY <2>1, <5>2
          <6> DEFINE a == q * (k - l)
          <6>2. a \in Int /\ s[k] = v[l] + a /\ a + q = q * (i - l)
            BY <2>1, <5>2, <5>3, <6>1
          <6> HIDE DEF a
          <6>3. x = v[l] + (a + q)
            BY <5>2, <5>5, <6>2
          <6> QED BY <6>2, <6>3
        <5>7. Between(v, l, r, i, x) /\ x \in Int
          BY <2>4, <5>3, <5>5, <5>6 DEF Between
        <5>8. IsLast(v, i, l)
          BY <4>4, <5>1
        <5> QED BY <3>1, <5>7, <5>8 DEF Straight, x
      <4> QED BY <4>6, <4>7
    <3> QED BY <3>6, <3>7
  <2> QED BY <2>5, <2>6
<1> QED BY <1>4, <1>5

\* What lies before a gap has a smallest and a largest member.
LEMMA BeforeBounded ==
  ASSUME NEW v \in Seq(Number), NEW i \in Int, None \notin Int
  PROVE  /\ \A x \in Before(v, i) : x \in Int
         /\ \E a \in Before(v, i) : \A y \in Before(v, i) : a <= y
         /\ \E b \in Before(v, i) : \A y \in Before(v, i) : b >= y
<1> DEFINE L == Series!Left(v, i)
           T == {v[j] : j \in L}
           B == Before(v, i)
<1>1. Len(v) \in Nat /\ DOMAIN v = 1 .. Len(v) /\ \A j \in 1 .. Len(v) : v[j] \in Number
  OBVIOUS
<1>2. L \subseteq 1 .. Len(v) /\ \A j \in L : v[j] \in Int
  BY <1>1 DEF Series!Left, Series!Present, Number
<1>3. IsFiniteSet(T)
  <2>1. IsFiniteSet(1 .. Len(v))
    BY <1>1, FS_Interval
  <2>2. IsFiniteSet(L)
    BY <1>2, <2>1, FS_Subset
  <2> HIDE DEF L
  <2> QED BY <2>2, ReachedIsFinite DEF Reached
<1>4. B = T \cup {0}
  BY DEF Before
<1>5. IsFiniteSet(B) /\ B # {}
  <2> HIDE DEF T, B
  <2>1. IsFiniteSet(T \cup {0})
    BY <1>3, FS_AddElement
  <2> QED BY <1>4, <2>1
<1>6. \A x \in B : x \in Int
  BY <1>2, <1>4
<1>7. (\E x \in B : \A y \in B : x <= y) /\ (\E x \in B : \A y \in B : x >= y)
  <2> HIDE DEF B
  <2> QED BY <1>5, <1>6, FiniteExtremes
<1> QED BY <1>6, <1>7

\* A mean of the window before a gap stays within what was measured before it.
LEMMA MeanStays ==
  ASSUME NEW v, NEW s, Filled(s, v), NEW i, NextGap(s, v, i), None \notin Int, given.policy # "interpolate"
  PROVE  Within(v, i, Series!PriorMean(s, i))
<1> DEFINE n == Len(v)
           W == Series!Window(s, i)
           B == Before(v, i)
<1>1. n \in Nat /\ DOMAIN v = 1 .. n /\ DOMAIN s = 1 .. n /\ v \in Seq(Number) /\ s \in Seq(Number)
  BY DEF Filled
<1>2. i \in 1 .. n /\ i \in Int /\ Series!Left(s, i) = 1 .. i - 1 /\ i \in Series!Gaps(v)
  BY DEF NextGap
<1>3. W \subseteq 1 .. i - 1
  BY <1>2 DEF Series!Window
<1>4. \A x \in B : x \in Int
  BY <1>1, <1>2, BeforeBounded
<1>5. PICK a \in B : \A y \in B : a <= y
  BY <1>1, <1>2, BeforeBounded
<1>6. PICK b \in B : \A y \in B : b >= y
  BY <1>1, <1>2, BeforeBounded
<1>7. ASSUME NEW j \in 1 .. i - 1 PROVE s[j] \in Int /\ a <= s[j] /\ s[j] <= b
  <2>1. s[j] \in Int /\ j \in 1 .. n /\ j < i
    BY <1>1, <1>2 DEF NextGap
  <2>2. CASE j \in Series!Present(v)
    <3>1. s[j] = v[j] /\ j \in Series!Left(v, i)
      BY <2>1, <2>2 DEF Filled, Series!Left
    <3>2. s[j] \in B
      BY <3>1 DEF Before
    <3> QED BY <1>4, <1>5, <1>6, <2>1, <3>2
  <2>3. CASE j \notin Series!Present(v)
    <3>1. j \in Series!Gaps(v) /\ j \notin Series!Gaps(s)
      BY <1>1, <2>1, <2>3 DEF Series!Gaps, Series!Present
    <3>2. Within(v, j, s[j])
      BY <3>1 DEF Filled, Follows
    <3>3. Before(v, j) \subseteq B
      <4>1. Series!Present(v) \subseteq 1 .. n
        BY <1>1 DEF Series!Present
      <4>2. Series!Left(v, j) \subseteq Series!Left(v, i)
        BY <1>1, <1>2, <2>1, <4>1 DEF Series!Left
      <4> QED BY <4>2 DEF Before
    <3>4. PICK c \in B, d \in B : c <= s[j] /\ s[j] <= d
      BY <3>2, <3>3 DEF Within
    <3>5. a \in Int /\ b \in Int /\ c \in Int /\ d \in Int /\ a <= c /\ d <= b
      BY <1>4, <1>5, <1>6
    <3> QED BY <2>1, <3>4, <3>5
  <2> QED BY <2>2, <2>3
<1>8. CASE W = {}
  <2>1. Series!PriorMean(s, i) = 0 /\ 0 \in B
    BY <1>8 DEF Series!PriorMean, Before
  <2> QED BY <2>1 DEF Within
<1>9. CASE W # {}
  <2> DEFINE x == SumFunctionOnSet(s, W) \div Cardinality(W)
  <2>1. Series!PriorMean(s, i) = x
    BY <1>9, SeriesSums DEF Series!PriorMean
  <2>2. IsFiniteSet(W)
    <3>1. IsFiniteSet(1 .. i - 1)
      BY <1>2, FS_Interval
    <3> HIDE DEF W
    <3> QED BY <1>3, <3>1, FS_Subset
  <2>3. \A j \in W : s[j] \in Int /\ a <= s[j] /\ s[j] <= b
    BY <1>3, <1>7
  <2>4. a \in Int /\ b \in Int
    BY <1>4, <1>5, <1>6
  <2>5. x \in Int /\ a <= x /\ x <= b
    <3> HIDE DEF W
    <3> QED BY <1>9, <2>2, <2>3, <2>4, MeanWithin
  <2> HIDE DEF x
  <2> QED BY <2>1, <2>5 DEF Within
<1> QED BY <1>8, <1>9

\* Filling the next gap with what follows for it.
LEMMA FillKeeps ==
  ASSUME NEW v, NEW s, Filled(s, v), NEW i, NextGap(s, v, i), NEW x \in Int, Follows(v, i, x), None \notin Int
  PROVE  Filled([s EXCEPT ![i] = x], v)
<1> DEFINE n == Len(v)
           t == [s EXCEPT ![i] = x]
<1>1. n \in Nat /\ DOMAIN v = 1 .. n /\ DOMAIN s = 1 .. n /\ v \in Seq(Number) /\ s \in Seq(Number) /\ Len(s) = n
  BY DEF Filled
<1>2. i \in 1 .. n /\ Series!Left(s, i) = 1 .. i - 1 /\ i \in Series!Gaps(v) /\ i \in Series!Gaps(s)
  BY DEF NextGap
<1>3. t \in Seq(Number) /\ Len(t) = n /\ DOMAIN t = 1 .. n /\ t[i] = x /\ \A j \in 1 .. n \ {i} : t[j] = s[j]
  BY <1>1, <1>2 DEF Number
<1> HIDE DEF t
<1>4. Series!Gaps(t) = Series!Gaps(s) \ {i}
  BY <1>1, <1>2, <1>3 DEF Series!Gaps, Series!Present
<1>5. \A j \in Series!Present(v) : t[j] = v[j]
  BY <1>1, <1>2, <1>3 DEF Filled, Series!Gaps, Series!Present
<1>6. \A j \in Series!Gaps(v) \ Series!Gaps(t) : Follows(v, j, t[j])
  <2> SUFFICES ASSUME NEW j \in Series!Gaps(v) \ Series!Gaps(t) PROVE Follows(v, j, t[j])
    OBVIOUS
  <2>1. CASE j = i
    BY <1>3, <2>1
  <2>2. CASE j # i
    <3>1. j \in 1 .. n /\ j \notin Series!Gaps(s)
      BY <1>1, <1>4, <2>2 DEF Series!Gaps
    <3> QED BY <1>3, <2>2, <3>1 DEF Filled
  <2> QED BY <2>1, <2>2
<1>7. ASSUME NEW j \in Series!Gaps(v), NEW k \in Series!Gaps(v), j < k, j \in Series!Gaps(t) PROVE k \in Series!Gaps(t)
  <2>1. j \in Series!Gaps(s) /\ j # i /\ k \in Series!Gaps(s) /\ j \in 1 .. n /\ k \in 1 .. n
    BY <1>1, <1>4, <1>7 DEF Filled, Series!Gaps
  <2>2. j \notin 1 .. i - 1
    BY <1>2, <2>1 DEF Series!Left, Series!Gaps
  <2>3. k # i
    BY <1>1, <1>2, <1>7, <2>1, <2>2
  <2> QED BY <1>4, <2>1, <2>3
<1> QED BY <1>1, <1>3, <1>5, <1>6, <1>7 DEF Filled, t

\* The hours of the m-th month, and where they lie in the year.
MonthOf(m) == FlattenSeq([d \in 1 .. MonthDays[m] |-> Series!DayOf(m)])
\* The hours of a month add up to its reading.
LEMMA MonthSum ==
  ASSUME given \in Uploads, given.kind = "monthly", Series!WeightsWhole, NEW m \in DOMAIN MonthDays
  PROVE  /\ MonthOf(m) \in Seq(Int) /\ Len(MonthOf(m)) = SeriesHours * MonthDays[m]
         /\ SumFunction(MonthOf(m)) = given.months[m]
<1> DEFINE u == given.weights
           a == given.months[m]
           c == MonthDays[m]
           part == ByWeight(u, a, 10 * c)
<1>1. Series!IsUpload(given)
  BY UploadsAssumption
<1>2. /\ given.months \in Seq(Int) /\ u \in Seq(Int)
      /\ \A k \in DOMAIN given.months \cap DOMAIN MonthDays, h \in DOMAIN u : (given.months[k] * u[h]) % (10 * MonthDays[k]) = 0
  BY <1>1 DEF Series!IsUpload
<1>3. Len(given.months) = Len(MonthDays) /\ Len(u) = SeriesHours /\ SumFunction(u) = 10
  BY SeriesSum DEF Series!WeightsWhole
<1>4. m \in DOMAIN given.months /\ m \in DOMAIN MonthDays /\ c \in Nat \ {0} /\ a \in Int
  <2>1. MonthDays \in Seq(Nat \ {0})
    BY UploadsAssumption
  <2> QED BY <1>2, <1>3, <2>1
<1>5. Divided(u, a, 10 * c)
  BY <1>2, <1>4 DEF Divided
<1>6. Series!DayOf(m) = part
  BY <1>3 DEF Series!DayOf, ByWeight
<1>7. part \in Seq(Int) /\ Len(part) = SeriesHours /\ c * SumFunction(part) = a
  <2> DEFINE b == 10 * c
  <2>1. b = c * 10 /\ 10 \in Nat \ {0}
    BY <1>4
  <2> HIDE DEF u, a, c, b
  <2>2. WholeIn(ByWeight(u, a, b), u, a, b, c)
    BY <1>2, <1>3, <1>4, <1>5, <2>1, SpreadByWeights DEF u, b
  <2> QED BY <1>3, <2>2 DEF WholeIn, b
<1>8. MonthOf(m) = FlattenSeq([d \in 1 .. c |-> part])
  BY <1>6 DEF MonthOf
<1> HIDE DEF part, c, a
<1>9. MonthOf(m) \in Seq(Int) /\ Len(MonthOf(m)) = c * SeriesHours /\ SumFunction(MonthOf(m)) = c * SumFunction(part)
  BY <1>4, <1>7, <1>8, FlattenCopies
<1>10. c * SeriesHours = SeriesHours * c
  BY <1>4, UploadsAssumption
<1> QED BY <1>7, <1>9, <1>10 DEF c, a

\* A year that was estimated has the sums of its months.
LEMMA MonthsFollow ==
  ASSUME given \in Uploads, given.kind = "monthly", Series!WeightsWhole, made = Series!Hourly
  PROVE  Series!MonthsKept
<1> DEFINE n == Len(MonthDays)
           parts == [m \in DOMAIN MonthDays |-> MonthOf(m)]
<1>1. n \in Nat /\ DOMAIN MonthDays = 1 .. n /\ MonthDays \in Seq(Nat) /\ SeriesHours \in Nat
  BY UploadsAssumption
<1>2. \A m \in 1 .. n : MonthOf(m) \in Seq(Int) /\ Len(MonthOf(m)) = SeriesHours * MonthDays[m]
  BY <1>1, MonthSum
<1>3. parts \in Seq(Seq(Int)) /\ Len(parts) = n /\ \A m \in 1 .. n : parts[m] = MonthOf(m)
  BY <1>1, <1>2
<1>4. made = FlattenSeq(parts)
  BY SeriesFlattens DEF Series!Hourly, MonthOf
<1> HIDE DEF parts
<1>5. PartsLie(made, parts, MonthDays, SeriesHours)
  <2>1. Len(MonthDays) = Len(parts) /\ \A m \in 1 .. Len(parts) : Len(parts[m]) = SeriesHours * MonthDays[m]
    BY <1>2, <1>3
  <2>2. PartsLie(FlattenSeq(parts), parts, MonthDays, SeriesHours)
    BY <1>1, <1>3, <2>1, PartsOfFlattened
  <2> QED BY <1>4, <2>2
<1>6. ASSUME NEW m \in DOMAIN MonthDays
      PROVE  LET from == SeriesHours * SumFunction(SubSeq(MonthDays, 1, m - 1)) IN
             SumFunction(SubSeq(made, from + 1, from + SeriesHours * MonthDays[m])) = given.months[m]
  BY <1>1, <1>3, <1>5, MonthSum DEF PartsLie
<1> QED BY <1>6, SeriesSum DEF Series!MonthsKept

\* What holds of an upload at every step, and of the data sets that are shared.
LibraryTyped ==
  /\ held = [sets |-> held.sets, refs |-> held.refs, uses |-> held.uses, saw |-> held.saw]
  /\ DOMAIN held.refs = DataSets /\ DOMAIN held.saw = DataSets
  /\ \A d \in DataSets : DOMAIN held.saw[d] = Sharers
CsvFilled ==
  given.kind = "csv" /\ mark \in {"filling", "filled"} =>
    /\ Series!Acceptable /\ Filled(made, given.values)
    /\ mark = "filled" => Series!Gaps(made) = {}
YearEstimated ==
  given.kind = "monthly" => mark # "filling" /\ (mark = "filled" => Series!WeightsWhole /\ made = Series!Hourly)
SeriesInv ==
  running = "series" =>
    /\ given \in Uploads
    /\ LibraryTyped /\ Series!ReferredIsKept
    /\ CsvFilled /\ YearEstimated

\* While series are used nothing else moves.
LEMMA SeriesSteps ==
  ASSUME [CalculationsNext]_calculationVars, running = "series" \/ running' = "series"
  PROVE  running = "series" /\ (Series!Next \/ UNCHANGED <<given, made, mark, held>>)
  BY DEF CalculationsNext, calculationVars, ApplyDuty, ShareAssets, ListBenefits, ComposeBounds, OverrideLedger,
         UseSeries, StoreSeries, SpreadShapes, ComposeModel

\* The library while scenarios share it.
LEMMA LibraryKeeps ==
  ASSUME LibraryTyped, Series!ReferredIsKept, Series!Share
  PROVE  LibraryTyped' /\ Series!ReferredIsKept'
<1> DEFINE sets == held.sets
           refs == held.refs
           saw == held.saw
<1>1. DOMAIN refs = DataSets /\ DOMAIN saw = DataSets /\ \A d \in DataSets : DOMAIN saw[d] = Sharers
  BY DEF LibraryTyped
<1>2. \A d \in DataSets : \A u \in refs[d] : d \in DOMAIN sets /\ sets[d] = saw[d][u]
  BY DEF Series!ReferredIsKept, Series!Registered
<1>3. PICK d \in DataSets :
        \/ \E data \in {made, SubSeq(made, 1, 1)} : Series!Register(d, data)
        \/ \E u \in Sharers : Series!Bind(d, u) \/ Series!Unbind(d, u) \/ Series!Swap(u, d)
        \/ Series!Delete(d)
  BY DEF Series!Share
<1>4. ASSUME NEW data, Series!Register(d, data) PROVE LibraryTyped' /\ Series!ReferredIsKept'
  <2>1. /\ held' = [held EXCEPT !.sets = held'.sets]
        /\ held'.sets = IF d \in DOMAIN sets THEN sets
                        ELSE [e \in DOMAIN sets \cup {d} |-> IF e = d THEN data ELSE sets[e]]
    BY <1>4 DEF Series!Register, Series!Registered, LibraryTyped
  <2>2. held'.refs = refs /\ held'.saw = saw /\ LibraryTyped'
    BY <2>1 DEF LibraryTyped
  <2>3. \A e \in DOMAIN sets : e \in DOMAIN held'.sets /\ held'.sets[e] = sets[e]
    BY <2>1
  <2> QED BY <1>2, <2>2, <2>3 DEF Series!ReferredIsKept, Series!Registered
<1>5. ASSUME NEW u \in Sharers, Series!Bind(d, u) PROVE LibraryTyped' /\ Series!ReferredIsKept'
  <2>1. /\ d \in DOMAIN sets
        /\ held' = [held EXCEPT !.refs[d] = @ \cup {u}, !.saw[d][u] = IF u \in refs[d] THEN @ ELSE sets[d]]
    BY <1>5 DEF Series!Bind, Series!Registered
  <2>2. /\ held'.sets = sets
        /\ held'.refs = [refs EXCEPT ![d] = @ \cup {u}]
        /\ held'.saw = [saw EXCEPT ![d] = [saw[d] EXCEPT ![u] = IF u \in refs[d] THEN saw[d][u] ELSE sets[d]]]
        /\ held' = [sets |-> held'.sets, refs |-> held'.refs, uses |-> held'.uses, saw |-> held'.saw]
    <3>1. held = [sets |-> sets, refs |-> refs, uses |-> held.uses, saw |-> saw]
      BY DEF LibraryTyped
    <3> DEFINE r == [refs EXCEPT ![d] = @ \cup {u}]
               s == [saw EXCEPT ![d] = [saw[d] EXCEPT ![u] = IF u \in refs[d] THEN saw[d][u] ELSE sets[d]]]
               g == [sets |-> sets, refs |-> r, uses |-> held.uses, saw |-> saw]
    <3>2. [held EXCEPT !.refs[d] = @ \cup {u}] = g
      <4> HIDE DEF sets, refs, saw
      <4>1. [held EXCEPT !.refs[d] = @ \cup {u}] = [held EXCEPT !.refs = [held.refs EXCEPT ![d] = @ \cup {u}]]
        BY Zenon
      <4> QED BY <3>1, <4>1
    <3>3. held' = [g EXCEPT !.saw[d][u] = IF u \in refs[d] THEN @ ELSE sets[d]]
      BY <2>1, <3>2, Zenon
    <3>4. held' = [sets |-> sets, refs |-> r, uses |-> held.uses, saw |-> s]
      <4>1. held' = [g EXCEPT !.saw = [g.saw EXCEPT ![d] = [g.saw[d] EXCEPT ![u] = IF u \in refs[d] THEN g.saw[d][u] ELSE sets[d]]]]
        <5> HIDE DEF r, sets, refs, saw, g
        <5> QED BY <3>3, Zenon
      <4>2. g.saw = saw
        OBVIOUS
      <4>3. [g.saw EXCEPT ![d] = [g.saw[d] EXCEPT ![u] = IF u \in refs[d] THEN g.saw[d][u] ELSE sets[d]]] = s
        <5> DEFINE x == g.saw
        <5>1. x = saw
          BY <4>2
        <5> HIDE DEF r, sets, refs, saw, g, x
        <5>2. [x EXCEPT ![d] = [x[d] EXCEPT ![u] = IF u \in refs[d] THEN x[d][u] ELSE sets[d]]] = s
          BY <5>1
        <5> QED BY <5>2 DEF x
      <4>4. held' = [g EXCEPT !.saw = s]
        <5> HIDE DEF r, s, sets, refs, saw, g
        <5> QED BY <4>1, <4>3, Zenon
      <4> HIDE DEF r, s, sets, refs, saw
      <4> QED BY <4>4
    <3> QED BY <3>4
  <2>3. LibraryTyped'
    BY <1>1, <2>2 DEF LibraryTyped
  <2>4. ASSUME NEW e \in DataSets, NEW w \in held'.refs[e] PROVE e \in DOMAIN held'.sets /\ held'.sets[e] = held'.saw[e][w]
    <3>1. CASE e = d /\ w = u
      BY <1>1, <1>2, <2>1, <2>2, <3>1
    <3>2. CASE ~(e = d /\ w = u)
      <4>1. w \in refs[e] /\ held'.saw[e][w] = saw[e][w]
        BY <1>1, <2>2, <2>4, <3>2
      <4> QED BY <1>2, <2>2, <4>1
    <3> QED BY <3>1, <3>2
  <2> QED BY <2>3, <2>4 DEF Series!ReferredIsKept, Series!Registered
<1>6. ASSUME NEW u \in Sharers, Series!Unbind(d, u) PROVE LibraryTyped' /\ Series!ReferredIsKept'
  <2>1. held' = [held EXCEPT !.refs[d] = @ \ {u}, !.saw[d][u] = None]
    BY <1>6 DEF Series!Unbind
  <2>2. /\ held'.sets = sets
        /\ held'.refs = [refs EXCEPT ![d] = @ \ {u}]
        /\ held'.saw = [saw EXCEPT ![d] = [saw[d] EXCEPT ![u] = None]]
        /\ held' = [sets |-> held'.sets, refs |-> held'.refs, uses |-> held'.uses, saw |-> held'.saw]
    BY <2>1 DEF LibraryTyped
  <2>3. LibraryTyped'
    BY <1>1, <2>2 DEF LibraryTyped
  <2>4. ASSUME NEW e \in DataSets, NEW w \in held'.refs[e] PROVE e \in DOMAIN held'.sets /\ held'.sets[e] = held'.saw[e][w]
    <3>1. w \in refs[e] /\ ~(e = d /\ w = u)
      BY <1>1, <2>2, <2>4
    <3>2. held'.saw[e][w] = saw[e][w]
      BY <1>1, <2>2, <3>1
    <3> QED BY <1>2, <2>2, <3>1, <3>2
  <2> QED BY <2>3, <2>4 DEF Series!ReferredIsKept, Series!Registered
<1>7. ASSUME NEW u \in Sharers, Series!Swap(u, d) PROVE LibraryTyped' /\ Series!ReferredIsKept'
  <2> DEFINE used == [held.uses EXCEPT ![u] = sets[d]]
  <2>1. held' = [held EXCEPT !.uses = used]
    BY <1>7 DEF Series!Swap
  <2>2. /\ held'.sets = sets /\ held'.refs = refs /\ held'.saw = saw
        /\ held' = [sets |-> held'.sets, refs |-> held'.refs, uses |-> held'.uses, saw |-> held'.saw]
    <3> HIDE DEF used
    <3>1. held' = [sets |-> held.sets, refs |-> held.refs, uses |-> used, saw |-> held.saw]
      BY <2>1 DEF LibraryTyped
    <3> QED BY <3>1
  <2> QED BY <1>1, <1>2, <2>2 DEF LibraryTyped, Series!ReferredIsKept, Series!Registered
<1>8. ASSUME Series!Delete(d) PROVE LibraryTyped' /\ Series!ReferredIsKept'
  <2>1. refs[d] = {} /\ held' = [held EXCEPT !.sets = [e \in DOMAIN sets \ {d} |-> @[e]]]
    BY <1>8 DEF Series!Delete, Series!Registered
  <2>2. /\ held'.sets = [e \in DOMAIN sets \ {d} |-> sets[e]] /\ held'.refs = refs /\ held'.saw = saw
        /\ held' = [sets |-> held'.sets, refs |-> held'.refs, uses |-> held'.uses, saw |-> held'.saw]
    BY <2>1 DEF LibraryTyped
  <2> QED BY <1>1, <1>2, <2>1, <2>2 DEF LibraryTyped, Series!ReferredIsKept, Series!Registered
<1> QED BY <1>3, <1>4, <1>5, <1>6, <1>7, <1>8

\* What an upload is that may be filled.
LEMMA CsvUpload ==
  ASSUME given \in Uploads, given.kind = "csv"
  PROVE  /\ given.values \in Seq(Number) /\ None \notin Int
         /\ given.policy = "interpolate" =>
              \A a, b \in DOMAIN given.values :
                Series!Neighbours(given.values, a, b) => (given.values[b] - given.values[a]) % (b - a) = 0
<1>1. Series!IsUpload(given) /\ None \notin Int
  BY UploadsAssumption
<1> QED BY <1>1 DEF Series!IsUpload, Number

\* Every step keeps SeriesInv.
LEMMA SeriesInductive ==
  ASSUME SeriesInv, [CalculationsNext]_calculationVars
  PROVE  SeriesInv'
<1> SUFFICES ASSUME running' = "series"
             PROVE  given' \in Uploads /\ LibraryTyped' /\ Series!ReferredIsKept' /\ CsvFilled' /\ YearEstimated'
  BY DEF SeriesInv
<1>1. running = "series" /\ (Series!Next \/ UNCHANGED <<given, made, mark, held>>)
  BY SeriesSteps
<1>2. given \in Uploads /\ LibraryTyped /\ Series!ReferredIsKept /\ CsvFilled /\ YearEstimated
  BY <1>1 DEF SeriesInv
<1>4. ASSUME UNCHANGED <<given, held>> PROVE given' \in Uploads /\ LibraryTyped' /\ Series!ReferredIsKept'
  BY <1>2, <1>4 DEF LibraryTyped, Series!ReferredIsKept, Series!Registered
<1>5. ASSUME UNCHANGED given PROVE /\ (Series!Acceptable' <=> Series!Acceptable) /\ (Series!WeightsWhole' <=> Series!WeightsWhole)
                                   /\ Series!Hourly' = Series!Hourly
                                   /\ \A s, v : Filled(s, v)' <=> Filled(s, v)
  <2>1. (Series!Acceptable' <=> Series!Acceptable) /\ (Series!WeightsWhole' <=> Series!WeightsWhole)
    BY <1>5 DEF Series!Acceptable, Series!Uploadable, Series!SchemaFits, Series!WeightsWhole
  <2>2. Series!Hourly' = Series!Hourly
    BY <1>5 DEF Series!Hourly, Series!DayOf
  <2>3. \A s, v : Filled(s, v)' <=> Filled(s, v)
    BY <1>5 DEF Filled, Follows
  <2> QED BY <2>1, <2>2, <2>3
<1>3. CASE UNCHANGED <<given, made, mark, held>>
  BY <1>2, <1>3, <1>4, <1>5 DEF CsvFilled, YearEstimated, Series!Gaps, Series!Present
<1>6. CASE Series!Validate
  <2>1. given.kind = "csv" /\ UNCHANGED <<given, held>>
    BY <1>6 DEF Series!Validate
  <2>2. CASE Series!Acceptable
    <3>1. made' = given.values /\ mark' = "filling"
      BY <1>6, <2>2 DEF Series!Validate
    <3>2. Filled(given.values, given.values)
      <4>1. given.values \in Seq(Number)
        BY <1>2, <2>1, CsvUpload
      <4> QED BY <4>1 DEF Filled
    <3> QED BY <1>4, <1>5, <2>1, <2>2, <3>1, <3>2 DEF CsvFilled, YearEstimated
  <2>3. CASE ~Series!Acceptable
    <3>1. mark' = "refused"
      BY <1>6, <2>3 DEF Series!Validate
    <3> QED BY <1>4, <2>1, <3>1 DEF CsvFilled, YearEstimated
  <2> QED BY <2>2, <2>3
<1>7. CASE Series!Fill
  <2>1. mark = "filling" /\ UNCHANGED <<given, held>>
    BY <1>7 DEF Series!Fill
  <2>2. CASE given.kind # "csv"
    <3>1. given.kind = "monthly"
      BY <1>2, <2>2, UploadsAssumption DEF Series!IsUpload
    <3> QED BY <1>2, <2>1, <3>1 DEF YearEstimated
  <2>3. CASE given.kind = "csv"
    <3> DEFINE v == given.values
    <3>1. Series!Acceptable /\ Filled(made, v) /\ v \in Seq(Number) /\ None \notin Int
      BY <1>2, <2>1, <2>3, CsvUpload DEF CsvFilled
    <3>2. CASE Series!Gaps(made) = {}
      <4>1. mark' = "filled" /\ made' = made
        BY <1>7, <3>2 DEF Series!Fill
      <4> QED BY <1>4, <1>5, <2>1, <2>3, <3>1, <3>2, <4>1 DEF CsvFilled, YearEstimated
    <3>3. CASE Series!Gaps(made) # {}
      <4> DEFINE i == Series!Min(Series!Gaps(made))
                 x == Series!FillGap(made, i)
      <4>1. mark' = "filling" /\ made' = [made EXCEPT ![i] = x]
        BY <1>7, <2>1, <3>3 DEF Series!Fill
      <4>2. NextGap(made, v, i)
        BY <3>1, <3>3, FirstGap
      <4> HIDE DEF i
      <4>3. Follows(v, i, x) /\ x \in Int
        <5>1. CASE given.policy = "interpolate"
          <6>1. Series!Present(v) # {}
            <7>1. Series!Gaps(v) # {}
              BY <4>2 DEF NextGap
            <7> QED BY <3>1, <5>1, <7>1 DEF Series!Acceptable
          <6>2. \A a, b \in DOMAIN v : Series!Neighbours(v, a, b) => (v[b] - v[a]) % (b - a) = 0
            BY <1>2, <2>3, <5>1, CsvUpload
          <6>3. x = Series!Interpolated(made, i)
            BY <5>1 DEF Series!FillGap
          <6> HIDE DEF v, x
          <6>4. Straight(v, i, x) /\ x \in Int
            BY <3>1, <4>2, <5>1, <6>1, <6>2, <6>3, LineGoesOn
          <6> QED BY <5>1, <6>4 DEF Follows
        <5>2. CASE given.policy # "interpolate"
          <6>1. x = Series!PriorMean(made, i)
            BY <5>2 DEF Series!FillGap
          <6> HIDE DEF v, x
          <6>2. Within(v, i, x)
            BY <3>1, <4>2, <5>2, <6>1, MeanStays
          <6> QED BY <5>2, <6>2 DEF Follows, Within
        <5> QED BY <5>1, <5>2
      <4>4. Filled(made', v)
        <5> HIDE DEF v, x
        <5>1. Filled([made EXCEPT ![i] = x], v)
          BY <3>1, <4>2, <4>3, FillKeeps
        <5> QED BY <4>1, <5>1
      <4> QED BY <1>4, <1>5, <2>1, <2>3, <3>1, <4>1, <4>4 DEF CsvFilled, YearEstimated
    <3> QED BY <3>2, <3>3
  <2> QED BY <2>2, <2>3
<1>8. CASE Series!Estimate
  BY <1>4, <1>5, <1>8 DEF Series!Estimate, CsvFilled, YearEstimated
<1>9. CASE Series!Share
  <2>1. UNCHANGED <<given, made, mark>>
    BY <1>9 DEF Series!Share
  <2>2. LibraryTyped' /\ Series!ReferredIsKept'
    BY <1>2, <1>9, LibraryKeeps
  <2> QED BY <1>2, <1>5, <2>1, <2>2 DEF CsvFilled, YearEstimated
<1> QED BY <1>1, <1>3, <1>6, <1>7, <1>8, <1>9 DEF Series!Next

\* From SeriesInv what is said of a series follows.
LEMMA LineFollows ==
  ASSUME NEW v \in Seq(Number), NEW i \in Series!Gaps(v), Straight(v, i, made[i]), made[i] \in Number, None \notin Int,
         v = given.values
  PROVE  Series!OnTheLine(i)
<1> DEFINE L == Series!Left(v, i)
           R == Series!Right(v, i)
           l == Series!Max(L)
           r == Series!Min(R)
<1>1. Len(v) \in Nat /\ DOMAIN v = 1 .. Len(v) /\ i \in 1 .. Len(v) /\ i \in Int
  BY DEF Series!Gaps
<1>2. Series!Present(v) \subseteq 1 .. Len(v) /\ \A j \in Series!Present(v) : v[j] \in Int
  <2>1. \A j \in 1 .. Len(v) : v[j] \in Number
    BY <1>1
  <2> QED BY <1>1, <2>1 DEF Series!Present, Number
<1>3. L \subseteq 1 .. Len(v) /\ R \subseteq 1 .. Len(v)
  BY <1>2 DEF Series!Left, Series!Right
<1>4. (L # {} => IsLast(v, i, l)) /\ (R # {} => IsNext(v, i, r))
  BY <1>1, Nearest
<1>5. \A t : IsLast(v, i, t) => L # {} /\ t = l
  BY <1>1, <1>3, <1>4 DEF IsLast
<1>6. \A t : IsNext(v, i, t) => R # {} /\ t = r
  BY <1>1, <1>3, <1>4 DEF IsNext
<1>7. /\ L = {} => made[i] = v[r]
      /\ L # {} /\ R = {} => made[i] = v[l]
      /\ L # {} /\ R # {} => Between(v, l, r, i, made[i])
  BY <1>5, <1>6 DEF Straight
<1>8. ASSUME L # {}, R # {}
      PROVE  (made[i] - v[l]) * (r - l) = (v[r] - v[l]) * (i - l)
  <2>1. l \in Int /\ r \in Int /\ v[l] \in Int /\ v[r] \in Int
    <3> HIDE DEF l, r
    <3>1. l \in Series!Present(v) /\ r \in Series!Present(v)
      BY <1>4, <1>8 DEF IsLast, IsNext, Series!Left, Series!Right
    <3> QED BY <1>1, <1>2, <3>1
  <2>2. PICK q \in Int : v[r] - v[l] = q * (r - l) /\ made[i] = v[l] + q * (i - l)
    BY <1>7, <1>8 DEF Between
  <2> DEFINE a == r - l
             b == i - l
  <2>3. a \in Int /\ b \in Int /\ q * a \in Int /\ q * b \in Int
    <3> HIDE DEF l, r
    <3>1. a \in Int /\ b \in Int
      BY <1>1, <2>1
    <3> HIDE DEF a, b
    <3> QED BY <3>1
  <2>4. v[r] - v[l] = q * a /\ made[i] - v[l] = q * b
    <3> DEFINE p == q * b
    <3>1. p \in Int /\ made[i] = v[l] + p
      BY <2>2, <2>3
    <3> HIDE DEF p
    <3>2. made[i] - v[l] = p
      BY <2>1, <3>1
    <3> QED BY <2>2, <3>2 DEF p
  <2> HIDE DEF a, b
  <2>5. (q * b) * a = (q * a) * b
    BY <2>3
  <2>6. (made[i] - v[l]) * a = (v[r] - v[l]) * b
    BY <2>4, <2>5
  <2> QED BY <2>6 DEF a, b
<1>9. CASE L = {}
  BY <1>7, <1>9 DEF Series!OnTheLine
<1>10. CASE L # {} /\ R = {}
  BY <1>7, <1>10 DEF Series!OnTheLine
<1>11. CASE L # {} /\ R # {}
  BY <1>8, <1>11 DEF Series!OnTheLine
<1> QED BY <1>9, <1>10, <1>11

\* A value within those beside its gap is in the range that the property asks for.
LEMMA RangeFollows ==
  ASSUME NEW v \in Seq(Number), NEW i \in Series!Gaps(v), Within(v, i, made[i]), None \notin Int, v = given.values
  PROVE  Series!InRange(i)
<1> DEFINE B == Before(v, i)
           x == made[i]
<1>1. i \in Int
  <2>1. Len(v) \in Nat /\ DOMAIN v = 1 .. Len(v)
    OBVIOUS
  <2> QED BY <2>1 DEF Series!Gaps
<1>2. /\ \A y \in B : y \in Int
      /\ \E a \in B : \A y \in B : a <= y
      /\ \E b \in B : \A y \in B : b >= y
  BY <1>1, BeforeBounded
<1>3. Series!Min(B) \in B /\ \A y \in B : Series!Min(B) <= y
  <2> HIDE DEF B
  <2> QED BY <1>2 DEF Series!Min
<1>4. Series!Max(B) \in B /\ \A y \in B : Series!Max(B) >= y
  <2> HIDE DEF B
  <2> QED BY <1>2 DEF Series!Max
<1>5. x \in Int /\ (\E a \in B : a <= x) /\ (\E b \in B : x <= b)
  BY DEF Within
<1>6. Series!Min(B) <= x /\ x <= Series!Max(B)
  <2> DEFINE low == Series!Min(B)
             high == Series!Max(B)
  <2>1. low \in Int /\ high \in Int
    BY <1>2, <1>3, <1>4
  <2>2. (\A y \in B : y \in Int /\ low <= y /\ high >= y)
    BY <1>2, <1>3, <1>4
  <2> HIDE DEF low, high, B, x
  <2>3. low <= x /\ x <= high
    BY <1>5, <2>1, <2>2
  <2> QED BY <2>3 DEF low, high
<1>7. B = {0} \cup {given.values[j] : j \in Series!Left(given.values, i)}
  BY DEF Before
<1> HIDE DEF B
<1> QED BY <1>6, <1>7 DEF Series!InRange

\* While a calculation of a series runs, the invariant says that it keeps the series.
LEMMA SeriesImplies ==
  ASSUME SeriesInv, running = "series"
  PROVE  Series!SeriesAreKept
<1> SUFFICES ASSUME mark = "filled"
             PROVE  Series!FilledFromMeasured /\ Series!MonthsKept /\ Series!ReferredIsKept
  BY DEF Series!SeriesAreKept
<1>1. given \in Uploads /\ Series!ReferredIsKept /\ CsvFilled /\ YearEstimated
  BY DEF SeriesInv
<1>2. Series!MonthsKept
  <2>1. CASE given.kind = "monthly"
    BY <1>1, <2>1, MonthsFollow DEF YearEstimated
  <2>2. CASE given.kind # "monthly"
    BY <2>2 DEF Series!MonthsKept
  <2> QED BY <2>1, <2>2
<1>3. Series!FilledFromMeasured
  <2> SUFFICES ASSUME given.kind = "csv"
               PROVE  /\ Len(made) = given.rows
                      /\ \A i \in Series!Present(given.values) : made[i] = given.values[i]
                      /\ \A i \in Series!Gaps(given.values) :
                           IF given.policy = "interpolate" THEN Series!OnTheLine(i) ELSE Series!InRange(i)
    BY DEF Series!FilledFromMeasured
  <2> DEFINE v == given.values
  <2>1. Series!Acceptable /\ Filled(made, v) /\ Series!Gaps(made) = {} /\ v \in Seq(Number) /\ None \notin Int
    BY <1>1, CsvUpload DEF CsvFilled
  <2>2. Len(made) = given.rows
    BY <2>1 DEF Filled, Series!Acceptable, Series!SchemaFits
  <2>3. ASSUME NEW i \in Series!Gaps(v)
        PROVE  IF given.policy = "interpolate" THEN Series!OnTheLine(i) ELSE Series!InRange(i)
    <3>1. Follows(v, i, made[i])
      BY <2>1 DEF Filled
    <3>2. made[i] \in Number
      <4>1. made \in Seq(Number) /\ i \in DOMAIN made
        BY <2>1 DEF Filled, Series!Gaps
      <4> QED BY <4>1
    <3>3. CASE given.policy = "interpolate"
      BY <2>1, <3>1, <3>2, <3>3, LineFollows DEF Follows
    <3>4. CASE given.policy # "interpolate"
      BY <2>1, <3>1, <3>4, RangeFollows DEF Follows
    <3> QED BY <3>3, <3>4
  <2> QED BY <2>1, <2>2, <2>3 DEF Filled
<1> QED BY <1>1, <1>2, <1>3

-----------------------------------------------------------------------------
(***************************************************************************)
(* Whatever is uploaded, written or composed, by however many: every gap   *)
(* is filled from what was measured around it, a year has the sums of its  *)
(* months, a data set in use stays; what is read is what was written; an   *)
(* edit of a composition touches one resource and gets lost only to one    *)
(* that was under way (_apply_missing_policy, estimate_from_monthly_usage, *)
(* TimeSeriesDatasetRegistry, read_series, ModelCompositionService).       *)
(***************************************************************************)
THEOREM WorkStaysKept == CalculationsSpec => []WorkIsKept
<1> DEFINE Inv == SeriesInv /\ FilesInv /\ ComposerInv
<1>1. CalculationsInit => Inv
  <2> SUFFICES ASSUME CalculationsInit PROVE Inv
    OBVIOUS
  <2>1. ASSUME running = "series" PROVE SeriesInv
    <3>1. Series!Init
      BY <2>1 DEF CalculationsInit, RegulationInit, CommuneInit, BenefitsInit, BoundsInit, LedgerInit,
             SeriesInit, FilesInit, ShapesInit, ComposerInit
    <3> QED BY <3>1 DEF Series!Init, SeriesInv, LibraryTyped, Series!ReferredIsKept, CsvFilled, YearEstimated
  <2>2. ASSUME running = "files" PROVE FilesInv
    <3>1. Files!Init
      BY <2>2 DEF CalculationsInit, RegulationInit, CommuneInit, BenefitsInit, BoundsInit, LedgerInit,
             SeriesInit, FilesInit, ShapesInit, ComposerInit
    <3> QED BY <3>1 DEF Files!Init, FilesInv, FilesTyped, FileIsExpected, OnlyWritable, AloneIsWhole, WriterSteps, ReaderSteps
  <2>3. ASSUME running = "composer" PROVE ComposerInv
    <3>1. Composer!ComposerInit
      BY <2>3 DEF CalculationsInit, RegulationInit, CommuneInit, BenefitsInit, BoundsInit, LedgerInit,
             SeriesInit, FilesInit, ShapesInit, ComposerInit
    <3>2. Composer!Away \in [step : UserSteps, seen : Seen, after : Nat, asked : Composer!Asked \cup {None}, result : Seen]
      BY DEF Composer!Away, UserSteps, Seen
    <3>3. \A u \in Composers : held[u] = Composer!Away
      BY <3>1 DEF Composer!ComposerInit
    <3>4. ComposerTyped /\ HistoryKept
      BY <3>1, <3>2 DEF Composer!ComposerInit, ComposerTyped, HistoryKept
    <3>5. \A u \in Composers : UnderWay(u)
      <4> SUFFICES ASSUME NEW u \in Composers PROVE UnderWay(u)
        OBVIOUS
      <4>1. held[u].step = "away"
        BY <3>3 DEF Composer!Away
      <4> QED BY <4>1 DEF UnderWay
    <3> QED BY <3>4, <3>5 DEF ComposerInv
  <2>4. SeriesInv
    BY <2>1 DEF SeriesInv
  <2>5. FilesInv
    BY <2>2 DEF FilesInv
  <2>6. ComposerInv
    BY <2>3 DEF ComposerInv
  <2> QED BY <2>4, <2>5, <2>6
<1>2. Inv /\ [CalculationsNext]_calculationVars => Inv'
  BY SeriesInductive, FilesInductive, ComposerInductive
<1>3. Inv => WorkIsKept
  <2> SUFFICES ASSUME Inv PROVE WorkIsKept
    OBVIOUS
  <2>1. running = "series" => Series!SeriesAreKept
    BY SeriesImplies
  <2>2. running = "files" => Files!ReadIsWritten
    BY DEF FilesInv, FileIsExpected, AloneIsWhole, WholeFile, Files!ReadIsWritten
  <2>3. running = "composer" => Composer!ComposerKeepsEdits
    BY ComposerImplies
  <2> QED BY <2>1, <2>2, <2>3 DEF WorkIsKept
<1> QED BY <1>1, <1>2, <1>3, PTL DEF CalculationsSpec

-----------------------------------------------------------------------------
(***************************************************************************)
(* The shapes of a day (profiles.py).                                      *)
(***************************************************************************)
\* Its sums and joined sequences are those of SumTheorems.
LEMMA ShapeSums ==
  /\ \A s : YearShapes!Total(s) = SumFunction(s)
  /\ \A ss : YearShapes!FlattenSeq(ss) = FlattenSeq(ss)
  /\ \A T : YearShapes!Cardinality(T) = Cardinality(T)
<1>1. \A f, T : YearShapes!SumFunctionOnSet(f, T) = SumFunctionOnSet(f, T)
  BY Zenon DEF YearShapes!SumFunctionOnSet, SumFunctionOnSet, YearShapes!FoldFunctionOnSet, FoldFunctionOnSet,
               YearShapes!MapThenFoldSet, MapThenFoldSet
<1>2. \A f : YearShapes!SumFunction(f) = SumFunction(f)
  BY <1>1 DEF YearShapes!SumFunction, SumFunction
<1>3. \A ss : YearShapes!FlattenSeq(ss) = FlattenSeq(ss)
  BY Zenon DEF YearShapes!FlattenSeq, FlattenSeq
<1>4. \A T : YearShapes!Cardinality(T) = Cardinality(T)
  BY Zenon DEF YearShapes!Cardinality, Cardinality
<1> QED BY <1>2, <1>3, <1>4 DEF YearShapes!Total

\* Seasons as they are once loaded: w of them, k steps in a day.
Loaded(b, total, days, k) ==
  /\ k \in Nat \ {0} /\ days \in Nat \ {0} /\ total \in Int
  /\ Len(b) \in Nat \ {0} /\ DOMAIN b = 1 .. Len(b) /\ YearShapes!Steps(b) = k
  /\ \A p \in 1 .. Len(b) :
       /\ b[p].weights \in Seq(Int) /\ Len(b[p].weights) = k /\ b[p].share \in Int
       /\ SumFunction(b[p].weights) \in Nat \ {0}
       /\ YearShapes!NoRest(b[p], total, days)
  /\ SumFunction([p \in DOMAIN b |-> b[p].share]) = Tenths
\* A calendar that the shares can be spread over.
OnCalendar(b, total, days, cal) ==
  /\ cal \in Seq(Nat \ {0}) /\ Len(cal) = Len(b) /\ SumFunction(cal) = days
  /\ \A p \in 1 .. Len(b) : YearShapes!NoRest(b[p], total, cal[p])

\* What a season has, and what one of its days has of it if it has so many.
Portion(b, total, p) == total * b[p].share * Grain
DayOf(b, total, p, days) == [j \in DOMAIN b[p].weights |-> YearShapes!PerStep(total, b[p], days, j)]

\* A season spread over so many days has its share, and at every step as much as
\* if it were spread over any other number.
LEMMA DaysOfSeason ==
  ASSUME NEW b, NEW total, NEW days, NEW k, Loaded(b, total, days, k),
         NEW p \in 1 .. Len(b), NEW c \in Nat \ {0}, YearShapes!NoRest(b[p], total, c)
  PROVE  /\ Portion(b, total, p) \in Int
         /\ WholeIn(DayOf(b, total, p, c), b[p].weights, Portion(b, total, p), c * SumFunction(b[p].weights), c)
<1> DEFINE u == b[p].weights
           a == Portion(b, total, p)
           w == SumFunction(u)
           d == c * w
<1>1. u \in Seq(Int) /\ Len(u) = k /\ w \in Nat \ {0} /\ b[p].share \in Int /\ total \in Int
  BY DEF Loaded
<1>2. a \in Int
  BY <1>1, ShapesAssumption DEF Portion
<1>3. Divided(u, a, d)
  <2>1. YearShapes!Total(u) = SumFunction(u)
    BY ShapeSums
  <2> QED BY <2>1 DEF Divided, YearShapes!NoRest, Portion
<1>4. DayOf(b, total, p, c) = ByWeight(u, a, d)
  <2>1. DOMAIN u = 1 .. Len(u)
    BY <1>1
  <2>2. YearShapes!Total(u) = SumFunction(u)
    BY ShapeSums
  <2> QED BY <2>1, <2>2 DEF DayOf, YearShapes!PerStep, Portion, ByWeight
<1> HIDE DEF u, a, w
<1>5. WholeIn(ByWeight(u, a, d), u, a, d, c)
  <2>1. d = c * w /\ w = SumFunction(u)
    BY DEF w
  <2> HIDE DEF d
  <2> QED BY <1>1, <1>2, <1>3, <2>1, SpreadByWeights
<1> QED BY <1>2, <1>4, <1>5 DEF u, a, w

\* What a season has does not depend on the days it is spread over.
LEMMA AnyNumberOfDays ==
  ASSUME NEW b, NEW total, NEW days, NEW k, Loaded(b, total, days, k),
         NEW p \in 1 .. Len(b), NEW c \in Nat \ {0}, YearShapes!NoRest(b[p], total, c), NEW j \in 1 .. k
  PROVE  /\ DayOf(b, total, p, c)[j] \in Int /\ DayOf(b, total, p, days)[j] \in Int
         /\ c * DayOf(b, total, p, c)[j] = days * DayOf(b, total, p, days)[j]
<1> DEFINE u == b[p].weights
           a == Portion(b, total, p)
           w == SumFunction(u)
           x == DayOf(b, total, p, c)
           y == DayOf(b, total, p, days)
           f == x[j]
           g == y[j]
           h == u[j]
<1>1. u \in Seq(Int) /\ Len(u) = k /\ w \in Nat \ {0} /\ days \in Nat \ {0} /\ YearShapes!NoRest(b[p], total, days)
  BY DEF Loaded
<1>2. a \in Int /\ WholeIn(x, u, a, c * w, c)
  BY DaysOfSeason
<1>3. WholeIn(y, u, a, days * w, days)
  BY <1>1, DaysOfSeason
<1>4. f \in Int /\ (c * w) * f = a * h
  <2> HIDE DEF u, a, x
  <2> QED BY <1>1, <1>2 DEF WholeIn
<1>5. g \in Int /\ (days * w) * g = a * h
  <2> HIDE DEF u, a, y
  <2> QED BY <1>1, <1>3 DEF WholeIn
<1> HIDE DEF f, g, h, w, a
<1>6. (c * f) * w = (days * g) * w
  <2>1. (c * f) * w = (c * w) * f
    BY <1>1, <1>4
  <2>2. (days * g) * w = (days * w) * g
    BY <1>1, <1>5
  <2> QED BY <1>4, <1>5, <2>1, <2>2
<1>7. c * f = days * g
  <2> DEFINE l == c * f
             r == days * g
  <2>1. l \in Int /\ r \in Int /\ l * w = r * w /\ w \in Nat /\ w # 0
    BY <1>1, <1>4, <1>5, <1>6
  <2> HIDE DEF l, r
  <2>2. l = r
    BY <2>1, Cancelled
  <2> QED BY <2>2 DEF l, r
<1> QED BY <1>4, <1>5, <1>7 DEF f, g
\* The shares of all seasons are the whole.
Whole(total) == total * Tenths * Grain
\* The portions of all seasons come to the whole.
LEMMA PortionsAreWhole ==
  ASSUME NEW b, NEW total, NEW days, NEW k, Loaded(b, total, days, k)
  PROVE  /\ Whole(total) \in Int
         /\ SumFunctionOnSet([p \in 1 .. Len(b) |-> Portion(b, total, p)], 1 .. Len(b)) = Whole(total)
<1> DEFINE n == Len(b)
           N == 1 .. n
           shares == [p \in DOMAIN b |-> b[p].share]
           portions == [p \in N |-> Portion(b, total, p)]
           c == total * Grain
<1>1. n \in Nat /\ DOMAIN b = N /\ total \in Int /\ (\A p \in N : b[p].share \in Int) /\ SumFunction(shares) = Tenths
  BY DEF Loaded
<1>2. Grain \in Int /\ Tenths \in Int /\ c \in Int
  BY <1>1, ShapesAssumption
<1>3. DOMAIN shares = N /\ IsFiniteSet(N)
  BY <1>1, FS_Interval
<1>4. \A p \in N : shares[p] \in Int /\ portions[p] = c * shares[p]
  <2> SUFFICES ASSUME NEW p \in N PROVE shares[p] \in Int /\ portions[p] = c * shares[p]
    OBVIOUS
  <2> DEFINE s == b[p].share
  <2>1. shares[p] = s /\ s \in Int /\ portions[p] = total * s * Grain
    BY <1>1 DEF Portion
  <2> HIDE DEF s
  <2>2. total * s * Grain = c * s
    BY <1>1, <1>2, <2>1
  <2> QED BY <2>1, <2>2
<1> HIDE DEF shares, portions, N, c
<1>5. SumFunctionOnSet(portions, N) = c * SumFunctionOnSet(shares, N)
  BY <1>2, <1>3, <1>4, SumTimes
<1>6. SumFunctionOnSet(shares, N) = Tenths
  BY <1>1, <1>3 DEF SumFunction
<1>7. c * Tenths = Whole(total) /\ Whole(total) \in Int
  BY <1>1, <1>2 DEF c, Whole
<1> QED BY <1>5, <1>6, <1>7 DEF portions, N

\* The representative day: what its steps have, and all of them.
MeanDay(b, total, days, k) ==
  [j \in 1 .. k |-> SumFunctionOnSet([p \in 1 .. Len(b) |-> DayOf(b, total, p, days)[j]], 1 .. Len(b))]
\* The representative day of a year, as often as the year has days, is the total.
LEMMA MeanDayIsWhole ==
  ASSUME NEW b, NEW total, NEW days, NEW k, Loaded(b, total, days, k)
  PROVE  /\ MeanDay(b, total, days, k) \in Seq(Int) /\ Len(MeanDay(b, total, days, k)) = k
         /\ days * SumFunction(MeanDay(b, total, days, k)) = Whole(total)
<1> DEFINE n == Len(b)
           S == 1 .. n
           T == 1 .. k
           m == [p \in S |-> DayOf(b, total, p, days)]
           c == [j \in T |-> [p \in S |-> m[p][j]]]
           a == [p \in S |-> SumFunctionOnSet(m[p], T)]
           day == MeanDay(b, total, days, k)
           portions == [p \in S |-> Portion(b, total, p)]
<1>1. n \in Nat /\ k \in Nat /\ days \in Nat \ {0} /\ days \in Int /\ IsFiniteSet(S) /\ IsFiniteSet(T)
  <2>1. n \in Nat /\ k \in Nat /\ days \in Nat \ {0}
    BY DEF Loaded
  <2> HIDE DEF n
  <2> QED BY <2>1, FS_Interval
<1>2. ASSUME NEW p \in S PROVE m[p] \in Seq(Int) /\ Len(m[p]) = k /\ days * SumFunction(m[p]) = portions[p] /\ portions[p] \in Int
  <2>1. Len(b[p].weights) = k /\ YearShapes!NoRest(b[p], total, days)
    BY DEF Loaded
  <2>2. /\ Portion(b, total, p) \in Int
        /\ WholeIn(DayOf(b, total, p, days), b[p].weights, Portion(b, total, p), days * SumFunction(b[p].weights), days)
    BY <1>1, <2>1, DaysOfSeason
  <2>3. m[p] = DayOf(b, total, p, days) /\ portions[p] = Portion(b, total, p)
    OBVIOUS
  <2> HIDE DEF m, portions
  <2> QED BY <2>1, <2>2, <2>3 DEF WholeIn
<1> HIDE DEF S, T
<1>3. \A p \in S : DOMAIN m[p] = T /\ \A j \in T : m[p][j] \in Int
  <2> HIDE DEF m
  <2> QED BY <1>1, <1>2 DEF T
<1>4. Table(m, c, S, T)
  <2> HIDE DEF m
  <2> QED BY <1>3 DEF Table
<1>5. Totals(a, m, S, T)
  <2> HIDE DEF m
  <2> QED BY DEF Totals
<1>6. Totals(day, c, T, S)
  BY DEF Totals, MeanDay, S, T
<1>7. day \in Seq(Int) /\ Len(day) = k /\ DOMAIN day = T
  <2>1. ASSUME NEW j \in T PROVE day[j] \in Int
    <3>1. day[j] = SumFunctionOnSet(c[j], S)
      BY <1>6 DEF Totals
    <3>2. \A p \in S : c[j][p] \in Int
      BY <1>3, <2>1
    <3> HIDE DEF c, day
    <3>3. SumFunctionOnSet(c[j], S) \in Int
      BY <1>1, <3>2, SumIsInt
    <3> QED BY <3>1, <3>3
  <2>2. day = [j \in T |-> day[j]]
    BY DEF MeanDay, T
  <2> HIDE DEF day
  <2> QED BY <1>1, <2>1, <2>2 DEF T
<1> HIDE DEF m, c, day
<1>8. SumFunctionOnSet(a, S) = SumFunctionOnSet(day, T)
  <2> HIDE DEF a
  <2> QED BY <1>1, <1>4, <1>5, <1>6, SumByRowsAndColumns
<1>9. \A p \in S : a[p] \in Int /\ portions[p] = days * a[p]
  <2> SUFFICES ASSUME NEW p \in S PROVE a[p] \in Int /\ portions[p] = days * a[p]
    OBVIOUS
  <2>1. a[p] = SumFunctionOnSet(m[p], T) /\ DOMAIN m[p] = T
    BY <1>3
  <2>2. \A j \in T : m[p][j] \in Int
    BY <1>3
  <2>3. SumFunctionOnSet(m[p], T) \in Int
    BY <1>1, <2>2, SumIsInt
  <2>4. SumFunction(m[p]) = SumFunctionOnSet(m[p], T)
    BY <2>1 DEF SumFunction
  <2>5. days * SumFunction(m[p]) = portions[p]
    BY <1>2 DEF S
  <2> HIDE DEF a, portions
  <2> QED BY <2>1, <2>3, <2>4, <2>5
<1>10. SumFunctionOnSet(portions, S) = Whole(total)
  BY PortionsAreWhole DEF S
<1> HIDE DEF a, portions
<1>11. SumFunctionOnSet(portions, S) = days * SumFunctionOnSet(a, S)
  BY <1>1, <1>9, SumTimes
<1>12. SumFunction(day) = SumFunctionOnSet(day, T)
  BY <1>7 DEF SumFunction
<1> QED BY <1>7, <1>8, <1>10, <1>11, <1>12 DEF day

\* The representative day is the mean day.
LEMMA RepresentativeDays ==
  ASSUME NEW b, NEW total, NEW days, NEW k, Loaded(b, total, days, k)
  PROVE  YearShapes!RepresentativeDay(b, total, days) = MeanDay(b, total, days, k)
<1> DEFINE n == Len(b)
           F(j) == [p \in DOMAIN b |-> YearShapes!PerStep(total, b[p], days, j)]
           G(j) == [p \in 1 .. n |-> DayOf(b, total, p, days)[j]]
<1>1. YearShapes!Steps(b) = k /\ DOMAIN b = 1 .. n /\ k \in Nat
  BY DEF Loaded
<1>2. ASSUME NEW j \in 1 .. k PROVE YearShapes!Total(F(j)) = SumFunctionOnSet(G(j), 1 .. n)
  <2>1. ASSUME NEW p \in 1 .. n PROVE DayOf(b, total, p, days)[j] = YearShapes!PerStep(total, b[p], days, j)
    <3>1. b[p].weights \in Seq(Int) /\ Len(b[p].weights) = k
      BY DEF Loaded
    <3>2. j \in DOMAIN b[p].weights
      BY <3>1
    <3> QED BY <3>2 DEF DayOf
  <2>2. F(j) = G(j)
    BY <1>1, <2>1
  <2>3. YearShapes!Total(G(j)) = SumFunction(G(j))
    BY ShapeSums
  <2>4. DOMAIN G(j) = 1 .. n
    OBVIOUS
  <2> HIDE DEF F, G
  <2> QED BY <2>2, <2>3, <2>4 DEF SumFunction
<1> QED BY <1>1, <1>2 DEF YearShapes!RepresentativeDay, MeanDay

\* The same day all year round has the whole.
LEMMA RepeatedIsWhole ==
  ASSUME NEW b, NEW total, NEW days, NEW k, Loaded(b, total, days, k), NEW r,
         r = YearShapes!SpreadOverRepresentativeDay(b, total, days)
  PROVE  /\ r \in Seq(Int) /\ Len(r) = days * k /\ SumFunction(r) = Whole(total)
         /\ \A j \in 1 .. k : SumFunction(Column(r, k, j)) = days * MeanDay(b, total, days, k)[j]
<1> DEFINE day == MeanDay(b, total, days, k)
           all == FlattenSeq([d \in 1 .. days |-> day])
<1>1. day \in Seq(Int) /\ Len(day) = k /\ days * SumFunction(day) = Whole(total)
  BY MeanDayIsWhole
<1>2. days \in Nat /\ k \in Nat \ {0}
  BY DEF Loaded
<1>3. r = all
  BY RepresentativeDays, ShapeSums DEF YearShapes!SpreadOverRepresentativeDay
<1>4. all \in Seq(Int) /\ Len(all) = days * Len(day) /\ SumFunction(all) = days * SumFunction(day)
  <2> HIDE DEF day
  <2> QED BY <1>1, <1>2, FlattenCopies
<1>5. ASSUME NEW j \in 1 .. k PROVE SumFunction(Column(all, k, j)) = days * day[j]
  <2> HIDE DEF day
  <2>1. Rows(day, k, 1)
    BY <1>1, <1>2 DEF Rows
  <2>2. day \in Seq(Int)
    BY <1>1
  <2> QED BY <1>2, <2>1, <2>2, ColumnOfCopies
<1> HIDE DEF day, all
<1> QED BY <1>1, <1>3, <1>4, <1>5 DEF day

\* What is spread season by season has the whole, and so has each season and step.
SeasonParts(b, total, cal) == [p \in DOMAIN b |-> YearShapes!SeasonSpread(b[p], total, cal[p])]
\* A season spread over its days adds up to its share.
LEMMA SeasonIsWhole ==
  ASSUME NEW b, NEW total, NEW days, NEW k, Loaded(b, total, days, k),
         NEW cal, OnCalendar(b, total, days, cal), NEW p \in 1 .. Len(b), NEW x,
         x = SeasonParts(b, total, cal)[p]
  PROVE  /\ x \in Seq(Int) /\ Len(x) = k * cal[p] /\ SumFunction(x) = Portion(b, total, p)
         /\ \A j \in 1 .. k : SumFunction(Column(x, k, j)) = days * DayOf(b, total, p, days)[j]
<1> DEFINE c == cal[p]
           row == DayOf(b, total, p, c)
           all == FlattenSeq([d \in 1 .. c |-> row])
<1>1. c \in Nat \ {0} /\ YearShapes!NoRest(b[p], total, c) /\ c \in Nat
  BY DEF OnCalendar
<1>2. Len(b[p].weights) = k /\ k \in Nat \ {0} /\ DOMAIN b = 1 .. Len(b)
  BY DEF Loaded
<1>3. x = all
  BY <1>2, ShapeSums DEF SeasonParts, YearShapes!SeasonSpread, DayOf
<1> HIDE DEF c
<1>4. WholeIn(row, b[p].weights, Portion(b, total, p), c * SumFunction(b[p].weights), c)
  BY <1>1, DaysOfSeason
<1>5. row \in Seq(Int) /\ Len(row) = k /\ c * SumFunction(row) = Portion(b, total, p)
  <2> HIDE DEF row
  <2> QED BY <1>2, <1>4 DEF WholeIn
<1>6. all \in Seq(Int) /\ Len(all) = c * Len(row) /\ SumFunction(all) = c * SumFunction(row)
  <2> HIDE DEF row
  <2> QED BY <1>1, <1>5, FlattenCopies
<1>7. ASSUME NEW j \in 1 .. k PROVE SumFunction(Column(all, k, j)) = days * DayOf(b, total, p, days)[j]
  <2>1. c * row[j] = days * DayOf(b, total, p, days)[j]
    BY <1>1, AnyNumberOfDays
  <2> HIDE DEF row
  <2>2. Rows(row, k, 1)
    BY <1>2, <1>5 DEF Rows
  <2>3. row \in Seq(Int)
    BY <1>5
  <2>4. SumFunction(Column(all, k, j)) = c * row[j]
    BY <1>1, <1>2, <2>2, <2>3, ColumnOfCopies
  <2> QED BY <2>1, <2>4
<1> HIDE DEF row, all
<1>8. c * k = k * c
  BY <1>1, <1>2
<1> QED BY <1>3, <1>5, <1>6, <1>7, <1>8 DEF c

\* The seasons one after the other add up to the total, as a whole and by step.
LEMMA YearIsWhole ==
  ASSUME NEW b, NEW total, NEW days, NEW k, Loaded(b, total, days, k),
         NEW cal, OnCalendar(b, total, days, cal), NEW y,
         y = FlattenSeq(SeasonParts(b, total, cal))
  PROVE  /\ y \in Seq(Int) /\ Len(y) = k * days /\ SumFunction(y) = Whole(total)
         /\ \A p \in 1 .. Len(b) :
              LET from == k * SumFunction(SubSeq(cal, 1, p - 1))
              IN  SumFunction(SubSeq(y, from + 1, from + k * cal[p])) = Portion(b, total, p)
         /\ \A j \in 1 .. k : SumFunction(Column(y, k, j)) = days * MeanDay(b, total, days, k)[j]
<1> DEFINE n == Len(b)
           S == 1 .. n
           ss == SeasonParts(b, total, cal)
<1>1. n \in Nat /\ DOMAIN b = S /\ k \in Nat \ {0} /\ k \in Nat /\ days \in Nat \ {0} /\ days \in Int /\ IsFiniteSet(S)
  <2>1. n \in Nat /\ DOMAIN b = S /\ k \in Nat \ {0} /\ days \in Nat \ {0}
    BY DEF Loaded
  <2>2. IsFiniteSet(1 .. n)
    BY <2>1, FS_Interval
  <2> QED BY <2>1, <2>2
<1>2. cal \in Seq(Nat) /\ Len(cal) = n /\ SumFunction(cal) = days
  BY DEF OnCalendar
<1>3. \A p \in S : /\ ss[p] \in Seq(Int) /\ Len(ss[p]) = k * cal[p] /\ SumFunction(ss[p]) = Portion(b, total, p)
                   /\ \A j \in 1 .. k : SumFunction(Column(ss[p], k, j)) = days * DayOf(b, total, p, days)[j]
  <2> HIDE DEF ss
  <2> QED BY SeasonIsWhole DEF ss
<1>4. ss \in Seq(Seq(Int)) /\ Len(ss) = n
  <2>1. ss = [p \in S |-> ss[p]]
    BY <1>1 DEF SeasonParts
  <2> HIDE DEF ss
  <2> QED BY <1>1, <1>3, <2>1
<1> HIDE DEF ss
<1>5. y = FlattenSeq(ss)
  BY DEF ss
<1>6. PartsLie(y, ss, cal, k)
  <2>1. Len(cal) = Len(ss) /\ \A p \in 1 .. Len(ss) : Len(ss[p]) = k * cal[p]
    BY <1>2, <1>3, <1>4
  <2> QED BY <1>1, <1>2, <1>4, <1>5, <2>1, PartsOfFlattened
<1>7. SumFunction(y) = Whole(total)
  <2> DEFINE sums == [p \in 1 .. Len(ss) |-> SumFunction(ss[p])]
             portions == [p \in S |-> Portion(b, total, p)]
  <2>1. SumFunction(y) = SumFunction(sums)
    BY <1>4, <1>5, SumOfFlattened
  <2>2. sums = portions /\ DOMAIN portions = S
    BY <1>3, <1>4
  <2>3. SumFunctionOnSet(portions, S) = Whole(total)
    BY PortionsAreWhole
  <2> HIDE DEF sums, portions
  <2> QED BY <2>1, <2>2, <2>3 DEF SumFunction
<1>8. ASSUME NEW p \in 1 .. n
      PROVE  LET from == k * SumFunction(SubSeq(cal, 1, p - 1))
             IN  SumFunction(SubSeq(y, from + 1, from + k * cal[p])) = Portion(b, total, p)
  BY <1>3, <1>4, <1>6 DEF PartsLie
<1>9. ASSUME NEW j \in 1 .. k PROVE SumFunction(Column(y, k, j)) = days * MeanDay(b, total, days, k)[j]
  <2> DEFINE at == [p \in S |-> DayOf(b, total, p, days)[j]]
             sums == [p \in S |-> days * at[p]]
  <2>1. \A p \in S : at[p] \in Int
    <3>1. \A p \in S : YearShapes!NoRest(b[p], total, days)
      BY DEF Loaded
    <3>2. \A p \in S : DayOf(b, total, p, days)[j] \in Int
      BY <1>1, <3>1, AnyNumberOfDays
    <3> QED BY <3>2
  <2>2. ColumnSums(sums, ss, cal, k, j)
    <3>1. \A p \in S : Rows(ss[p], k, cal[p]) /\ SumFunction(Column(ss[p], k, j)) = days * at[p]
      BY <1>3 DEF Rows
    <3>2. \A p \in S : sums[p] = days * at[p]
      OBVIOUS
    <3> HIDE DEF sums, at
    <3> QED BY <1>4, <3>1, <3>2 DEF ColumnSums
  <2>3. SumFunction(Column(y, k, j)) = SumFunctionOnSet(sums, S)
    <3> HIDE DEF sums
    <3>1. Len(cal) = Len(ss)
      BY <1>2, <1>4
    <3>2. SumFunction(Column(y, k, j)) = SumFunctionOnSet(sums, 1 .. Len(ss))
      BY <1>1, <1>2, <1>4, <1>5, <2>2, <3>1, ColumnsOfFlattened
    <3> QED BY <1>4, <3>2
  <2>4. \A p \in S : sums[p] = days * at[p]
    OBVIOUS
  <2>5. MeanDay(b, total, days, k)[j] = SumFunctionOnSet(at, S)
    BY DEF MeanDay
  <2> HIDE DEF sums, at, S
  <2>6. SumFunctionOnSet(sums, S) = days * SumFunctionOnSet(at, S)
    BY <1>1, <2>1, <2>4, SumTimes
  <2> QED BY <2>3, <2>5, <2>6
<1> QED BY <1>2, <1>6, <1>7, <1>8, <1>9 DEF PartsLie

\* Seasons that a file loads with.
Checked(b, total, days) ==
  /\ b \in Seq(Range(b)) /\ total \in Int /\ days \in Nat \ {0}
  /\ \A s \in Range(b) : YearShapes!IsSeason(s, total, days) /\ YearShapes!Normalisable(s.weights)
  /\ YearShapes!Consistent(b)
\* Shapes that pass the check have one number of steps and shares without a rest.
LEMMA CheckedIsLoaded ==
  ASSUME NEW b, NEW total, NEW days, Checked(b, total, days)
  PROVE  Loaded(b, total, days, YearShapes!Steps(b))
<1> DEFINE n == Len(b)
           L == {Len(s.weights) : s \in Range(b)}
           k == YearShapes!Steps(b)
<1>1. n \in Nat /\ DOMAIN b = 1 .. n /\ \A p \in 1 .. n : b[p] \in Range(b)
  <2>1. b \in Seq(Range(b))
    BY DEF Checked
  <2> QED BY <2>1
<1>2. \A p \in 1 .. n : /\ b[p].weights \in Seq(Int) /\ b[p].share \in Int /\ YearShapes!NoRest(b[p], total, days)
                        /\ YearShapes!Normalisable(b[p].weights)
  BY <1>1 DEF Checked, YearShapes!IsSeason
<1>3. \E x : L = {x}
  <2>1. YearShapes!Range(b) = Range(b)
    BY DEF YearShapes!Range, Range
  <2>2. Cardinality(L) = 1
    BY <2>1, ShapeSums DEF Checked, YearShapes!Consistent
  <2>3. IsFiniteSet(L)
    <3> DEFINE h == [p \in 1 .. n |-> Len(b[p].weights)]
    <3>1. L = Reached(h, 1 .. n)
      BY <1>1 DEF Reached, Range
    <3>2. IsFiniteSet(1 .. n)
      BY <1>1, FS_Interval
    <3> HIDE DEF h, L
    <3> QED BY <3>1, <3>2, ReachedIsFinite
  <2> HIDE DEF L
  <2> QED BY <2>2, <2>3, FS_Singleton
<1>4. n # 0
  BY <1>1, <1>3 DEF Range
<1>5. \A p \in 1 .. n : Len(b[p].weights) = k
  <2>1. PICK x : L = {x}
    BY <1>3
  <2>2. \A p \in 1 .. n : Len(b[p].weights) = x
    BY <1>1, <2>1
  <2>3. 1 \in 1 .. n
    BY <1>1, <1>4
  <2> QED BY <2>2, <2>3 DEF YearShapes!Steps
<1>6. \A p \in 1 .. n : k \in Nat \ {0} /\ SumFunction(b[p].weights) \in Nat \ {0}
  <2> SUFFICES ASSUME NEW p \in 1 .. n PROVE k \in Nat \ {0} /\ SumFunction(b[p].weights) \in Nat \ {0}
    OBVIOUS
  <2> DEFINE u == b[p].weights
  <2>1. u \in Seq(Int) /\ Len(u) = k /\ u # <<>> /\ (\A j \in DOMAIN u : u[j] >= 0) /\ YearShapes!Total(u) > 0
    BY <1>2, <1>5 DEF YearShapes!Normalisable
  <2> HIDE DEF u
  <2>2. k \in Nat \ {0} /\ DOMAIN u = 1 .. k
    BY <2>1
  <2>3. IsFiniteSet(DOMAIN u)
    BY <2>2, FS_Interval
  <2>4. \A j \in DOMAIN u : u[j] \in Nat
    BY <2>1, <2>2
  <2>5. SumFunctionOnSet(u, DOMAIN u) \in Nat
    BY <2>3, <2>4, SumIsNat
  <2>6. YearShapes!Total(u) = SumFunctionOnSet(u, DOMAIN u)
    BY ShapeSums DEF SumFunction
  <2> QED BY <2>1, <2>2, <2>5, <2>6 DEF u, SumFunction
<1>7. SumFunction([p \in DOMAIN b |-> b[p].share]) = Tenths
  BY ShapeSums DEF Checked, YearShapes!Consistent
<1>8. k \in Nat \ {0}
  BY <1>1, <1>4, <1>6
<1>9. total \in Int /\ days \in Nat \ {0}
  BY DEF Checked
<1> HIDE DEF k
<1> QED BY <1>1, <1>2, <1>4, <1>5, <1>6, <1>7, <1>8, <1>9 DEF Loaded, k

\* The calendar of checked shapes has the days of the year.
LEMMA CheckedCalendar ==
  ASSUME NEW b, NEW total, NEW days, Checked(b, total, days), NEW cal,
         cal = YearShapes!CalendarDays(b, days), cal # None
  PROVE  OnCalendar(b, total, days, cal)
<1> DEFINE n == Len(b)
           assigned == [p \in DOMAIN b |-> b[p].days]
<1>1. /\ n \in Nat \ {0} /\ DOMAIN b = 1 .. n /\ days \in Nat \ {0}
      /\ \A p \in 1 .. n : YearShapes!NoRest(b[p], total, days)
  BY CheckedIsLoaded DEF Loaded
<1>2. \A p \in 1 .. n : b[p] \in Range(b)
  BY <1>1 DEF Range
<1>3. YearShapes!Range(b) = Range(b)
  BY DEF YearShapes!Range, Range
<1>4. CASE n = 1 /\ b[1].days = None
  <2>1. cal = <<days>>
    BY <1>4 DEF YearShapes!CalendarDays
  <2>2. cal \in Seq(Nat \ {0}) /\ Len(cal) = n /\ cal[1] = days
    BY <1>1, <1>4, <2>1
  <2>3. SumFunction(cal) = days
    <3> DEFINE S == {1}
    <3>1. DOMAIN cal = S /\ S \ {1} = {} /\ 1 \in S /\ \A i \in S : cal[i] \in Int
      BY <1>1, <1>4, <2>2
    <3>2. IsFiniteSet(S)
      BY FS_Singleton
    <3> HIDE DEF S
    <3>3. SumFunctionOnSet(cal, S) = cal[1] + SumFunctionOnSet(cal, S \ {1})
      BY <3>1, <3>2, SumTake
    <3>4. SumFunctionOnSet(cal, {}) = 0
      BY SumOfNone
    <3>5. SumFunctionOnSet(cal, S) = days + 0
      BY <2>2, <3>1, <3>3, <3>4, Zenon
    <3>6. SumFunctionOnSet(cal, S) = days
      BY <1>1, <3>5
    <3> QED BY <3>1, <3>6, Zenon DEF SumFunction
  <2>4. \A p \in 1 .. n : cal[p] = days
    BY <1>4, <2>2
  <2> QED BY <1>1, <2>2, <2>3, <2>4 DEF OnCalendar
<1>5. CASE ~(n = 1 /\ b[1].days = None)
  <2>1. cal = assigned /\ YearShapes!Total(assigned) = days
    BY <1>5 DEF YearShapes!CalendarDays
  <2>2. \A p \in 1 .. n : b[p].days # None
    <3>1. n > 1 => \A s \in Range(b) : s.days # None
      BY <1>3 DEF Checked, YearShapes!Consistent
    <3>2. n = 1 \/ n > 1
      BY <1>1
    <3> QED BY <1>1, <1>2, <1>5, <3>1, <3>2
  <2>3. \A p \in 1 .. n : b[p].days \in Nat \ {0} /\ YearShapes!NoRest(b[p], total, b[p].days)
    <3> SUFFICES ASSUME NEW p \in 1 .. n PROVE b[p].days \in Nat \ {0} /\ YearShapes!NoRest(b[p], total, b[p].days)
      OBVIOUS
    <3>1. b[p].days \in Int /\ (b[p].days > 0 => YearShapes!NoRest(b[p], total, b[p].days))
      BY <1>2, <2>2 DEF Checked, YearShapes!IsSeason
    <3>2. b[p].days > 0
      BY <1>2, <1>3, <2>2 DEF Checked, YearShapes!Consistent
    <3> QED BY <3>1, <3>2
  <2>4. cal \in Seq(Nat \ {0}) /\ Len(cal) = n /\ \A p \in 1 .. n : cal[p] = b[p].days
    BY <1>1, <2>1, <2>3
  <2>5. SumFunction(cal) = days
    BY <2>1, ShapeSums
  <2> QED BY <2>3, <2>4, <2>5 DEF OnCalendar
<1> QED BY <1>4, <1>5

\* What is made of seasons keeps the total.
LEMMA SpreadKeeps ==
  ASSUME NEW b, NEW total, NEW days, Checked(b, total, days)
  PROVE  YearShapes!Kept(YearShapes!SpreadOf(b, total, days), total, days)
<1> DEFINE k == YearShapes!Steps(b)
           r == YearShapes!SpreadOverRepresentativeDay(b, total, days)
           y == YearShapes!Spread(b, total, days)
           cal == YearShapes!CalendarDays(b, days)
           m == YearShapes!SpreadOf(b, total, days)
<1>1. Loaded(b, total, days, k)
  BY CheckedIsLoaded
<1>2. m.seasons = b /\ m.repeated = r /\ m.year = y
  BY DEF YearShapes!SpreadOf
<1>3. k \in Nat /\ days \in Nat /\ DOMAIN b = 1 .. Len(b)
  BY <1>1 DEF Loaded
<1> HIDE DEF k, r, m
<1>4. /\ Len(r) = days * k /\ SumFunction(r) = Whole(total)
      /\ \A j \in 1 .. k : SumFunction(Column(r, k, j)) = days * MeanDay(b, total, days, k)[j]
  BY <1>1, RepeatedIsWhole DEF r
<1>5. CASE y = None
  <2> HIDE DEF y
  <2>1. YearShapes!Total(m.repeated) = total * Tenths * Grain
    BY <1>2, <1>4, ShapeSums DEF Whole
  <2> QED BY <1>2, <1>5, <2>1 DEF YearShapes!Kept, m
<1>6. CASE y # None
  <2>1. cal # None /\ y = FlattenSeq(SeasonParts(b, total, cal))
    BY <1>6, ShapeSums DEF YearShapes!Spread, SeasonParts
  <2> HIDE DEF y, cal
  <2>2. OnCalendar(b, total, days, cal)
    BY <2>1, CheckedCalendar DEF cal
  <2>3. /\ y \in Seq(Int) /\ Len(y) = k * days /\ SumFunction(y) = Whole(total)
        /\ \A p \in 1 .. Len(b) :
             LET from == k * SumFunction(SubSeq(cal, 1, p - 1))
             IN  SumFunction(SubSeq(y, from + 1, from + k * cal[p])) = Portion(b, total, p)
        /\ \A j \in 1 .. k : SumFunction(Column(y, k, j)) = days * MeanDay(b, total, days, k)[j]
    BY <1>1, <2>1, <2>2, YearIsWhole
  <2>4. YearShapes!Total(m.repeated) = total * Tenths * Grain /\ YearShapes!Total(m.year) = total * Tenths * Grain
    BY <1>2, <1>4, <2>3, ShapeSums DEF Whole
  <2>5. Len(m.year) = Len(m.repeated)
    <3>1. k * days = days * k
      BY <1>3
    <3> QED BY <1>2, <1>4, <2>3, <3>1
  <2>6. ASSUME NEW j \in 1 .. k PROVE YearShapes!AtStep(m.year, k, j) = YearShapes!AtStep(m.repeated, k, j)
    <3>1. \A s : YearShapes!AtStep(s, k, j) = SumFunction(Column(s, k, j))
      BY ShapeSums DEF YearShapes!AtStep, Column
    <3> QED BY <1>2, <1>4, <2>3, <3>1
  <2>7. ASSUME NEW p \in DOMAIN m.seasons PROVE YearShapes!HasShare(m, p, total, days)
    <3>1. p \in 1 .. Len(b)
      BY <1>2, <1>3
    <3>2. YearShapes!CalendarDays(m.seasons, days) = cal /\ YearShapes!Steps(m.seasons) = k
      BY <1>2 DEF cal, k
    <3>3. LET from == k * SumFunction(SubSeq(cal, 1, p - 1))
          IN  SumFunction(SubSeq(y, from + 1, from + k * cal[p])) = total * b[p].share * Grain
      BY <2>3, <3>1 DEF Portion
    <3> QED BY <1>2, <3>2, <3>3, ShapeSums DEF YearShapes!HasShare
  <2>8. YearShapes!Steps(m.seasons) = k
    BY <1>2 DEF k
  <2> QED BY <2>4, <2>5, <2>6, <2>7, <2>8 DEF YearShapes!Kept, m
<1> QED BY <1>5, <1>6

\* What a file loads, and where its spreading is.
SeasonsOf(f, w) == YearShapes!BySeason(IF w = "load" THEN f.load ELSE f.generation)
ShapesInv ==
  running = "shapes" =>
    /\ given \in ShapeFiles
    /\ mark \in {"shapes", "spread"} => YearShapes!LoadsTogether(given)
    /\ mark = "shapes" => \A w \in {"load", "generation"} : made[w] = SeasonsOf(given, w)
    /\ mark = "spread" =>
         \A w \in {"load", "generation"} : made[w] = YearShapes!SpreadOf(SeasonsOf(given, w), given.total, given.days)

\* While shapes are spread nothing else moves.
LEMMA ShapesSteps ==
  ASSUME [CalculationsNext]_calculationVars, running = "shapes" \/ running' = "shapes"
  PROVE  running = "shapes" /\ (YearShapes!Next \/ UNCHANGED <<given, made, mark>>)
  BY DEF CalculationsNext, calculationVars, ApplyDuty, ShareAssets, ListBenefits, ComposeBounds, OverrideLedger,
         UseSeries, StoreSeries, SpreadShapes, ComposeModel

\* ShapesInv stays true.
LEMMA ShapesInductive ==
  ASSUME ShapesInv, [CalculationsNext]_calculationVars
  PROVE  ShapesInv'
<1> SUFFICES ASSUME running' = "shapes" PROVE ShapesInv'
  BY DEF ShapesInv
<1>1. running = "shapes" /\ (YearShapes!Next \/ UNCHANGED <<given, made, mark>>)
  BY ShapesSteps
<1>2. ASSUME UNCHANGED given PROVE YearShapes!LoadsTogether(given)' <=> YearShapes!LoadsTogether(given)
  BY <1>2
<1>3. CASE UNCHANGED <<given, made, mark>>
  BY <1>1, <1>2, <1>3 DEF ShapesInv
<1>4. CASE YearShapes!RefuseShapes
  BY <1>1, <1>4 DEF ShapesInv, YearShapes!RefuseShapes
<1>5. CASE YearShapes!LoadDailyShapes
  <2>1. /\ made'["load"] = SeasonsOf(given, "load") /\ made'["generation"] = SeasonsOf(given, "generation")
        /\ mark' = "shapes" /\ given' = given /\ YearShapes!LoadsTogether(given)
    BY <1>5 DEF YearShapes!LoadDailyShapes, SeasonsOf
  <2> QED BY <1>1, <1>2, <2>1 DEF ShapesInv
<1>6. CASE YearShapes!SpreadTotals
  <2>1. /\ mark = "shapes" /\ mark' = "spread" /\ given' = given
        /\ \A w \in {"load", "generation"} : made'[w] = YearShapes!SpreadOf(made[w], given.total, given.days)
    BY <1>6 DEF YearShapes!SpreadTotals
  <2> QED BY <1>1, <1>2, <2>1 DEF ShapesInv
<1> QED BY <1>1, <1>3, <1>4, <1>5, <1>6 DEF YearShapes!Next

\* A file that loads has seasons that can be spread.
LEMMA LoadedIsChecked ==
  ASSUME NEW f \in ShapeFiles, YearShapes!LoadsTogether(f), NEW w \in {"load", "generation"}
  PROVE  Checked(SeasonsOf(f, w), f.total, f.days)
<1> DEFINE item == IF w = "load" THEN f.load ELSE f.generation
           b == YearShapes!BySeason(item)
<1>1. YearShapes!IsShapeFile(f)
  BY ShapesAssumption
<1>2. item \in {f.load, f.generation} /\ YearShapes!Written(item) /\ YearShapes!Consistent(b)
  BY DEF YearShapes!LoadsTogether
<1>3. YearShapes!Range(b) = Range(b) /\ SeasonsOf(f, w) = b
  BY DEF YearShapes!Range, Range, SeasonsOf
<1> HIDE DEF item
<1>4. /\ f.total \in Int /\ f.days \in Nat \ {0}
      /\ b \in Seq(YearShapes!Range(b)) /\ \A s \in YearShapes!Range(b) : YearShapes!IsSeason(s, f.total, f.days)
  BY <1>1, <1>2 DEF YearShapes!IsShapeFile
<1>5. \A s \in YearShapes!Range(b) : YearShapes!Normalisable(s.weights)
  BY <1>2 DEF YearShapes!Written
<1> HIDE DEF b
<1> QED BY <1>2, <1>3, <1>4, <1>5 DEF Checked, b

\* The two shapes of a file fit their year, or do not, together.
LEMMA TogetherInYear ==
  ASSUME NEW f \in ShapeFiles, YearShapes!LoadsTogether(f), NEW x, NEW y,
         x = YearShapes!Spread(SeasonsOf(f, "load"), f.total, f.days),
         y = YearShapes!Spread(SeasonsOf(f, "generation"), f.total, f.days)
  PROVE  (x = None) = (y = None) /\ (x # None => Len(x) = Len(y))
<1> DEFINE a == SeasonsOf(f, "load")
           b == SeasonsOf(f, "generation")
           k == YearShapes!Steps(a)
           c == YearShapes!CalendarDays(a, f.days)
           d == YearShapes!CalendarDays(b, f.days)
<1>1. Checked(a, f.total, f.days) /\ Checked(b, f.total, f.days)
  BY LoadedIsChecked
<1>2. YearShapes!Steps(b) = k /\ YearShapes!CalendarOf(a) = YearShapes!CalendarOf(b)
  BY DEF YearShapes!LoadsTogether, YearShapes!Agree, SeasonsOf
<1> HIDE DEF a, b, k
<1>3. Loaded(a, f.total, f.days, k) /\ Loaded(b, f.total, f.days, k)
  BY <1>1, <1>2, CheckedIsLoaded DEF k
<1>4. c = d
  <2>1. DOMAIN a = 1 .. Len(a) /\ DOMAIN b = 1 .. Len(b) /\ Len(a) \in Nat \ {0} /\ Len(b) \in Nat \ {0}
    BY <1>3 DEF Loaded
  <2>2. DOMAIN YearShapes!CalendarOf(a) = DOMAIN a /\ DOMAIN YearShapes!CalendarOf(b) = DOMAIN b
    BY DEF YearShapes!CalendarOf
  <2>3. DOMAIN a = DOMAIN b
    BY <1>2, <2>2
  <2>4. Len(a) = Len(b)
    <3> DEFINE m == Len(a)
               n == Len(b)
    <3>1. m \in Nat \ {0} /\ n \in Nat \ {0} /\ 1 .. m = 1 .. n
      BY <2>1, <2>3
    <3> HIDE DEF m, n
    <3>2. m \in 1 .. n /\ n \in 1 .. m
      BY <3>1
    <3> QED BY <3>1, <3>2 DEF m, n
  <2>5. \A p \in DOMAIN a : a[p].days = b[p].days
    <3> SUFFICES ASSUME NEW p \in DOMAIN a PROVE a[p].days = b[p].days
      OBVIOUS
    <3>1. YearShapes!CalendarOf(a)[p] = <<a[p].name, a[p].days>> /\ YearShapes!CalendarOf(b)[p] = <<b[p].name, b[p].days>>
      BY <2>3 DEF YearShapes!CalendarOf
    <3> QED BY <1>2, <3>1
  <2>6. [p \in DOMAIN a |-> a[p].days] = [p \in DOMAIN b |-> b[p].days]
    BY <2>3, <2>5
  <2>7. a[1].days = b[1].days
    <3>1. 1 \in DOMAIN a
      BY <2>1
    <3> QED BY <2>5, <3>1
  <2> QED BY <2>4, <2>6, <2>7 DEF YearShapes!CalendarDays
<1> HIDE DEF c, d
<1>5. CASE c = None
  <2>1. x = None /\ y = None
    BY <1>4, <1>5 DEF YearShapes!Spread, a, b, c, d
  <2> QED BY <2>1
<1>6. CASE c # None
  <2>1. x = FlattenSeq(SeasonParts(a, f.total, c)) /\ y = FlattenSeq(SeasonParts(b, f.total, c))
    BY <1>4, <1>6, ShapeSums DEF YearShapes!Spread, SeasonParts, a, b, c, d
  <2>2. OnCalendar(a, f.total, f.days, c) /\ OnCalendar(b, f.total, f.days, c)
    BY <1>1, <1>4, <1>6, CheckedCalendar DEF c, d
  <2>3. x \in Seq(Int) /\ Len(x) = k * f.days
    BY <1>3, <2>1, <2>2, YearIsWhole
  <2>4. y \in Seq(Int) /\ Len(y) = k * f.days
    BY <1>3, <2>1, <2>2, YearIsWhole
  <2>5. x # None /\ y # None
    BY <2>3, <2>4, ShapesAssumption
  <2> QED BY <2>3, <2>4, <2>5
<1> QED BY <1>5, <1>6

-----------------------------------------------------------------------------
(***************************************************************************)
(* Whatever shapes a file gives: both ways to spread a total over a year   *)
(* keep it, as a whole, at every step of the day and in every season, and  *)
(* load and generation have years of the same length or none               *)
(* (load_daily_shapes, DailyShape.spread, spread_over_representative_day). *)
(***************************************************************************)
THEOREM TotalsStayKept == CalculationsSpec => []TotalsAreKept
<1>1. CalculationsInit => ShapesInv
  <2> SUFFICES ASSUME CalculationsInit, running = "shapes" PROVE ShapesInv
    BY DEF ShapesInv
  <2>1. YearShapes!Init
    BY DEF CalculationsInit, RegulationInit, CommuneInit, BenefitsInit, BoundsInit, LedgerInit,
           SeriesInit, FilesInit, ShapesInit, ComposerInit
  <2> QED BY <2>1 DEF YearShapes!Init, ShapesInv
<1>2. ShapesInv /\ [CalculationsNext]_calculationVars => ShapesInv'
  BY ShapesInductive
<1>3. ShapesInv => TotalsAreKept
  <2> SUFFICES ASSUME ShapesInv, running = "shapes", mark = "spread"
               PROVE  /\ (made["load"].year = None) = (made["generation"].year = None)
                      /\ made["load"].year # None => Len(made["load"].year) = Len(made["generation"].year)
                      /\ \A w \in {"load", "generation"} : YearShapes!Kept(made[w], given.total, given.days)
    BY DEF TotalsAreKept, YearShapes!TotalsAreKept
  <2>1. /\ given \in ShapeFiles /\ YearShapes!LoadsTogether(given)
        /\ \A w \in {"load", "generation"} : made[w] = YearShapes!SpreadOf(SeasonsOf(given, w), given.total, given.days)
    BY DEF ShapesInv
  <2>2. \A w \in {"load", "generation"} : made[w].year = YearShapes!Spread(SeasonsOf(given, w), given.total, given.days)
    BY <2>1 DEF YearShapes!SpreadOf
  <2>3. ASSUME NEW w \in {"load", "generation"} PROVE YearShapes!Kept(made[w], given.total, given.days)
    <3>1. Checked(SeasonsOf(given, w), given.total, given.days)
      BY <2>1, LoadedIsChecked
    <3> QED BY <2>1, <3>1, SpreadKeeps
  <2> QED BY <2>1, <2>2, <2>3, TogetherInYear
<1> QED BY <1>1, <1>2, <1>3, PTL DEF CalculationsSpec
=============================================================================
