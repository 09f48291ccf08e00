---------------------------- MODULE IngestProofs -----------------------------
(***************************************************************************)
(* What TLAPS proves of Ingest, for every file, every limit and every      *)
(* choice of the user.  StreamInv says what has been stored of the local   *)
(* entries that came; Read says of an archive that was read to its end     *)
(* all that a second reading can meet.                                     *)
(***************************************************************************)
EXTENDS Ingest, FiniteSetsExt, SequenceTheorems, FiniteSetTheorems, WellFoundedInduction, TLAPS

(* A set of naturals that is not empty has a least element.                *)
LEMMA NatMin ==
    ASSUME NEW S \in SUBSET Nat, S # {}
    PROVE  Min(S) \in S /\ \A x \in S : Min(S) <= x
<1>1. PICK x \in S : \A y \in S : ~(<<y, x>> \in OpToRel(<, Nat))
    BY NatLessThanWellFounded, WFMin
<1>2. \A y \in S : x <= y
  <2> TAKE y \in S
  <2>1. x \in Nat /\ y \in Nat
      OBVIOUS
  <2>2. ~(y < x)
      BY <1>1, <2>1 DEF OpToRel
  <2> QED
      BY <2>1, <2>2
<1> QED
    BY <1>1, <1>2 DEF Min

(* A bounded one has a greatest.                                           *)
LEMMA NatMax ==
    ASSUME NEW S \in SUBSET Nat, S # {}, NEW n \in Nat, \A x \in S : x <= n
    PROVE  Max(S) \in S /\ \A x \in S : x <= Max(S)
<1> DEFINE T == {m \in Nat : \E x \in S : m = n - x}
<1>1. T \in SUBSET Nat /\ T # {}
  <2>1. PICK x \in S : TRUE
      OBVIOUS
  <2>2. n - x \in Nat
      BY <2>1
  <2>3. n - x \in T
      BY <2>1, <2>2
  <2> QED
      BY <2>3
<1>2. PICK x \in S : Min(T) = n - x /\ \A m \in T : Min(T) <= m
  <2>1. Min(T) \in T /\ \A m \in T : Min(T) <= m
      BY <1>1, NatMin
  <2> QED
      BY <2>1
<1>3. \A y \in S : x >= y
  <2> TAKE y \in S
  <2>1. n - y \in T
      OBVIOUS
  <2> QED
      BY <1>2, <2>1
<1> QED
    BY <1>2, <1>3 DEF Max

(* Finitely many naturals have a bound.                                    *)
LEMMA FiniteBound ==
    ASSUME NEW n \in Nat, NEW f \in [1..n -> Nat]
    PROVE  \E b \in Nat : \A i \in 1..n : f[i] <= b
<1> DEFINE BoundedTo(k) == \E b \in Nat : \A i \in 1..k : f[i] <= b
           unbounded == {k \in 0..n : ~BoundedTo(k)}
<1>0. BoundedTo(0)
  <2>1. 0 \in Nat /\ \A i \in 1..0 : f[i] <= 0
      OBVIOUS
  <2> QED
      BY <2>1
<1>1. unbounded = {}
  <2> SUFFICES ASSUME unbounded # {} PROVE FALSE
      OBVIOUS
  <2>1. PICK k \in unbounded : \A m \in unbounded : k <= m
    <3>1. unbounded \in SUBSET Nat
        OBVIOUS
    <3> HIDE DEF unbounded
    <3> QED
        BY <3>1, NatMin
  <2>2. k \in 0..n /\ k # 0
      BY <1>0, <2>1
  <2>3. k - 1 \in 0..n /\ k \in 1..n /\ ~(k <= k - 1)
      BY <2>2
  <2>4. BoundedTo(k - 1)
      BY <2>1, <2>3
  <2>5. PICK b \in Nat : \A i \in 1..k - 1 : f[i] <= b
      BY <2>4
  <2>6. PICK c \in Nat : b <= c /\ f[k] <= c
    <3>1. f[k] \in Nat
        BY <2>3
    <3>2. \A x, y \in Nat : \E z \in Nat : x <= z /\ y <= z
      <4> TAKE x, y \in Nat
      <4>1. x + y \in Nat /\ x <= x + y /\ y <= x + y
          OBVIOUS
      <4> QED
          BY <4>1
    <3> QED
        BY <3>1, <3>2
  <2>7. \A i \in 1..k : f[i] <= c
    <3> TAKE i \in 1..k
    <3>1. CASE i = k
        BY <2>6, <3>1
    <3>2. CASE i # k
      <4>1. i \in 1..k - 1 /\ i \in 1..n
          BY <2>3, <3>2
      <4>2. f[i] \in Nat /\ f[i] <= b
          BY <2>5, <4>1
      <4> QED
          BY <2>6, <4>2, SMTT(40)
    <3> QED
        BY <3>1, <3>2
  <2>8. BoundedTo(k)
      BY <2>7
  <2> QED
      BY <2>1, <2>8
<1>2. BoundedTo(n)
  <2>1. n \in 0..n
      OBVIOUS
  <2> QED
      BY <1>1, <2>1
<1> QED
    BY <1>2

(* The size of an interval.                                                *)
LEMMA IntervalSize ==
    ASSUME NEW a \in Int, NEW b \in Int, a <= b
    PROVE  IsFiniteSet(a..b) /\ Cardinality(a..b) = b - a + 1
<1>1. ~(a > b)
    OBVIOUS
<1> QED
    BY <1>1, FS_Interval

(* The values of a sequence are finitely many, and as many as its places   *)
(* when no two are alike.                                                  *)
LEMMA RangeSize ==
    ASSUME NEW n \in Nat, NEW S, NEW f \in [1..n -> S]
    PROVE  /\ IsFiniteSet(Range(f))
           /\ (\A i, j \in 1..n : f[i] = f[j] => i = j) => Cardinality(Range(f)) = n
<1>1. f \in [1..n -> Range(f)] /\ \A x \in Range(f) : \E i \in 1..n : f[i] = x
    BY DEF Range
<1>2. f \in Surjection(1..n, Range(f))
    BY <1>1 DEF Surjection
<1>3. IsFiniteSet(1..n) /\ Cardinality(1..n) = n
    BY FS_Interval
<1>4. IsFiniteSet(Range(f)) /\ (f \in Injection(1..n, Range(f)) => Cardinality(Range(f)) = n)
    BY <1>2, <1>3, FS_Surjection
<1>5. (\A i, j \in 1..n : f[i] = f[j] => i = j) => f \in Injection(1..n, Range(f))
    BY <1>1 DEF Injection, IsInjective
<1> QED
    BY <1>4, <1>5

(* Of what is met most often, the first.                                   *)
LEMMA FirstOfMost ==
    ASSUME NEW S \in SUBSET Nat, S # {}, NEW most \in Nat, NEW met \in [S -> 0..most]
    PROVE  Min({r \in S : \A s \in S : met[r] >= met[s]}) \in S
<1> DEFINE best == {r \in S : \A s \in S : met[r] >= met[s]}
<1>1. best # {}
  <2>1. Range(met) \in SUBSET Nat /\ Range(met) # {} /\ \A m \in Range(met) : m <= most
    <3>1. \A r \in S : met[r] \in Nat /\ met[r] <= most
        OBVIOUS
    <3>2. PICK r \in S : TRUE
        OBVIOUS
    <3> QED
        BY <3>1, <3>2 DEF Range
  <2>2. Max(Range(met)) \in Range(met) /\ \A m \in Range(met) : m <= Max(Range(met))
      BY <2>1, NatMax
  <2>3. PICK r \in S : Max(Range(met)) = met[r]
      BY <2>2 DEF Range
  <2>4. \A s \in S : met[s] \in Range(met)
      BY DEF Range
  <2>5. \A s \in S : met[r] >= met[s]
    <3> TAKE s \in S
    <3>1. met[s] <= met[r] /\ met[s] \in Nat /\ met[r] \in Nat
        BY <2>2, <2>3, <2>4
    <3> QED
        BY <3>1
  <2> QED
      BY <2>5
<1>2. best \in SUBSET Nat /\ best \subseteq S
    OBVIOUS
<1> HIDE DEF best
<1>3. Min(best) \in best
    BY <1>1, <1>2, NatMin
<1> QED
    BY <1>2, <1>3 DEF best

-----------------------------------------------------------------------------
(* The inductive invariants                                                *)

Entries == source.archive.locals
Stored(path) == ~IsDirectory(path)
RecordOf(archive, e) ==
    archive.directory[Min(RecordsOf(archive, e.path, e.spelling))]
BytesOf(e) == FoldLeft(+, 0, e.chunks)

(* An entry that came whole is one of the directory's, of the size said    *)
(* there.                                                                  *)
Expected(archive, e) ==
    /\ RecordsOf(archive, e.path, e.spelling) # {}
    /\ RecordOf(archive, e).size \in {BytesOf(e), Sentinel}
    /\ ~e.corrupt

(* Two entries that store a file store two.                                *)
Apart(archive, n) ==
    \A i, j \in 1..n : archive.locals[i].path = archive.locals[j].path
                       /\ Stored(archive.locals[i].path) => i = j
StoredPaths(archive, n) ==
    {archive.locals[i].path : i \in {j \in 1..n : Stored(archive.locals[j].path)}}

(* What is stored is what the entries that came store.                     *)
StreamInv ==
    /\ source \in Sources
    /\ source.magic = "zip" => Entries \in Seq(LocalEntry)
    /\ expanded \in Nat /\ entry \in Nat \ {0} /\ chunks \in Nat /\ order \in Seq(Path)
    /\ WithinCaps(expanded)
    /\ step \in {"submitted", "inflating", "preflighted", "done", "failed"}
    /\ source.magic # "zip" => step \notin {"inflating", "preflighted"}
    /\ step = "submitted" => entry = 1 /\ chunks = 0 /\ order = <<>> /\ expanded = 0
    /\ source.magic = "zip" /\ step \in {"inflating", "preflighted", "done"} =>
          /\ ScanCentralDirectory(source.archive) = Accepted
          /\ entry <= Len(Entries) + 1
          /\ \A i \in 1..entry - 1 : Expected(source.archive, Entries[i])
          /\ Apart(source.archive, entry - 1)
          /\ Range(order) = StoredPaths(source.archive, entry - 1)
          /\ \A j, k \in DOMAIN order : order[j] = order[k] => j = k
          /\ step = "inflating" /\ entry <= Len(Entries) => chunks < Len(Entries[entry].chunks)
          /\ step # "inflating" =>
                entry = Len(Entries) + 1
                /\ Cardinality(Range(order)) = Cardinality(Files(source.archive))

-----------------------------------------------------------------------------
(* Checks                                                                  *)

(* Of a sequence of checks the first that fails is thrown.                 *)
LEMMA FirstThrown ==
    ASSUME NEW checks, DOMAIN checks \in SUBSET Nat
    PROVE  \/ /\ FirstOf(checks) = Accepted
              /\ \A i \in DOMAIN checks : checks[i] = Accepted
           \/ \E i \in DOMAIN checks : checks[i] # Accepted /\ FirstOf(checks) = checks[i]
<1> DEFINE thrown == {i \in DOMAIN checks : checks[i] # Accepted}
<1>1. CASE thrown = {}
    BY <1>1 DEF FirstOf
<1>2. CASE thrown # {}
  <2>1. thrown \in SUBSET Nat
      OBVIOUS
  <2> HIDE DEF thrown
  <2>2. Min(thrown) \in thrown
      BY <1>2, <2>1, NatMin
  <2>3. FirstOf(checks) = checks[Min(thrown)]
      BY <1>2 DEF FirstOf, thrown
  <2> QED
      BY <2>2, <2>3 DEF thrown
<1> QED
    BY <1>1, <1>2

-----------------------------------------------------------------------------
(* The stream                                                              *)

(* The checks of a chunk that is accepted, and of the last one.            *)
LEMMA ChunkAccepted ==
    ASSUME ChunkError = Accepted, Local \in LocalEntry,
           NEW total, total = expanded + Local.chunks[chunks + 1]
    PROVE  /\ ~Local.corrupt /\ WithinCaps(total)
<1> DEFINE bytes == EntryBytesWith(chunks + 1)
           checks == <<Unless(~Local.corrupt, "INVALID_FILE", "zip.entry-corrupt"),
                 Unless(bytes <= EntryBytes, "LIMIT_EXCEEDED", "zip.entry-bytes"),
                 Unless(total <= ExpandedBytes, "LIMIT_EXCEEDED", "zip.expanded-bytes"),
                 Unless(total <= Max({source.bytes, 1}) * ExpansionRatio,
                        "LIMIT_EXCEEDED", "zip.expansion-ratio")>>
<1>1. FirstOf(checks) = Accepted
    BY DEF ChunkError
<1>2. DOMAIN checks = 1..4
    OBVIOUS
<1>3. /\ checks[1] = Unless(~Local.corrupt, "INVALID_FILE", "zip.entry-corrupt")
      /\ checks[3] = Unless(total <= ExpandedBytes, "LIMIT_EXCEEDED", "zip.expanded-bytes")
      /\ checks[4] = Unless(total <= Max({source.bytes, 1}) * ExpansionRatio,
                            "LIMIT_EXCEEDED", "zip.expansion-ratio")
    OBVIOUS
<1> HIDE DEF checks
<1>4. checks[1] = Accepted /\ checks[3] = Accepted /\ checks[4] = Accepted
  <2>1. DOMAIN checks \in SUBSET Nat
      BY <1>2
  <2>2. \A i \in DOMAIN checks : checks[i] = Accepted
      BY <1>1, <2>1, FirstThrown
  <2> QED
      BY <1>2, <2>2
<1>5. ~Local.corrupt
    BY <1>3, <1>4 DEF Unless, Error, Accepted
<1>6. total <= ExpandedBytes
    BY <1>3, <1>4 DEF Unless, Error, Accepted
<1>7. total <= Max({source.bytes, 1}) * ExpansionRatio
    BY <1>3, <1>4 DEF Unless, Error, Accepted
<1> QED
    BY <1>5, <1>6, <1>7 DEF WithinCaps

LEMMA LastAccepted ==
    ASSUME FinalError = Accepted, Local \in LocalEntry
    PROVE  /\ Declared.size \in {BytesOf(Local), Sentinel}
           /\ IsDirectory(Local.path) \/ Local.path \notin Range(order)
<1> DEFINE checks == <<Unless(Declared.size \in {EntryBytesWith(Len(Local.chunks)), Sentinel},
                              "INVALID_FILE", "zip.size-mismatch"),
                       Unless(IsDirectory(Local.path) \/ Local.path \notin Range(order),
                              "INVALID_FILE", "zip.duplicate-local-entry")>>
<1>1. FirstOf(checks) = Accepted
    BY DEF FinalError
<1>2. /\ checks[1] = Unless(Declared.size \in {EntryBytesWith(Len(Local.chunks)), Sentinel},
                            "INVALID_FILE", "zip.size-mismatch")
      /\ checks[2] = Unless(IsDirectory(Local.path) \/ Local.path \notin Range(order),
                            "INVALID_FILE", "zip.duplicate-local-entry")
      /\ DOMAIN checks = 1..2
    OBVIOUS
<1> HIDE DEF checks
<1>3. checks[1] = Accepted /\ checks[2] = Accepted
  <2>1. DOMAIN checks \in SUBSET Nat
      BY <1>2
  <2>2. \A i \in DOMAIN checks : checks[i] = Accepted
      BY <1>1, <2>1, FirstThrown
  <2> QED
      BY <1>2, <2>2
<1>4. EntryBytesWith(Len(Local.chunks)) = BytesOf(Local)
  <2>1. SubSeq(Local.chunks, 1, Len(Local.chunks)) = Local.chunks
    <3>1. Local.chunks \in Seq(Nat)
        BY DEF LocalEntry
    <3> QED
        BY <3>1, SubSeqFull
  <2> QED
      BY <2>1 DEF EntryBytesWith, BytesOf
<1>5. Declared.size \in {EntryBytesWith(Len(Local.chunks)), Sentinel}
    BY <1>2, <1>3 DEF Unless, Error, Accepted
<1>6. IsDirectory(Local.path) \/ Local.path \notin Range(order)
    BY <1>2, <1>3 DEF Unless, Error, Accepted
<1> QED
    BY <1>4, <1>5, <1>6

(* A stream that has just begun.                                           *)
LEMMA NothingStored ==
    ASSUME source \in Sources
    PROVE  WithinCaps(0)
<1>1. ExpandedBytes \in Nat /\ ExpansionRatio \in Nat /\ source.bytes \in Nat
    BY PackageAssumption, SourceAssumption DEF PackageAssumption, SourceAssumption
<1>2. Max({source.bytes, 1}) \in Nat
  <2> DEFINE S == {source.bytes, 1}
  <2>1. S \in SUBSET Nat /\ S # {} /\ \A x \in S : x <= source.bytes + 1
      BY <1>1
  <2>2. source.bytes + 1 \in Nat
      BY <1>1
  <2> HIDE DEF S
  <2>3. Max(S) \in S
      BY <2>1, <2>2, NatMax
  <2> QED
      BY <2>1, <2>3 DEF S
<1>3. \A m, n \in Nat : 0 <= m * n
    OBVIOUS
<1> QED
    BY <1>1, <1>2, <1>3 DEF WithinCaps

LEMMA InitStream == Init => StreamInv
<1> SUFFICES ASSUME Init PROVE StreamInv
    OBVIOUS
<1>1. source \in Sources /\ WithinCaps(expanded)
    BY NothingStored DEF Init
<1>2. source.magic = "zip" => Entries \in Seq(LocalEntry)
    BY <1>1, SourceAssumption DEF SourceAssumption, Entries
<1>3. order \in Seq(Path)
    BY DEF Init
<1> QED
    BY <1>1, <1>2, <1>3 DEF Init, StreamInv

(* The operation fails, or ends with what the stream left.                 *)
LEMMA StreamEnds ==
    ASSUME StreamInv, UNCHANGED <<source, entry, chunks, expanded, order>>,
           \/ step' \in {step, "failed"}
           \/ step' = "done" /\ (step = "preflighted" \/ source.magic # "zip")
    PROVE  StreamInv'
BY DEF StreamInv, Entries, WithinCaps

LEMMA StreamFails ==
    ASSUME StreamInv, NEW error, Fail(error)
    PROVE  StreamInv'
BY StreamEnds DEF Fail, streamed

(* Before the first chunk.                                                 *)
LEMMA StreamBegins ==
    ASSUME StreamInv, Submit
    PROVE  StreamInv'
<1>1. CASE \E error : Fail(error)
    BY <1>1, StreamFails
<1>2. CASE InspectCsv /\ source.magic # "zip"
    BY <1>2, StreamEnds DEF InspectCsv, streamed
<1>3. CASE /\ source.magic = "zip" /\ ScanCentralDirectory(source.archive) = Accepted
           /\ step' = "inflating"
           /\ UNCHANGED <<source, operation, options, failure, streamed, inspection, table>>
  <2>1. /\ step = "submitted" /\ entry = 1 /\ chunks = 0 /\ order = <<>> /\ expanded = 0
        /\ UNCHANGED <<source, entry, chunks, expanded, order>>
        /\ Entries \in Seq(LocalEntry)
    <3>1. step = "submitted" /\ StreamInv
        BY DEF Submit
    <3>2. entry = 1 /\ chunks = 0 /\ order = <<>> /\ expanded = 0
        BY <3>1 DEF StreamInv
    <3>3. UNCHANGED <<source, entry, chunks, expanded, order>>
        BY <1>3 DEF streamed
    <3>4. Entries \in Seq(LocalEntry)
        BY <1>3, <3>1 DEF StreamInv
    <3> QED
        BY <3>1, <3>2, <3>3, <3>4
  <2>2. entry <= Len(Entries) + 1 /\ 1..entry - 1 = {}
      BY <2>1
  <2>3. StoredPaths(source.archive, entry - 1) = {} /\ Range(order) = {}
      BY <2>1, <2>2 DEF StoredPaths, Range
  <2>4. entry <= Len(Entries) => chunks < Len(Entries[entry].chunks)
    <3> SUFFICES ASSUME entry <= Len(Entries) PROVE 0 < Len(Entries[1].chunks)
        BY <2>1
    <3>1. Entries[1] \in LocalEntry
        BY <2>1
    <3>2. Entries[1].chunks \in Seq(Nat) /\ Entries[1].chunks # <<>>
        BY <3>1 DEF LocalEntry
    <3> QED
        BY <3>2, EmptySeq
  <2>5. Apart(source.archive, entry - 1)
      BY <2>2 DEF Apart
  <2>6. \A j, k \in DOMAIN order : order[j] = order[k] => j = k
      BY <2>1
  <2>7. Entries' = Entries
      BY <2>1 DEF Entries
  <2> QED
      BY <1>3, <2>1, <2>2, <2>3, <2>4, <2>5, <2>6, <2>7 DEF StreamInv, WithinCaps
<1> QED
    BY <1>1, <1>2, <1>3 DEF Submit

LEMMA StreamRead ==
    ASSUME StreamInv, Repack
    PROVE  StreamInv'
<1>1. CASE \E error : Fail(error)
    BY <1>1, StreamFails
<1>2. CASE /\ Cardinality(Range(order)) = Cardinality(Files(source.archive))
           /\ step' = "preflighted"
           /\ UNCHANGED <<source, operation, options, failure, streamed, inspection, table>>
  <2>1. /\ step = "inflating" /\ entry > Len(Entries) /\ source.magic = "zip"
        /\ UNCHANGED <<source, entry, chunks, expanded, order>>
      BY <1>2 DEF Repack, StreamInv, Entries, streamed
  <2>2. entry = Len(Entries) + 1
    <3>1. Entries \in Seq(LocalEntry) /\ entry <= Len(Entries) + 1 /\ entry \in Nat
      <4>1. StreamInv /\ step = "inflating" /\ source.magic = "zip"
          BY <2>1
      <4>2. Entries \in Seq(LocalEntry) /\ entry \in Nat
          BY <4>1 DEF StreamInv
      <4>3. entry <= Len(Entries) + 1
          BY <4>1 DEF StreamInv
      <4> QED
          BY <4>2, <4>3
    <3>2. \A m, n \in Nat : m > n /\ m <= n + 1 => m = n + 1
        OBVIOUS
    <3>3. Len(Entries) \in Nat
        BY <3>1
    <3> QED
        BY <2>1, <3>1, <3>2, <3>3
  <2> QED
      BY <1>2, <2>1, <2>2 DEF StreamInv, Entries, WithinCaps
<1> QED
    BY <1>1, <1>2 DEF Repack

(* One more chunk is accepted.                                             *)
LEMMA ChunkFacts ==
    ASSUME StreamInv, step = "inflating", entry <= Len(Entries)
    PROVE  /\ source.magic = "zip" /\ Entries \in Seq(LocalEntry) /\ entry \in 1..Len(Entries)
           /\ Local = Entries[entry] /\ Local \in LocalEntry
           /\ chunks + 1 \in 1..Len(Local.chunks) /\ Len(Local.chunks) \in Nat
           /\ Local.chunks[chunks + 1] \in Nat
<1>1. source.magic = "zip"
    BY DEF StreamInv
<1>2. Entries \in Seq(LocalEntry) /\ entry \in Nat \ {0} /\ chunks \in Nat
    BY <1>1 DEF StreamInv
<1>3. entry \in 1..Len(Entries) /\ Local = Entries[entry]
    BY <1>2 DEF Local, Entries
<1>4. Local \in LocalEntry
    BY <1>2, <1>3
<1>5. Local.chunks \in Seq(Nat)
    BY <1>4 DEF LocalEntry
<1>6. chunks < Len(Local.chunks)
    BY <1>1, <1>3 DEF StreamInv
<1>7. chunks + 1 \in 1..Len(Local.chunks)
    BY <1>2, <1>5, <1>6
<1> QED
    BY <1>1, <1>2, <1>3, <1>4, <1>5, <1>7

LEMMA StoredNext ==
    ASSUME NEW archive, NEW n \in Nat
    PROVE  StoredPaths(archive, n + 1)
             = StoredPaths(archive, n) \cup
               {p \in {archive.locals[n + 1].path} : Stored(p)}
<1>1. 1..n + 1 = (1..n) \cup {n + 1}
    OBVIOUS
<1> QED
    BY <1>1, Zenon DEF StoredPaths

LEMMA StreamGrows ==
    ASSUME StreamInv, Chunk
    PROVE  StreamInv'
<1> DEFINE final == chunks + 1 = Len(Local.chunks)
           total == expanded + Local.chunks[chunks + 1]
<1>1. CASE \E error : Fail(error)
    BY <1>1, StreamFails
<1>2. CASE /\ ~Unexpected /\ ChunkError = Accepted
           /\ final => FinalError = Accepted
           /\ expanded' = total
           /\ chunks' = IF final THEN 0 ELSE chunks + 1
           /\ entry' = IF final THEN entry + 1 ELSE entry
           /\ order' = IF final /\ ~IsDirectory(Local.path) THEN Append(order, Local.path)
                       ELSE order
           /\ UNCHANGED <<source, step>>
  <2>1. /\ step = "inflating" /\ entry <= Len(Entries)
        /\ source.magic = "zip" /\ Entries \in Seq(LocalEntry) /\ entry \in 1..Len(Entries)
        /\ Local = Entries[entry] /\ Local \in LocalEntry
        /\ chunks + 1 \in 1..Len(Local.chunks) /\ Len(Local.chunks) \in Nat
        /\ Local.chunks[chunks + 1] \in Nat
      BY ChunkFacts DEF Chunk, Entries
  <2>2. /\ entry \in Nat \ {0} /\ chunks \in Nat /\ expanded \in Nat /\ order \in Seq(Path)
        /\ source \in Sources /\ ScanCentralDirectory(source.archive) = Accepted
        /\ \A i \in 1..entry - 1 : Expected(source.archive, Entries[i])
        /\ Apart(source.archive, entry - 1)
        /\ Range(order) = StoredPaths(source.archive, entry - 1)
        /\ \A j, k \in DOMAIN order : order[j] = order[k] => j = k
      BY <2>1 DEF StreamInv
  <2>3. total \in Nat /\ ~Local.corrupt /\ WithinCaps(total)
      BY <1>2, <2>1, <2>2, ChunkAccepted
  <2>4. PICK t \in Nat : t = total /\ WithinCaps(t) /\ expanded' = t
      BY <1>2, <2>3
  <2>5. source' = source /\ step' = step /\ Entries' = Entries /\ WithinCaps(expanded)'
    <3>1. source' = source /\ step' = step
        BY <1>2
    <3> QED
        BY <2>4, <3>1 DEF Entries, WithinCaps
  <2> HIDE DEF total
  <2>6. CASE ~final
    <3>1. entry' = entry /\ order' = order /\ chunks' = chunks + 1 /\ chunks + 1 < Len(Local.chunks)
        BY <1>2, <2>1, <2>6
    <3> HIDE DEF final
    <3> QED
        BY <2>1, <2>2, <2>4, <2>5, <3>1 DEF StreamInv
  <2>7. CASE final
    <3>1. /\ entry' = entry + 1 /\ chunks' = 0
          /\ order' = IF Stored(Local.path) THEN Append(order, Local.path) ELSE order
          /\ FinalError = Accepted
        BY <1>2, <2>7 DEF Stored
    <3> HIDE DEF final
    <3>2. /\ Declared.size \in {BytesOf(Local), Sentinel}
          /\ Stored(Local.path) => Local.path \notin Range(order)
        BY <2>1, <3>1, LastAccepted DEF Stored
    <3>3. Expected(source.archive, Local)
        BY <1>2, <2>3, <3>2 DEF Expected, RecordOf, Declared, Unexpected
    <3>4. entry \in 1..entry /\ 1..entry = (1..entry - 1) \cup {entry}
        BY <2>2
    <3>5. \A i \in 1..entry : Expected(source.archive, Entries[i])
        BY <2>1, <2>2, <3>3, <3>4
    <3>6. StoredPaths(source.archive, entry)
            = Range(order) \cup {p \in {Local.path} : Stored(p)}
      <4>1. entry - 1 \in Nat /\ (entry - 1) + 1 = entry
          BY <2>2
      <4>2. source.archive.locals[entry].path = Local.path
          BY DEF Local
      <4> QED
          BY <2>2, <4>1, <4>2, StoredNext
    <3>7. Local.path \in Path
        BY <2>1 DEF LocalEntry
    <3>8. /\ order' \in Seq(Path) /\ Range(order') = StoredPaths(source.archive, entry)
          /\ \A j, k \in DOMAIN order' : order'[j] = order'[k] => j = k
      <4>1. CASE ~Stored(Local.path)
          BY <2>2, <3>1, <3>6, <4>1
      <4>2. CASE Stored(Local.path)
        <5> DEFINE grown == Append(order, Local.path)
        <5>1. /\ grown \in Seq(Path) /\ DOMAIN grown = 1..Len(order) + 1
              /\ \A i \in 1..Len(order) : grown[i] = order[i]
              /\ grown[Len(order) + 1] = Local.path
              /\ DOMAIN order = 1..Len(order) /\ Len(order) \in Nat
            BY <2>2, <3>7, AppendProperties
        <5> HIDE DEF grown
        <5>2. 1..Len(order) + 1 = (1..Len(order)) \cup {Len(order) + 1}
            BY <5>1
        <5>3. Range(grown) = Range(order) \cup {Local.path}
            BY <5>1, <5>2 DEF Range
        <5>4. \A i \in DOMAIN order : order[i] # Local.path
            BY <3>2, <4>2 DEF Range
        <5>5. \A j, k \in DOMAIN grown : grown[j] = grown[k] => j = k
            BY <2>2, <5>1, <5>2, <5>4
        <5>6. order' = grown
            BY <3>1, <4>2 DEF grown
        <5> QED
            BY <3>6, <4>2, <5>1, <5>3, <5>5, <5>6
      <4> QED
          BY <4>1, <4>2
    <3>9. Apart(source.archive, entry)
      <4> SUFFICES ASSUME NEW i \in 1..entry, NEW j \in 1..entry, i # j,
                          source.archive.locals[i].path = source.archive.locals[j].path,
                          Stored(source.archive.locals[i].path)
                   PROVE  FALSE
          BY DEF Apart
      <4>1. i \in 1..entry - 1 \/ j \in 1..entry - 1
          BY <3>4
      <4>2. i # entry \/ j # entry
          OBVIOUS
      <4>3. CASE i \in 1..entry - 1 /\ j \in 1..entry - 1
          BY <2>2, <4>3 DEF Apart
      <4>4. CASE i = entry \/ j = entry
        <5>1. PICK k \in 1..entry - 1 : source.archive.locals[k].path = Local.path
            BY <3>4, <4>4 DEF Local
        <5>2. Stored(Local.path) /\ Local.path \in StoredPaths(source.archive, entry - 1)
            BY <4>4, <5>1 DEF StoredPaths, Local
        <5> QED
            BY <2>2, <3>2, <5>2
      <4> QED
          BY <3>4, <4>3, <4>4
    <3>10. entry + 1 <= Len(Entries) => 0 < Len(Entries[entry + 1].chunks)
      <4> SUFFICES ASSUME entry + 1 <= Len(Entries) PROVE 0 < Len(Entries[entry + 1].chunks)
          OBVIOUS
      <4>1. Entries[entry + 1] \in LocalEntry
          BY <2>1, <2>2
      <4>2. Entries[entry + 1].chunks \in Seq(Nat) /\ Entries[entry + 1].chunks # <<>>
          BY <4>1 DEF LocalEntry
      <4> QED
          BY <4>2, EmptySeq
    <3>11. entry + 1 \in Nat \ {0} /\ (entry + 1) - 1 = entry /\ entry + 1 <= Len(Entries) + 1
        BY <2>1, <2>2
    <3> QED
        BY <2>1, <2>2, <2>4, <2>5, <3>1, <3>5, <3>8, <3>9, <3>10, <3>11 DEF StreamInv
  <2> QED
      BY <2>6, <2>7
<1> QED
    BY <1>1, <1>2 DEF Chunk

(* Another operation on the same file begins.                              *)
LEMMA StreamAgain ==
    ASSUME StreamInv, NEW op, NEW chosen, Run(op, chosen)
    PROVE  StreamInv'
<1>1. /\ source \in Sources
      /\ source.magic = "zip" => Entries \in Seq(LocalEntry)
    BY DEF StreamInv
<1>2. /\ source' = source /\ step' = "submitted"
      /\ entry' = 1 /\ chunks' = 0 /\ expanded' = 0 /\ order' = <<>>
    BY DEF Run
<1>3. WithinCaps(expanded)'
  <2>1. WithinCaps(0)
      BY NothingStored DEF StreamInv
  <2> QED
      BY <1>2, <2>1 DEF WithinCaps
<1>4. <<>> \in Seq(Path) /\ Entries' = Entries
    BY <1>2 DEF Entries
<1> QED
    BY <1>1, <1>2, <1>3, <1>4 DEF StreamInv

LEMMA StreamInvariant == Spec => []StreamInv
<1>1. StreamInv /\ [Next]_vars => StreamInv'
  <2> SUFFICES ASSUME StreamInv, [Next]_vars PROVE StreamInv'
      OBVIOUS
  <2>1. CASE Submit
      BY <2>1, StreamBegins
  <2>2. CASE Chunk
      BY <2>2, StreamGrows
  <2>3. CASE Repack
      BY <2>3, StreamRead
  <2>4. CASE InspectXlsx
    <3>1. CASE \E error : Fail(error)
        BY <3>1, StreamFails
    <3>2. CASE step' = "done" /\ UNCHANGED streamed /\ UNCHANGED source
        BY <2>4, <3>2, StreamEnds DEF InspectXlsx, streamed
    <3> QED
        BY <2>4, <3>1, <3>2 DEF InspectXlsx
  <2>5. CASE ParseXlsx
    <3>1. CASE \E error : Fail(error)
        BY <3>1, StreamFails
    <3>2. CASE step' = "done" /\ UNCHANGED streamed /\ UNCHANGED source
        BY <2>5, <3>2, StreamEnds DEF ParseXlsx, streamed
    <3> QED
        BY <2>5, <3>1, <3>2 DEF ParseXlsx
  <2>6. CASE ChooseSheet
    <3>1. PICK op, chosen : Run(op, chosen)
        BY <2>6 DEF ChooseSheet
    <3> QED
        BY <3>1, StreamAgain
  <2>7. CASE Proceed
    <3>1. PICK op, chosen : Run(op, chosen)
        BY <2>7 DEF Proceed
    <3> QED
        BY <3>1, StreamAgain
  <2>8. CASE UNCHANGED vars
      BY <2>8, StreamEnds DEF vars
  <2> QED
      BY <2>1, <2>2, <2>3, <2>4, <2>5, <2>6, <2>7, <2>8 DEF Next
<1> QED
    BY InitStream, <1>1, PTL DEF Spec

-----------------------------------------------------------------------------
(* The package                                                             *)

(* A directory that is accepted names a path once.                         *)
LEMMA DirectoryApart ==
    ASSUME NEW archive, archive.directory \in Seq(DirectoryEntry),
           ScanCentralDirectory(archive) = Accepted,
           NEW i \in DOMAIN archive.directory, NEW j \in DOMAIN archive.directory,
           archive.directory[i].path = archive.directory[j].path
    PROVE  i = j
<1> DEFINE directory == archive.directory
           errors == [k \in DOMAIN directory |-> RecordError(directory, k)]
           scan == <<GeometryError(archive.end)>> \o errors
           n == Len(directory)
           Thrown == {GeometryError(archive.end)} \cup {errors[k] : k \in 1..n}
<1>1. n \in Nat /\ DOMAIN directory = 1..n
    OBVIOUS
<1>2. ASSUME NEW k \in 1..n PROVE RecordError(directory, k) = Accepted
  <2>1. errors \in Seq(Thrown) /\ Len(errors) = n /\ errors[k] = RecordError(directory, k)
      BY <1>1
  <2>2. <<GeometryError(archive.end)>> \in Seq(Thrown) /\ Len(<<GeometryError(archive.end)>>) = 1
      OBVIOUS
  <2> HIDE DEF errors, Thrown, n
  <2>3. Len(scan) = n + 1 /\ scan \in Seq(Thrown) /\ scan[k + 1] = errors[k]
      BY <1>1, <2>1, <2>2, ConcatProperties
  <2>4. FirstOf(scan) = Accepted
      BY DEF ScanCentralDirectory, errors
  <2> HIDE DEF scan
  <2>5. DOMAIN scan = 1..n + 1
      BY <2>3
  <2>6. DOMAIN scan \in SUBSET Nat /\ k + 1 \in DOMAIN scan
      BY <1>1, <2>5
  <2>7. scan[k + 1] = Accepted
      BY <2>4, <2>6, FirstThrown
  <2> QED
      BY <2>1, <2>3, <2>7
<1>3. ASSUME NEW k \in 1..n, NEW l \in 1..k - 1 PROVE directory[l].path # directory[k].path
  <2> DEFINE record == directory[k]
             checks ==
        <<Unless(record.size = Sentinel => record.zip64,
                 "INVALID_FILE", "zip.size-sentinel-without-zip64"),
          PathError(record.path),
          Unless("encrypted" \notin record.flags, "UNSUPPORTED", "zip.encrypted-entry"),
          Unless("masked" \notin record.flags, "UNSUPPORTED", "zip.masked-central-directory"),
          Unless("patched" \notin record.flags, "UNSUPPORTED", "zip.patched-data"),
          Unless(record.method \in {"stored", "deflated"}, "UNSUPPORTED", "zip.compression-method"),
          Unless(\A m \in 1..k - 1 : directory[m].path # record.path,
                 "INVALID_FILE", "zip.duplicate-entry"),
          Unless(Bounded(record) => record.size <= EntryBytes, "LIMIT_EXCEEDED", "zip.entry-bytes"),
          Unless(Bounded(record) => DeclaredTotal(directory, k) <= ExpandedBytes,
                 "LIMIT_EXCEEDED", "zip.expanded-bytes")>>
  <2>1. FirstOf(checks) = Accepted
      BY <1>2 DEF RecordError
  <2>2. DOMAIN checks = 1..9
      OBVIOUS
  <2>3. checks[7] = Unless(\A m \in 1..k - 1 : directory[m].path # record.path,
                           "INVALID_FILE", "zip.duplicate-entry")
      OBVIOUS
  <2> HIDE DEF checks
  <2>4. checks[7] = Accepted
    <3>1. DOMAIN checks \in SUBSET Nat /\ 7 \in DOMAIN checks
        BY <2>2
    <3> QED
        BY <2>1, <3>1, FirstThrown
  <2>5. \A m \in 1..k - 1 : directory[m].path # record.path
      BY <2>3, <2>4 DEF Unless, Error, Accepted
  <2> QED
      BY <2>5
<1>4. i \in 1..n /\ j \in 1..n
    BY <1>1
<1>5. i \in Int /\ j \in Int /\ (i < j => i \in 1..j - 1) /\ (j < i => j \in 1..i - 1)
    BY <1>1, <1>4
<1> HIDE DEF n
<1>6. ~(i < j) /\ ~(j < i)
    BY <1>3, <1>4, <1>5
<1> QED
    BY <1>5, <1>6

(* An archive read to its end: its directory is accepted, its entries are  *)
(* expected, and they store the files it names, each once.                 *)
Read(archive) ==
    /\ ScanCentralDirectory(archive) = Accepted
    /\ \A i \in DOMAIN archive.locals : Expected(archive, archive.locals[i])
    /\ Apart(archive, Len(archive.locals))
    /\ StoredPaths(archive, Len(archive.locals)) = Files(archive)

LEMMA ReadWhole ==
    ASSUME StreamInv, source.magic = "zip", step \in {"preflighted", "done"}
    PROVE  /\ Read(source.archive)
           /\ Range(order) = Files(source.archive)
           /\ Len(order) = Cardinality(Files(source.archive))
<1> DEFINE archive == source.archive
           n == Len(archive.locals)
<1>1. /\ archive.locals \in Seq(LocalEntry) /\ source \in Sources /\ order \in Seq(Path)
      /\ ScanCentralDirectory(archive) = Accepted
    BY DEF StreamInv, Entries
<1>2. n \in Nat /\ DOMAIN archive.locals = 1..n
    BY <1>1
<1>3. entry = n + 1 /\ Cardinality(Range(order)) = Cardinality(Files(archive))
    BY DEF StreamInv, Entries
<1>4. entry - 1 = n
    BY <1>2, <1>3
<1>5. /\ \A i \in 1..n : Expected(archive, archive.locals[i])
      /\ Apart(archive, n) /\ Range(order) = StoredPaths(archive, n)
      /\ \A j, k \in DOMAIN order : order[j] = order[k] => j = k
    BY <1>4 DEF StreamInv, Entries
<1>6. archive.directory \in Seq(DirectoryEntry)
    BY <1>1, SourceAssumption DEF SourceAssumption
<1> HIDE DEF n, archive
<1>7. Range(order) \subseteq Files(archive)
  <2> SUFFICES ASSUME NEW i \in 1..n, Stored(archive.locals[i].path)
               PROVE  archive.locals[i].path \in Files(archive)
      BY <1>5 DEF StoredPaths
  <2>1. PICK j \in DOMAIN archive.directory : archive.directory[j].path = archive.locals[i].path
      BY <1>5 DEF Expected, RecordsOf
  <2> QED
      BY <2>1 DEF Files, Stored
<1>8. IsFiniteSet(Files(archive))
  <2> DEFINE m == Len(archive.directory)
             paths == [i \in 1..m |-> archive.directory[i].path]
  <2>1. m \in Nat /\ DOMAIN archive.directory = 1..m
      BY <1>6
  <2>2. IsFiniteSet(Range(paths))
    <3>1. paths \in [1..m -> Range(paths)]
        BY DEF Range
    <3> HIDE DEF m, paths
    <3> QED
        BY <2>1, <3>1, RangeSize
  <2>3. Files(archive) \in SUBSET Range(paths)
    <3>1. \A i \in 1..m : archive.directory[i].path \in Range(paths)
        BY DEF Range
    <3> QED
        BY <2>1, <3>1 DEF Files
  <2> QED
      BY <2>2, <2>3, FS_Subset
<1>9. Range(order) = Files(archive)
    BY <1>3, <1>7, <1>8, FS_Subset
<1>10. Cardinality(Range(order)) = Len(order)
  <2>1. /\ Len(order) \in Nat /\ DOMAIN order = 1..Len(order)
        /\ order \in [1..Len(order) -> Path]
      BY <1>1
  <2> QED
      BY <1>5, <2>1, RangeSize
<1> QED
    BY <1>1, <1>2, <1>3, <1>5, <1>9, <1>10 DEF Read, n, archive

(* What is admitted is what the directory names, once, of the size it says *)
(* and within the limits.                                                  *)
THEOREM Admitted == Spec => []PackageAdmitted
<1>1. StreamInv => PackageAdmitted
  <2> SUFFICES ASSUME StreamInv PROVE PackageAdmitted
      OBVIOUS
  <2> DEFINE archive == source.archive
             locals(path) == {i \in DOMAIN archive.locals : archive.locals[i].path = path}
             size(i) == FoldLeft(+, 0, archive.locals[i].chunks)
  <2>1. WithinCaps(expanded)
      BY DEF StreamInv
  <2>2. ASSUME step \in {"preflighted", "done"}, source.magic = "zip"
        PROVE  /\ Range(order) = Files(archive) /\ Len(order) = Cardinality(Files(archive))
               /\ \A i \in DOMAIN archive.directory :
                     Bounded(archive.directory[i]) =>
                         \A k \in locals(archive.directory[i].path) :
                             size(k) = archive.directory[i].size
               /\ \A path \in Files(archive) : Cardinality(locals(path)) = 1
    <3>1. /\ Read(archive) /\ Range(order) = Files(archive)
          /\ Len(order) = Cardinality(Files(archive))
        BY <2>2, ReadWhole
    <3>2. /\ archive.directory \in Seq(DirectoryEntry) /\ archive.locals \in Seq(LocalEntry)
          /\ DOMAIN archive.locals = 1..Len(archive.locals)
      <4>1. source \in Sources
          BY DEF StreamInv
      <4>2. archive.directory \in Seq(DirectoryEntry) /\ archive.locals \in Seq(LocalEntry)
          BY <2>2, <4>1, SourceAssumption DEF SourceAssumption
      <4> QED
          BY <4>2
    <3> HIDE DEF archive
    <3>3. ASSUME NEW i \in DOMAIN archive.directory, Bounded(archive.directory[i]),
                 NEW k \in locals(archive.directory[i].path)
          PROVE  size(k) = archive.directory[i].size
      <4> DEFINE found == RecordsOf(archive, archive.locals[k].path, archive.locals[k].spelling)
      <4>1. k \in DOMAIN archive.locals /\ archive.locals[k].path = archive.directory[i].path
          OBVIOUS
      <4>2. /\ found # {}
            /\ archive.directory[Min(found)].size \in {size(k), Sentinel}
          BY <3>1, <4>1 DEF Read, Expected, RecordOf, BytesOf
      <4>3. Min(found) \in found
        <5>1. found \in SUBSET Nat
            BY <3>2 DEF RecordsOf
        <5> HIDE DEF found
        <5> QED
            BY <4>2, <5>1, NatMin
      <4>4. /\ Min(found) \in DOMAIN archive.directory
            /\ archive.directory[Min(found)].path = archive.directory[i].path
          BY <4>1, <4>3 DEF RecordsOf
      <4>5. Min(found) = i
          BY <3>1, <3>2, <4>4, DirectoryApart DEF Read
      <4>6. archive.directory[i].size # Sentinel
          BY <3>3 DEF Bounded
      <4> QED
          BY <4>2, <4>5, <4>6
    <3>4. ASSUME NEW path \in Files(archive)
          PROVE  Cardinality(locals(path)) = 1
      <4>1. path \in StoredPaths(archive, Len(archive.locals))
          BY <3>1 DEF Read
      <4>2. PICK i \in 1..Len(archive.locals) : archive.locals[i].path = path /\ Stored(path)
          BY <4>1 DEF StoredPaths
      <4>3. locals(path) = {i}
          BY <3>1, <3>2, <4>2 DEF Read, Apart
      <4> QED
          BY <4>3, FS_Singleton
    <3> QED
        BY <3>1, <3>3, <3>4
  <2> QED
      BY <2>1, <2>2 DEF PackageAdmitted
<1> QED
    BY StreamInvariant, <1>1, PTL

-----------------------------------------------------------------------------
(* The reader of a sheet                                                   *)

LEMMA CellOfPart ==
    ASSUME NEW part \in Part
    PROVE  /\ part.cells \in Seq(Cell) /\ Len(part.cells) \in Nat
           /\ DOMAIN part.cells = 1..Len(part.cells)
           /\ \A i \in DOMAIN part.cells :
                 /\ part.cells[i].row \in Nat \ {0} /\ part.cells[i].column \in Nat \ {0}
                 /\ part.cells[i].text \in Nat
<1>1. part.cells \in Seq(Cell)
    BY DEF Part
<1>2. \A i \in DOMAIN part.cells : part.cells[i] \in Cell
    BY <1>1
<1> QED
    BY <1>1, <1>2 DEF Cell

(* The cells of a part lie within some bound.                              *)
LEMMA PartBound ==
    ASSUME NEW part \in Part
    PROVE  \E b \in Nat : \A i \in DOMAIN part.cells :
              part.cells[i].row <= b /\ part.cells[i].column <= b
<1> DEFINE n == Len(part.cells)
           rows == [i \in 1..n |-> part.cells[i].row]
           columns == [i \in 1..n |-> part.cells[i].column]
<1>1. /\ n \in Nat /\ DOMAIN part.cells = 1..n
      /\ rows \in [1..n -> Nat] /\ columns \in [1..n -> Nat]
    BY CellOfPart
<1>2. PICK r \in Nat : \A i \in 1..n : rows[i] <= r
  <2> HIDE DEF n, rows
  <2> QED
      BY <1>1, FiniteBound
<1>3. PICK c \in Nat : \A i \in 1..n : columns[i] <= c
  <2> HIDE DEF n, columns
  <2> QED
      BY <1>1, FiniteBound
<1>4. r + c \in Nat /\ r <= r + c /\ c <= r + c
    OBVIOUS
<1>5. ASSUME NEW i \in DOMAIN part.cells
      PROVE  part.cells[i].row <= r + c /\ part.cells[i].column <= r + c
  <2>1. rows[i] <= r /\ columns[i] <= c /\ rows[i] \in Nat /\ columns[i] \in Nat
      BY <1>1, <1>2, <1>3
  <2>2. rows[i] = part.cells[i].row /\ columns[i] = part.cells[i].column
      BY <1>1
  <2> HIDE DEF rows, columns
  <2> QED
      BY <1>4, <2>1, <2>2
<1> QED
    BY <1>4, <1>5

(* The bounds of some of the cells hold them all, and touch them.          *)
LEMMA BoundsHold ==
    ASSUME NEW part \in Part, NEW S \in SUBSET DOMAIN part.cells, S # {},
           NEW b, b = BoundsOf({part.cells[i] : i \in S})
    PROVE  /\ b \in Bounds /\ b.firstRow <= b.lastRow /\ b.firstColumn <= b.lastColumn
           /\ \A i \in S : Within(part.cells[i], b)
           /\ \E i \in S : part.cells[i].row = b.firstRow
<1> DEFINE places == {part.cells[i] : i \in S}
           rows == {p.row : p \in places}
           columns == {p.column : p \in places}
<1>1. PICK m \in Nat : \A i \in DOMAIN part.cells :
              part.cells[i].row <= m /\ part.cells[i].column <= m
    BY PartBound
<1>2. /\ places # {} /\ rows \in SUBSET Nat /\ columns \in SUBSET Nat
      /\ rows # {} /\ columns # {}
      /\ \A x \in rows \cup columns : x <= m
    BY <1>1, CellOfPart
<1>3. b = [firstRow |-> Min(rows), lastRow |-> Max(rows),
           firstColumn |-> Min(columns), lastColumn |-> Max(columns)]
    BY <1>2 DEF BoundsOf
<1>4. \A i \in S : part.cells[i].row \in rows /\ part.cells[i].column \in columns
    OBVIOUS
<1>5. \A r \in rows : \E i \in S : part.cells[i].row = r
    OBVIOUS
<1> HIDE DEF rows, columns, places
<1>6. /\ Min(rows) \in rows /\ Max(rows) \in rows
      /\ \A x \in rows : Min(rows) <= x /\ x <= Max(rows)
    BY <1>2, NatMin, NatMax
<1>7. /\ Min(columns) \in columns /\ Max(columns) \in columns
      /\ \A x \in columns : Min(columns) <= x /\ x <= Max(columns)
    BY <1>2, NatMin, NatMax
<1>8. b \in Bounds
  <2>1. {Min(rows), Max(rows), Min(columns), Max(columns)} \subseteq Nat
      BY <1>2, <1>6, <1>7
  <2> QED
      BY <1>3, <2>1 DEF Bounds
<1>9. b.firstRow <= b.lastRow /\ b.firstColumn <= b.lastColumn
    BY <1>3, <1>6, <1>7
<1>10. ASSUME NEW i \in S PROVE Within(part.cells[i], b)
  <2>1. /\ part.cells[i].row \in Nat /\ part.cells[i].column \in Nat
        /\ Min(rows) <= part.cells[i].row /\ part.cells[i].row <= Max(rows)
        /\ Min(columns) <= part.cells[i].column /\ part.cells[i].column <= Max(columns)
      BY <1>4, <1>6, <1>7, CellOfPart
  <2>2. {Min(rows), Max(rows), Min(columns), Max(columns)} \subseteq Nat
      BY <1>2, <1>6, <1>7
  <2> QED
      BY <1>3, <2>1, <2>2 DEF Within
<1>11. \E i \in S : part.cells[i].row = b.firstRow
  <2>1. b.firstRow = Min(rows)
      BY <1>3
  <2>2. Min(rows) \in rows
      BY <1>6
  <2> QED
      BY <1>5, <2>1, <2>2
<1> QED
    BY <1>8, <1>9, <1>10, <1>11

LEMMA BoundsType ==
    ASSUME NEW part \in Part, NEW S \in SUBSET DOMAIN part.cells
    PROVE  BoundsOf({part.cells[i] : i \in S}) \in Bounds
<1>1. CASE S = {}
    BY <1>1 DEF BoundsOf, NoBounds, Bounds
<1>2. CASE S # {}
    BY <1>2, BoundsHold
<1> QED
    BY <1>1, <1>2

(* The first row that is as wide as most.                                  *)
LEMMA ModalRowFound ==
    ASSUME NEW part \in Part, Data(part) # {}
    PROVE  ModalHeaderRow(part) \in RowsOf(part)
<1> DEFINE all == RowsOf(part)
           rows == FirstRows(all, PreviewRows)
           alike(r) == Cardinality({s \in rows : Width(part, s) = Width(part, r)})
           most == Cardinality(rows)
           met == [r \in rows |-> alike(r)]
<1>1. all \in SUBSET Nat /\ all # {} /\ IsFiniteSet(all)
  <2>1. all \in SUBSET Nat /\ all # {}
      BY CellOfPart DEF RowsOf, Data
  <2>2. PICK m \in Nat : \A i \in DOMAIN part.cells : part.cells[i].row <= m
      BY PartBound
  <2>3. \A r \in all : r <= m
      BY <2>2 DEF RowsOf, Data
  <2> HIDE DEF all
  <2> QED
      BY <2>1, <2>3, FS_BoundedSetOfNaturals
<1> HIDE DEF all
<1>2. rows \subseteq all
    BY DEF FirstRows
<1>3. rows # {}
  <2>1. Min(all) \in all /\ \A r \in all : Min(all) <= r
      BY <1>1, NatMin
  <2>2. {s \in all : s < Min(all)} = {}
    <3>1. \A s \in all : ~(s < Min(all))
      <4> TAKE s \in all
      <4>1. s \in Nat /\ Min(all) \in Nat /\ Min(all) <= s
          BY <1>1, <2>1
      <4> QED
          BY <4>1
    <3> QED
        BY <3>1
  <2>3. Cardinality({s \in all : s < Min(all)}) = 0
      BY <2>2, FS_EmptySet
  <2>4. 0 < PreviewRows
      BY ReaderAssumption DEF ReaderAssumption
  <2> QED
      BY <2>1, <2>3, <2>4 DEF FirstRows
<1>4. ModalHeaderRow(part) = Min({r \in rows : \A s \in rows : alike(r) >= alike(s)})
    BY DEF ModalHeaderRow, ModalRow, all
<1> HIDE DEF rows
<1>5. rows \in SUBSET Nat /\ IsFiniteSet(rows) /\ most \in Nat
  <2>1. rows \in SUBSET all
      BY <1>2
  <2> QED
      BY <1>1, <2>1, FS_Subset, FS_CardinalityType
<1>6. ASSUME NEW r PROVE alike(r) \in 0..most
  <2> DEFINE same == {s \in rows : Width(part, s) = Width(part, r)}
  <2>1. same \in SUBSET rows
      OBVIOUS
  <2> HIDE DEF same
  <2>2. IsFiniteSet(same) /\ Cardinality(same) <= most
      BY <1>5, <2>1, FS_Subset
  <2>3. Cardinality(same) \in Nat
      BY <2>2, FS_CardinalityType
  <2> QED
      BY <1>5, <2>2, <2>3 DEF same
<1> HIDE DEF alike, most
<1>7. met \in [rows -> 0..most]
    BY <1>6
<1>8. {r \in rows : \A s \in rows : alike(r) >= alike(s)}
        = {r \in rows : \A s \in rows : met[r] >= met[s]}
    OBVIOUS
<1> HIDE DEF met
<1>9. Min({r \in rows : \A s \in rows : met[r] >= met[s]}) \in rows
    BY <1>3, <1>5, <1>7, FirstOfMost
<1> QED
    BY <1>2, <1>4, <1>8, <1>9 DEF all

ParseOptions == [sheet : Int, header : Nat, firstColumn : Nat, lastColumn : Nat,
                 allowHidden : BOOLEAN]

LEMMA ContentHolds ==
    ASSUME NEW part \in Part, NEW header \in Nat
    PROVE  /\ ContentBounds(part, header) \in Bounds
           /\ \A i \in Data(part) : part.cells[i].row >= header =>
                 Within(part.cells[i], ContentBounds(part, header))
<1> DEFINE S == {j \in Data(part) : part.cells[j].row >= header}
<1>1. S \in SUBSET DOMAIN part.cells
    BY DEF Data
<1>2. ContentBounds(part, header) = BoundsOf({part.cells[i] : i \in S})
    BY DEF ContentBounds
<1>3. ASSUME NEW i \in Data(part), part.cells[i].row >= header
      PROVE  i \in S
    BY <1>3
<1> HIDE DEF S
<1>4. ContentBounds(part, header) \in Bounds
    BY <1>1, <1>2, BoundsType
<1>5. S # {} => \A i \in S : Within(part.cells[i], ContentBounds(part, header))
    BY <1>1, <1>2, BoundsHold
<1> QED
    BY <1>3, <1>4, <1>5

(* Bounds that are accepted: the header row is the first, and there is a   *)
(* last row after it.                                                      *)
LEMMA Resolved ==
    ASSUME NEW part \in Part, NEW chosen \in ParseOptions,
           ResolveError(part, chosen) = Accepted
    PROVE  /\ Data(part) # {} /\ ResolveBounds(part, chosen) \in Bounds
           /\ HeaderOf(part, chosen) \in Nat
           /\ ResolveBounds(part, chosen).firstRow = HeaderOf(part, chosen)
           /\ ResolveBounds(part, chosen).firstRow <= ResolveBounds(part, chosen).lastRow
           /\ ResolveBounds(part, chosen).firstColumn <= ResolveBounds(part, chosen).lastColumn
<1> DEFINE header == HeaderOf(part, chosen)
           bounds == ResolveBounds(part, chosen)
           content == ContentBounds(part, header)
           checks == <<Unless(\E r \in RowsOf(part) : r >= header,
                              "INVALID_FILE", "xlsx.header-row-beyond-content"),
                       Unless(bounds.firstColumn <= bounds.lastColumn,
                              "INVALID_FILE", "xlsx.column-range-invalid"),
                       Unless(Rows(bounds) <= RowsIncludingHeader,
                              "LIMIT_EXCEEDED", "rows-including-header"),
                       Unless(Columns(bounds) <= MaxColumns, "LIMIT_EXCEEDED", "columns")>>
<1>1. Data(part) # {}
    BY DEF ResolveError, Error, Accepted
<1>2. chosen.header \in Nat /\ chosen.firstColumn \in Nat /\ chosen.lastColumn \in Nat
    BY DEF ParseOptions
<1>3. header \in Nat
  <2>1. ModalHeaderRow(part) \in Nat
      BY <1>1, ModalRowFound, CellOfPart DEF RowsOf, Data
  <2> QED
      BY <1>2, <2>1 DEF HeaderOf
<1>4. FirstOf(checks) = Accepted
    BY <1>1 DEF ResolveError
<1>5. /\ DOMAIN checks = 1..4
      /\ checks[1] = Unless(\E r \in RowsOf(part) : r >= header,
                            "INVALID_FILE", "xlsx.header-row-beyond-content")
      /\ checks[2] = Unless(bounds.firstColumn <= bounds.lastColumn,
                            "INVALID_FILE", "xlsx.column-range-invalid")
    OBVIOUS
<1>6. bounds = [content EXCEPT !.firstRow = header,
                    !.firstColumn = IF chosen.firstColumn # Unset THEN chosen.firstColumn ELSE @,
                    !.lastColumn = IF chosen.lastColumn # Unset THEN chosen.lastColumn ELSE @]
    BY DEF ResolveBounds
<1> HIDE DEF checks, bounds, header
<1>7. checks[1] = Accepted /\ checks[2] = Accepted
  <2>1. DOMAIN checks \in SUBSET Nat /\ 1 \in DOMAIN checks /\ 2 \in DOMAIN checks
      BY <1>5
  <2> QED
      BY <1>4, <2>1, FirstThrown
<1>8. PICK r \in RowsOf(part) : r >= header
    BY <1>5, <1>7 DEF Unless, Error, Accepted
<1>9. bounds.firstColumn <= bounds.lastColumn
    BY <1>5, <1>7 DEF Unless, Error, Accepted
<1>10. /\ content \in Bounds
       /\ \A i \in Data(part) : part.cells[i].row >= header => Within(part.cells[i], content)
    BY <1>3, ContentHolds
<1> HIDE DEF content
<1>11. bounds \in Bounds /\ bounds.firstRow = header /\ bounds.lastRow = content.lastRow
    BY <1>2, <1>3, <1>6, <1>10 DEF Bounds
<1>12. header <= content.lastRow
  <2>1. PICK i \in Data(part) : part.cells[i].row = r
      BY <1>8 DEF RowsOf
  <2>2. Within(part.cells[i], content)
      BY <1>8, <1>10, <2>1
  <2>3. r \in Nat /\ content.lastRow \in Nat /\ content.firstRow \in Nat
      BY <1>10, <2>1, CellOfPart DEF Bounds, Data
  <2>4. r <= content.lastRow
      BY <2>1, <2>2, <2>3 DEF Within
  <2> QED
      BY <1>3, <1>8, <2>3, <2>4
<1> QED
    BY <1>1, <1>3, <1>9, <1>11, <1>12 DEF bounds, header

OneAtAPlace(part) ==
    \A j, k \in DOMAIN part.cells :
        part.cells[j].row = part.cells[k].row /\ part.cells[j].column = part.cells[k].column
            => j = k
SamePlace(c, d) == c.row = d.row /\ c.column = d.column

LEMMA MapCellPlace ==
    ASSUME NEW cell
    PROVE  /\ MapCell(cell).row = cell.row /\ MapCell(cell).column = cell.column
           /\ MapCell(cell).type = "formula" => cell.shape = "formula"
BY DEF MapCell

(* The run of empty elements before a formula begins at an element of the  *)
(* part, and those of two formulas do not meet.                            *)
LEMMA OpeningFound ==
    ASSUME NEW part \in Part, NEW i \in DOMAIN part.cells
    PROVE  \E j \in 1..i : /\ OpeningOf(part, i) = part.cells[j]
                           /\ \A k \in j..i - 1 : part.cells[k].shape = "styled"
<1> DEFINE run == {j \in 1..i : \A k \in j..i - 1 : part.cells[k].shape = "styled"}
<1>1. i \in Nat \ {0}
    BY CellOfPart
<1>2. i \in run
  <2>1. i \in 1..i /\ i..i - 1 = {}
      BY <1>1
  <2> QED
      BY <2>1
<1>3. run \in SUBSET Nat
    OBVIOUS
<1>4. OpeningOf(part, i) = part.cells[Min(run)]
    BY DEF OpeningOf
<1> HIDE DEF run
<1>5. Min(run) \in run
    BY <1>2, <1>3, NatMin
<1> QED
    BY <1>4, <1>5 DEF run

LEMMA OpeningsApart ==
    ASSUME NEW part \in Part, OneAtAPlace(part),
           NEW i \in DOMAIN part.cells, NEW j \in DOMAIN part.cells,
           part.cells[i].shape = "bare", part.cells[j].shape = "bare",
           SamePlace(OpeningOf(part, i), OpeningOf(part, j))
    PROVE  i = j
<1>1. PICK k \in 1..i : /\ OpeningOf(part, i) = part.cells[k]
                        /\ \A l \in k..i - 1 : part.cells[l].shape = "styled"
    BY OpeningFound
<1>2. PICK m \in 1..j : /\ OpeningOf(part, j) = part.cells[m]
                        /\ \A l \in m..j - 1 : part.cells[l].shape = "styled"
    BY OpeningFound
<1>3. DOMAIN part.cells = 1..Len(part.cells) /\ Len(part.cells) \in Nat
    BY CellOfPart
<1>4. k \in DOMAIN part.cells /\ m \in DOMAIN part.cells
    BY <1>3
<1>5. k = m
    BY <1>1, <1>2, <1>4 DEF OneAtAPlace, SamePlace
<1>6. i \notin m..j - 1 /\ j \notin k..i - 1
    BY <1>1, <1>2
<1> QED
    BY <1>3, <1>5, <1>6

(* A formula without a value is written where its run begins.              *)
LEMMA FormulaAt ==
    ASSUME NEW part \in Part, NEW bounds, NEW f \in FormulaOnly(part, bounds)
    PROVE  \E i \in DOMAIN part.cells :
              /\ part.cells[i].shape = "bare" /\ Within(OpeningOf(part, i), bounds)
              /\ f = [MapCell(OpeningOf(part, i)) EXCEPT !.type = "formula",
                                                         !.text = part.cells[i].text]
              /\ SamePlace(f, OpeningOf(part, i))
<1>1. PICK i \in DOMAIN part.cells :
              /\ part.cells[i].shape = "bare" /\ Within(OpeningOf(part, i), bounds)
              /\ f = [MapCell(OpeningOf(part, i)) EXCEPT !.type = "formula",
                                                         !.text = part.cells[i].text]
    BY DEF FormulaOnly
<1>2. f.row = OpeningOf(part, i).row /\ f.column = OpeningOf(part, i).column
    BY <1>1 DEF MapCell
<1> QED
    BY <1>1, <1>2 DEF SamePlace

(* The cells of a range: one at a place, in the range, all along the       *)
(* header row.                                                             *)
LEMMA Emitted ==
    ASSUME NEW part \in Part, OneAtAPlace(part), NEW bounds \in Bounds,
           bounds.firstRow <= bounds.lastRow, bounds.firstColumn <= bounds.lastColumn
    PROVE  /\ \A c, d \in EmitCells(part, bounds) : SamePlace(c, d) => c = d
           /\ \A c \in EmitCells(part, bounds) :
                 Within(c, bounds) /\ (c.type = "formula" =>
                                         \E d \in CellsIn(part, bounds) : d.shape = "formula")
           /\ \A column \in bounds.firstColumn..bounds.lastColumn :
                 \E c \in EmitCells(part, bounds) : c.row = bounds.firstRow /\ c.column = column
<1> DEFINE written == Nonblank({MapCell(c) : c \in CellsIn(part, bounds)})
           header == {Blank(bounds.firstRow, c) : c \in bounds.firstColumn..bounds.lastColumn}
           filled == {b \in header : \A c \in written : c.row # b.row \/ c.column # b.column}
<1>1. EmitCells(part, bounds) = written \cup filled
    BY DEF EmitCells
<1>2. \A w \in written : \E i \in Data(part) :
          w = MapCell(part.cells[i]) /\ SamePlace(w, part.cells[i]) /\ Within(part.cells[i], bounds)
    BY MapCellPlace DEF Nonblank, CellsIn, SamePlace
<1>3. \A c, d \in written : SamePlace(c, d) => c = d
  <2> SUFFICES ASSUME NEW c \in written, NEW d \in written, SamePlace(c, d) PROVE c = d
      OBVIOUS
  <2>1. PICK i \in Data(part) : c = MapCell(part.cells[i]) /\ SamePlace(c, part.cells[i])
      BY <1>2
  <2>2. PICK j \in Data(part) : d = MapCell(part.cells[j]) /\ SamePlace(d, part.cells[j])
      BY <1>2
  <2>3. i = j
      BY <2>1, <2>2 DEF OneAtAPlace, SamePlace, Data
  <2> QED
      BY <2>1, <2>2, <2>3
<1>4. \A b \in filled : \E column \in bounds.firstColumn..bounds.lastColumn :
          b = Blank(bounds.firstRow, column)
    OBVIOUS
<1>5. \A column : /\ Blank(bounds.firstRow, column).row = bounds.firstRow
                  /\ Blank(bounds.firstRow, column).column = column
                  /\ Blank(bounds.firstRow, column).type = "blank"
    BY DEF Blank
<1>6. \A c, d \in filled : SamePlace(c, d) => c = d
    BY <1>4, <1>5 DEF SamePlace
<1>7. \A c \in written, b \in filled : ~SamePlace(c, b) /\ ~SamePlace(b, c)
    BY DEF SamePlace
<1>8. \A w \in written : Within(w, bounds)
    BY <1>2 DEF Within, SamePlace
<1>9. \A b \in filled : Within(b, bounds) /\ b.type # "formula"
  <2>1. bounds.firstRow \in bounds.firstRow..bounds.lastRow
      BY DEF Bounds
  <2> QED
      BY <1>4, <1>5, <2>1 DEF Within
<1>10. \A w \in written : w.type = "formula" =>
           \E d \in CellsIn(part, bounds) : d.shape = "formula"
    BY MapCellPlace DEF Nonblank
<1>11. ASSUME NEW column \in bounds.firstColumn..bounds.lastColumn
       PROVE  \E c \in written \cup filled : c.row = bounds.firstRow /\ c.column = column
  <2> DEFINE b == Blank(bounds.firstRow, column)
  <2>1. CASE b \in filled
      BY <1>5, <2>1
  <2>2. CASE b \notin filled
    <3>1. PICK c \in written : c.row = b.row /\ c.column = b.column
        BY <2>2
    <3> QED
        BY <1>5, <3>1
  <2> QED
      BY <2>1, <2>2
<1> HIDE DEF written, filled
<1>12. \A c, d \in written \cup filled : SamePlace(c, d) => c = d
    BY <1>3, <1>6, <1>7
<1> QED
    BY <1>1, <1>8, <1>9, <1>10, <1>11, <1>12

(* With the formulas the scan finds, a place still holds one cell.         *)
LEMMA EmittedWithFormulas ==
    ASSUME NEW part \in Part, OneAtAPlace(part), NEW bounds \in Bounds,
           bounds.firstRow <= bounds.lastRow, bounds.firstColumn <= bounds.lastColumn,
           NEW cells, cells = WithFormulas(EmitCells(part, bounds), FormulaOnly(part, bounds))
    PROVE  /\ \A c, d \in cells : SamePlace(c, d) => c = d
           /\ \A c \in cells :
                 Within(c, bounds) /\ (c.type = "formula" =>
                                         "formula-cells" \in Disclosures(part, bounds))
           /\ \A column \in bounds.firstColumn..bounds.lastColumn :
                 \E c \in cells : c.row = bounds.firstRow /\ c.column = column
<1> DEFINE emitted == EmitCells(part, bounds)
           added == {f \in FormulaOnly(part, bounds) :
                        \A c \in emitted : c.row # f.row \/ c.column # f.column}
<1>1. cells = emitted \cup added
    BY DEF WithFormulas
<1>2. /\ \A c, d \in emitted : SamePlace(c, d) => c = d
      /\ \A c \in emitted :
            Within(c, bounds) /\ (c.type = "formula" =>
                                    \E d \in CellsIn(part, bounds) : d.shape = "formula")
      /\ \A column \in bounds.firstColumn..bounds.lastColumn :
            \E c \in emitted : c.row = bounds.firstRow /\ c.column = column
    BY Emitted
<1>3. \A c \in emitted, f \in added : ~SamePlace(c, f) /\ ~SamePlace(f, c)
    BY DEF SamePlace
<1>4. \A f, g \in added : SamePlace(f, g) => f = g
  <2> SUFFICES ASSUME NEW f \in added, NEW g \in added, SamePlace(f, g) PROVE f = g
      OBVIOUS
  <2>1. f \in FormulaOnly(part, bounds) /\ g \in FormulaOnly(part, bounds)
      OBVIOUS
  <2> HIDE DEF added
  <2>2. PICK i \in DOMAIN part.cells :
            /\ part.cells[i].shape = "bare"
            /\ f = [MapCell(OpeningOf(part, i)) EXCEPT !.type = "formula",
                                                       !.text = part.cells[i].text]
            /\ SamePlace(f, OpeningOf(part, i))
      BY <2>1, FormulaAt
  <2>3. PICK j \in DOMAIN part.cells :
            /\ part.cells[j].shape = "bare"
            /\ g = [MapCell(OpeningOf(part, j)) EXCEPT !.type = "formula",
                                                       !.text = part.cells[j].text]
            /\ SamePlace(g, OpeningOf(part, j))
      BY <2>1, FormulaAt
  <2>4. SamePlace(OpeningOf(part, i), OpeningOf(part, j))
      BY <2>2, <2>3 DEF SamePlace
  <2>5. i = j
      BY <2>2, <2>3, <2>4, OpeningsApart
  <2> QED
      BY <2>2, <2>3, <2>5
<1>5. \A f \in added : Within(f, bounds)
  <2> SUFFICES ASSUME NEW f \in added PROVE Within(f, bounds)
      OBVIOUS
  <2>1. PICK i \in DOMAIN part.cells :
            Within(OpeningOf(part, i), bounds) /\ SamePlace(f, OpeningOf(part, i))
      BY FormulaAt
  <2> QED
      BY <2>1 DEF Within, SamePlace
<1>6. added # {} \/ (\E d \in CellsIn(part, bounds) : d.shape = "formula") =>
          "formula-cells" \in Disclosures(part, bounds)
  <2>1. added # {} => FormulaOnly(part, bounds) # {}
      OBVIOUS
  <2> HIDE DEF added
  <2> QED
      BY <2>1 DEF Disclosures
<1> HIDE DEF added, emitted
<1>7. \A c, d \in cells : SamePlace(c, d) => c = d
    BY <1>1, <1>2, <1>3, <1>4
<1>8. \A c \in cells : Within(c, bounds) /\ (c.type = "formula" =>
                                               "formula-cells" \in Disclosures(part, bounds))
    BY <1>1, <1>2, <1>5, <1>6
<1>9. \A column \in bounds.firstColumn..bounds.lastColumn :
          \E c \in cells : c.row = bounds.firstRow /\ c.column = column
    BY <1>1, <1>2
<1> QED
    BY <1>7, <1>8, <1>9

(* As many cells as places, no more than the range has.                    *)
LEMMA PlacesCounted ==
    ASSUME NEW bounds \in Bounds,
           bounds.firstRow <= bounds.lastRow, bounds.firstColumn <= bounds.lastColumn,
           NEW cells, \A c, d \in cells : SamePlace(c, d) => c = d,
           \A c \in cells : Within(c, bounds),
           Rows(bounds) * Columns(bounds) <= NonemptyCells
    PROVE  /\ Cardinality({<<c.row, c.column>> : c \in cells}) = Cardinality(cells)
           /\ Cardinality(Nonblank(cells)) <= NonemptyCells
<1> DEFINE places == {<<c.row, c.column>> : c \in cells}
           at == [c \in cells |-> <<c.row, c.column>>]
           rows == bounds.firstRow..bounds.lastRow
           columns == bounds.firstColumn..bounds.lastColumn
<1>1. at \in Injection(cells, places) /\ at \in Surjection(cells, places)
    BY DEF Injection, IsInjective, Surjection, SamePlace
<1>2. places \subseteq rows \X columns
    BY DEF Within
<1>3. IsFiniteSet(rows \X columns) /\ Cardinality(rows \X columns) = Rows(bounds) * Columns(bounds)
  <2>1. /\ bounds.firstRow \in Int /\ bounds.lastRow \in Int
        /\ bounds.firstColumn \in Int /\ bounds.lastColumn \in Int
      BY DEF Bounds
  <2>2. IsFiniteSet(rows) /\ Cardinality(rows) = Rows(bounds)
      BY <2>1, IntervalSize DEF Rows
  <2>3. IsFiniteSet(columns) /\ Cardinality(columns) = Columns(bounds)
      BY <2>1, IntervalSize DEF Columns
  <2> HIDE DEF rows, columns
  <2> QED
      BY <2>2, <2>3, FS_Product
<1> HIDE DEF places, rows, columns, at
<1>4. IsFiniteSet(places) /\ Cardinality(places) <= Cardinality(rows \X columns)
    BY <1>2, <1>3, FS_Subset
<1>5. IsFiniteSet(cells) /\ Cardinality(cells) = Cardinality(places)
    BY <1>1, <1>4, FS_Injection
<1>6. Cardinality(Nonblank(cells)) <= Cardinality(cells) /\ IsFiniteSet(Nonblank(cells))
  <2>1. Nonblank(cells) \in SUBSET cells
      BY DEF Nonblank
  <2> QED
      BY <1>5, <2>1, FS_Subset
<1>7. /\ Cardinality(cells) \in Nat /\ Cardinality(Nonblank(cells)) \in Nat
      /\ Cardinality(rows \X columns) \in Nat
    BY <1>3, <1>5, <1>6, FS_CardinalityType
<1>8. NonemptyCells \in Nat
    BY ReaderAssumption DEF ReaderAssumption
<1> QED
    BY <1>3, <1>4, <1>5, <1>6, <1>7, <1>8 DEF places

-----------------------------------------------------------------------------
(* What is thrown                                                          *)

Public(error) == error.code # "INTERNAL"
Limit(error) == error.code = "LIMIT_EXCEEDED"

LEMMA FirstPublic ==
    ASSUME NEW checks, DOMAIN checks \in SUBSET Nat, \A i \in DOMAIN checks : Public(checks[i])
    PROVE  Public(FirstOf(checks))
BY FirstThrown DEF Public, Accepted, Error

(* What is thrown of a sequence of checks is of one that is not sure.      *)
LEMMA FirstLimit ==
    ASSUME NEW checks, DOMAIN checks \in SUBSET Nat,
           \A i \in DOMAIN checks : checks[i] = Accepted \/ Limit(checks[i])
    PROVE  FirstOf(checks) = Accepted \/ Limit(FirstOf(checks))
BY FirstThrown

LEMMA PathPublic ==
    ASSUME NEW path \in Path
    PROVE  Public(PathError(path))
<1> DEFINE first == <<Unless(path # <<"">>, "INVALID_FILE", "zip.path-empty")>>
           segments == [i \in DOMAIN path |-> SegmentError(path, i)]
           last == <<Unless(path = <<>> \/ path[1] # "C:", "INVALID_FILE", "zip.path-absolute")>>
           n == Len(path)
           S == {error \in Range(first) \cup Range(segments) \cup Range(last) : Public(error)}
<1>1. n \in Nat /\ DOMAIN path = 1..n
    BY DEF Path
<1>2. first \in Seq(S)
  <2>1. Public(first[1])
      BY DEF Public, Unless, Error, Accepted
  <2> DEFINE error == Unless(path # <<"">>, "INVALID_FILE", "zip.path-empty")
  <2>2. first = <<error>> /\ first[1] = error
      OBVIOUS
  <2> HIDE DEF error, first, segments, last
  <2>3. error \in Range(first)
      BY <2>2 DEF Range
  <2> QED
      BY <2>1, <2>2, <2>3
<1>3. last \in Seq(S)
  <2>1. Public(last[1])
      BY DEF Public, Unless, Error, Accepted
  <2>2. last[1] \in Range(last)
      BY DEF Range
  <2> HIDE DEF segments, first
  <2> QED
      BY <2>1, <2>2
<1>4. segments \in Seq(S)
  <2>1. \A i \in 1..n : Public(segments[i])
      BY <1>1 DEF SegmentError, Public, Error, Accepted
  <2>2. \A i \in 1..n : segments[i] \in Range(segments)
      BY <1>1 DEF Range
  <2>3. \A i \in 1..n : segments[i] \in S
      BY <2>1, <2>2
  <2>4. segments = [i \in 1..n |-> segments[i]]
      BY <1>1
  <2> HIDE DEF segments, S, n
  <2> QED
      BY <1>1, <2>3, <2>4
<1> DEFINE checks == first \o segments \o last
<1>5. checks \in Seq(S)
  <2> HIDE DEF first, segments, last, S
  <2>1. first \o segments \in Seq(S)
      BY <1>2, <1>4, ConcatProperties
  <2> QED
      BY <1>3, <2>1, ConcatProperties
<1>6. PathError(path) = FirstOf(checks)
    BY DEF PathError
<1>7. \A error \in S : Public(error)
    OBVIOUS
<1> HIDE DEF checks, S
<1>8. DOMAIN checks \in SUBSET Nat /\ \A i \in DOMAIN checks : checks[i] \in S
    BY <1>5
<1> QED
    BY <1>6, <1>7, <1>8, FirstPublic

LEMMA RecordPublic ==
    ASSUME NEW directory \in Seq(DirectoryEntry), NEW i \in DOMAIN directory
    PROVE  Public(RecordError(directory, i))
<1> DEFINE record == directory[i]
           checks ==
        <<Unless(record.size = Sentinel => record.zip64,
                 "INVALID_FILE", "zip.size-sentinel-without-zip64"),
          PathError(record.path),
          Unless("encrypted" \notin record.flags, "UNSUPPORTED", "zip.encrypted-entry"),
          Unless("masked" \notin record.flags, "UNSUPPORTED", "zip.masked-central-directory"),
          Unless("patched" \notin record.flags, "UNSUPPORTED", "zip.patched-data"),
          Unless(record.method \in {"stored", "deflated"}, "UNSUPPORTED", "zip.compression-method"),
          Unless(\A m \in 1..i - 1 : directory[m].path # record.path,
                 "INVALID_FILE", "zip.duplicate-entry"),
          Unless(Bounded(record) => record.size <= EntryBytes, "LIMIT_EXCEEDED", "zip.entry-bytes"),
          Unless(Bounded(record) => DeclaredTotal(directory, i) <= ExpandedBytes,
                 "LIMIT_EXCEEDED", "zip.expanded-bytes")>>
<1>1. DOMAIN checks = 1..9
    OBVIOUS
<1>2. checks[2] = PathError(record.path)
    OBVIOUS
<1>3. record.path \in Path
  <2>1. record \in DirectoryEntry
      OBVIOUS
  <2> HIDE DEF record, checks
  <2> QED
      BY <2>1 DEF DirectoryEntry
<1>4. Public(checks[2])
    BY <1>2, <1>3, PathPublic
<1>5. /\ Public(checks[1]) /\ Public(checks[3]) /\ Public(checks[4]) /\ Public(checks[5])
      /\ Public(checks[6]) /\ Public(checks[7]) /\ Public(checks[8]) /\ Public(checks[9])
    BY DEF Public, Unless, Error, Accepted
<1>6. RecordError(directory, i) = FirstOf(checks)
    BY DEF RecordError
<1> HIDE DEF checks
<1>7. DOMAIN checks \in SUBSET Nat /\ \A k \in DOMAIN checks : Public(checks[k])
    BY <1>1, <1>4, <1>5
<1> QED
    BY <1>6, <1>7, FirstPublic

LEMMA ScanPublic ==
    ASSUME NEW archive, archive.directory \in Seq(DirectoryEntry)
    PROVE  Public(ScanCentralDirectory(archive))
<1> DEFINE directory == archive.directory
           errors == [k \in DOMAIN directory |-> RecordError(directory, k)]
           head == <<GeometryError(archive.end)>>
           n == Len(directory)
           S == {error \in Range(head) \cup Range(errors) : Public(error)}
<1>1. n \in Nat /\ DOMAIN directory = 1..n
    OBVIOUS
<1>2. Public(GeometryError(archive.end))
  <2> DEFINE end == archive.end
             checks ==
          <<Unless(end.found, "INVALID_FILE", "zip.eocd-missing"),
            Unless(end.wide => end.located, "INVALID_FILE", "zip.zip64-eocd-missing"),
            Unless(end.disks = 1 /\ end.onDisk = end.entries, "UNSUPPORTED", "zip.multi-disk"),
            Unless(end.inside, "INVALID_FILE", "zip.central-directory-out-of-bounds"),
            Unless(end.entries <= MaxEntries, "LIMIT_EXCEEDED", "zip.entries")>>
  <2>1. DOMAIN checks = 1..5
      OBVIOUS
  <2>2. /\ Public(checks[1]) /\ Public(checks[2]) /\ Public(checks[3])
        /\ Public(checks[4]) /\ Public(checks[5])
      BY DEF Public, Unless, Error, Accepted
  <2>3. GeometryError(end) = FirstOf(checks)
      BY DEF GeometryError
  <2> HIDE DEF checks
  <2>4. DOMAIN checks \in SUBSET Nat /\ \A k \in DOMAIN checks : Public(checks[k])
      BY <2>1, <2>2
  <2> QED
      BY <2>3, <2>4, FirstPublic
<1>3. head \in Seq(S)
  <2>1. Public(head[1])
      BY <1>2
  <2>2. head[1] \in Range(head)
      BY DEF Range
  <2> HIDE DEF errors
  <2> QED
      BY <2>1, <2>2
<1>4. errors \in Seq(S)
  <2>1. \A i \in 1..n : Public(errors[i]) /\ errors[i] \in Range(errors)
      BY <1>1, RecordPublic DEF Range
  <2>2. \A i \in 1..n : errors[i] \in S
      BY <2>1
  <2>3. errors = [i \in 1..n |-> errors[i]]
      BY <1>1
  <2> HIDE DEF errors, S, n
  <2> QED
      BY <1>1, <2>2, <2>3
<1> DEFINE checks == head \o errors
<1>5. ScanCentralDirectory(archive) = FirstOf(checks)
    BY DEF ScanCentralDirectory
<1>6. \A error \in S : Public(error)
    OBVIOUS
<1> HIDE DEF head, errors, S
<1>7. checks \in Seq(S)
    BY <1>3, <1>4, ConcatProperties
<1> HIDE DEF checks
<1>8. DOMAIN checks \in SUBSET Nat /\ \A k \in DOMAIN checks : Public(checks[k])
    BY <1>6, <1>7
<1> QED
    BY <1>5, <1>8, FirstPublic

LEMMA LimitPublic ==
    ASSUME NEW error, error = Accepted \/ Limit(error)
    PROVE  Public(error)
BY DEF Limit, Public, Accepted, Error

LEMMA DetectPublic ==
    /\ Public(DetectError)
    /\ source.bytes > 0 /\ source.magic = "zip" => DetectError = Accepted \/ Limit(DetectError)
<1> DEFINE checks ==
        <<Unless(operation = "parse" => source.bytes > 0, "INVALID_FILE", "empty-input"),
          Unless(source.bytes <= CompressedBytes, "LIMIT_EXCEEDED", "input-bytes"),
          Unless(source.magic # "ole", "UNSUPPORTED", "ole2-container")>>
<1>1. DOMAIN checks = 1..3
    OBVIOUS
<1>2. Public(checks[1]) /\ Public(checks[2]) /\ Public(checks[3])
    BY DEF Public, Unless, Error, Accepted
<1>3. source.bytes > 0 /\ source.magic = "zip" =>
          checks[1] = Accepted /\ checks[3] = Accepted /\ (checks[2] = Accepted \/ Limit(checks[2]))
    BY DEF Limit, Unless, Error
<1>4. DetectError = FirstOf(checks)
    BY DEF DetectError
<1> HIDE DEF checks
<1>5. DOMAIN checks \in SUBSET Nat /\ \A i \in DOMAIN checks : Public(checks[i])
    BY <1>1, <1>2
<1>6. source.bytes > 0 /\ source.magic = "zip" =>
          \A i \in DOMAIN checks : checks[i] = Accepted \/ Limit(checks[i])
    BY <1>1, <1>3
<1> QED
    BY <1>4, <1>5, <1>6, FirstPublic, FirstLimit

LEMMA CsvPublic == Public(CsvError)
<1> DEFINE checks ==
        <<Unless(source.utf8, "INVALID_FILE", "csv.invalid-utf8"),
          Unless(source.records # <<>>, "INVALID_FILE", "csv.empty"),
          Unless(~source.ambiguous, "AMBIGUOUS_INPUT", "csv.ambiguous-delimiter")>>
<1>1. DOMAIN checks = 1..3
    OBVIOUS
<1>2. Public(checks[1]) /\ Public(checks[2]) /\ Public(checks[3])
    BY DEF Public, Unless, Error, Accepted
<1>3. CsvError = FirstOf(checks)
    BY DEF CsvError
<1> HIDE DEF checks
<1>4. DOMAIN checks \in SUBSET Nat /\ \A i \in DOMAIN checks : Public(checks[i])
    BY <1>1, <1>2
<1> QED
    BY <1>3, <1>4, FirstPublic

LEMMA ChunkPublic ==
    /\ Public(ChunkError)
    /\ ~Local.corrupt => ChunkError = Accepted \/ Limit(ChunkError)
<1> DEFINE bytes == EntryBytesWith(chunks + 1)
           total == expanded + Local.chunks[chunks + 1]
           checks == <<Unless(~Local.corrupt, "INVALID_FILE", "zip.entry-corrupt"),
                 Unless(bytes <= EntryBytes, "LIMIT_EXCEEDED", "zip.entry-bytes"),
                 Unless(total <= ExpandedBytes, "LIMIT_EXCEEDED", "zip.expanded-bytes"),
                 Unless(total <= Max({source.bytes, 1}) * ExpansionRatio,
                        "LIMIT_EXCEEDED", "zip.expansion-ratio")>>
<1>1. ChunkError = FirstOf(checks)
    BY DEF ChunkError
<1> HIDE DEF bytes, total
<1>2. DOMAIN checks = 1..4
    OBVIOUS
<1>3. /\ Public(checks[1])
      /\ checks[2] = Accepted \/ Limit(checks[2])
      /\ checks[3] = Accepted \/ Limit(checks[3])
      /\ checks[4] = Accepted \/ Limit(checks[4])
    BY DEF Public, Limit, Unless, Error, Accepted
<1>4. ~Local.corrupt => checks[1] = Accepted
    BY DEF Unless
<1> HIDE DEF checks
<1>5. DOMAIN checks \in SUBSET Nat /\ \A i \in DOMAIN checks : Public(checks[i])
    BY <1>2, <1>3, LimitPublic
<1>6. ~Local.corrupt => \A i \in DOMAIN checks : checks[i] = Accepted \/ Limit(checks[i])
    BY <1>2, <1>3, <1>4
<1> QED
    BY <1>1, <1>5, <1>6, FirstPublic, FirstLimit

LEMMA FinalPublic ==
    ASSUME Local \in LocalEntry
    PROVE  /\ Public(FinalError)
           /\ \/ Declared.size \notin {BytesOf(Local), Sentinel}
              \/ ~IsDirectory(Local.path) /\ Local.path \in Range(order)
              \/ FinalError = Accepted
<1> DEFINE size == Declared.size \in {EntryBytesWith(Len(Local.chunks)), Sentinel}
           fresh == IsDirectory(Local.path) \/ Local.path \notin Range(order)
           checks == <<Unless(size, "INVALID_FILE", "zip.size-mismatch"),
                       Unless(fresh, "INVALID_FILE", "zip.duplicate-local-entry")>>
<1>1. FinalError = FirstOf(checks)
    BY DEF FinalError
<1>2. EntryBytesWith(Len(Local.chunks)) = BytesOf(Local)
  <2>1. Local.chunks \in Seq(Nat)
      BY DEF LocalEntry
  <2>2. SubSeq(Local.chunks, 1, Len(Local.chunks)) = Local.chunks
      BY <2>1, SubSeqFull
  <2> QED
      BY <2>2 DEF EntryBytesWith, BytesOf
<1>3. DOMAIN checks = 1..2
    OBVIOUS
<1>4. Public(checks[1]) /\ Public(checks[2])
    BY DEF Public, Unless, Error, Accepted
<1>5. size /\ fresh => checks[1] = Accepted /\ checks[2] = Accepted
    BY DEF Unless
<1> HIDE DEF checks, size, fresh
<1>6. DOMAIN checks \in SUBSET Nat /\ \A i \in DOMAIN checks : Public(checks[i])
    BY <1>3, <1>4
<1>7. size /\ fresh => \A i \in DOMAIN checks : checks[i] = Accepted
    BY <1>3, <1>5
<1>8. size /\ fresh => FirstOf(checks) = Accepted
    BY <1>6, <1>7, FirstThrown
<1> QED
    BY <1>1, <1>2, <1>6, <1>8, FirstPublic DEF size, fresh

LEMMA EmitLimit ==
    ASSUME NEW part, NEW bounds
    PROVE  /\ EmitError(part, bounds) = Accepted \/ Limit(EmitError(part, bounds))
           /\ EmitError(part, bounds) = Accepted => Rows(bounds) * Columns(bounds) <= NonemptyCells
<1> DEFINE cells == CellsIn(part, bounds)
           area == Rows(bounds) * Columns(bounds) <= NonemptyCells
           checks == <<Unless(area, "LIMIT_EXCEEDED", "range-cells"),
                 Unless(\A c \in cells : c.shape # "long", "LIMIT_EXCEEDED", "cell.characters"),
                 Unless(Cardinality(Nonblank({MapCell(c) : c \in cells})) <= NonemptyCells,
                        "LIMIT_EXCEEDED", "nonempty-cells")>>
<1>1. EmitError(part, bounds) = FirstOf(checks)
    BY DEF EmitError
<1> HIDE DEF cells, area
<1>2. DOMAIN checks = 1..3
    OBVIOUS
<1>3. /\ checks[1] = Accepted \/ Limit(checks[1])
      /\ checks[2] = Accepted \/ Limit(checks[2])
      /\ checks[3] = Accepted \/ Limit(checks[3])
    BY DEF Limit, Unless, Error, Accepted
<1>4. checks[1] = Accepted => area
    BY DEF Unless, Error, Accepted
<1> HIDE DEF checks
<1>5. /\ DOMAIN checks \in SUBSET Nat /\ 1 \in DOMAIN checks
      /\ \A i \in DOMAIN checks : checks[i] = Accepted \/ Limit(checks[i])
    BY <1>2, <1>3
<1>6. FirstOf(checks) = Accepted => checks[1] = Accepted
    BY <1>5, FirstThrown
<1> QED
    BY <1>1, <1>4, <1>5, <1>6, FirstLimit DEF area

LEMMA ClassifyPublic ==
    ASSUME NEW names, NEW types
    PROVE  Public(ClassifyError(names, types))
<1> DEFINE checks ==
        <<Unless(~Marked(names, "EncryptionInfo"), "UNSUPPORTED", "xlsx.encrypted-package"),
          Unless(~Marked(names, "vbaProject.bin"), "UNSUPPORTED", "xlsx.macro-enabled"),
          Unless(~Marked(names, "workbook.bin"), "UNSUPPORTED", "xlsx.binary-workbook"),
          Unless("macroEnabled" \notin types, "UNSUPPORTED", "xlsx.macro-enabled"),
          Unless("sheet.binary" \notin types, "UNSUPPORTED", "xlsx.binary-workbook"),
          Unless(~Marked(names, "mimetype"), "UNSUPPORTED", "xlsx.ods-masquerade")>>
<1>1. ClassifyError(names, types) = FirstOf(checks)
    BY DEF ClassifyError
<1>2. DOMAIN checks = 1..6
    OBVIOUS
<1>3. /\ Public(checks[1]) /\ Public(checks[2]) /\ Public(checks[3])
      /\ Public(checks[4]) /\ Public(checks[5]) /\ Public(checks[6])
    BY DEF Public, Unless, Error, Accepted
<1> HIDE DEF checks
<1>4. DOMAIN checks \in SUBSET Nat /\ \A i \in DOMAIN checks : Public(checks[i])
    BY <1>2, <1>3
<1> QED
    BY <1>1, <1>4, FirstPublic

(* The workbook of a package that is accepted is one of its parts.         *)
LEMMA MetaPublic ==
    ASSUME NEW parts
    PROVE  /\ Public(MetaError(parts))
           /\ MetaError(parts) = Accepted => WorkbookPath(parts) \in DOMAIN parts
<1> DEFINE path == WorkbookPath(parts)
           there == path \in DOMAIN parts
           named == path # NoPath
           listed == there => parts[path].sheets # <<>>
           checks == <<ClassifyError(DOMAIN parts, parts[ContentTypes].types),
                       Unless(named, "UNSUPPORTED", "xlsx.not-a-workbook"),
                       Unless(there, "INVALID_FILE", "xlsx.workbook-missing"),
                       Unless(listed, "INVALID_FILE", "xlsx.no-sheets")>>
<1>1. CASE ContentTypes \notin DOMAIN parts
    BY <1>1 DEF MetaError, Public, Error, Accepted
<1>2. CASE ContentTypes \in DOMAIN parts
  <2>1. MetaError(parts) = FirstOf(checks)
      BY <1>2 DEF MetaError
  <2> HIDE DEF there, named, listed
  <2>2. DOMAIN checks = 1..4
      OBVIOUS
  <2>3. Public(checks[2]) /\ Public(checks[3]) /\ Public(checks[4])
      BY DEF Public, Unless, Error, Accepted
  <2>4. Public(checks[1])
      BY ClassifyPublic
  <2>5. checks[3] = Accepted => there
      BY DEF Unless, Error, Accepted
  <2> HIDE DEF checks
  <2>6. DOMAIN checks \in SUBSET Nat /\ \A i \in DOMAIN checks : Public(checks[i])
      BY <2>2, <2>3, <2>4
  <2>7. FirstOf(checks) = Accepted => checks[3] = Accepted
      BY <2>2, <2>6, FirstThrown
  <2> QED
      BY <2>1, <2>5, <2>6, <2>7, FirstPublic DEF there
<1> QED
    BY <1>1, <1>2

(* What a selection that is accepted tells.                                *)
LEMMA SelectPublic ==
    ASSUME NEW sheets, NEW chosen
    PROVE  /\ Public(SelectError(sheets, chosen))
           /\ SelectError(sheets, chosen) = Accepted =>
                 LET asked == {i \in DOMAIN sheets : sheets[i].id = chosen.sheet}
                 IN /\ chosen.sheet >= 0 => asked # {}
                    /\ chosen.sheet >= 0 /\ ~chosen.allowHidden =>
                          \A i \in asked : Visible(sheets[i])
                    /\ chosen.sheet >= 0 \/ VisibleOf(sheets) # {}
<1> DEFINE asked == {i \in DOMAIN sheets : sheets[i].id = chosen.sheet}
           few == Cardinality(VisibleOf(sheets)) <= VisibleSheets
           present == chosen.sheet >= 0 => asked # {}
           allowed == chosen.sheet >= 0 /\ ~chosen.allowHidden => \A i \in asked : Visible(sheets[i])
           seen == chosen.sheet >= 0 \/ VisibleOf(sheets) # {}
           checks == <<Unless(few, "LIMIT_EXCEEDED", "xlsx.visible-sheets"),
                       Unless(present, "INVALID_FILE", "xlsx.sheet-not-found"),
                       Unless(allowed, "UNSUPPORTED", "xlsx.sheet-hidden-requires-opt-in"),
                       Unless(seen, "UNSUPPORTED", "xlsx.no-visible-sheets")>>
<1>1. SelectError(sheets, chosen) = FirstOf(checks)
    BY DEF SelectError
<1> HIDE DEF few, present, allowed, seen
<1>2. DOMAIN checks = 1..4
    OBVIOUS
<1>3. /\ Public(checks[1]) /\ Public(checks[2]) /\ Public(checks[3]) /\ Public(checks[4])
      /\ checks[2] = Accepted => present
      /\ checks[3] = Accepted => allowed
      /\ checks[4] = Accepted => seen
    BY DEF Public, Unless, Error, Accepted
<1> HIDE DEF checks
<1>4. DOMAIN checks \in SUBSET Nat /\ \A i \in DOMAIN checks : Public(checks[i])
    BY <1>2, <1>3
<1>5. FirstOf(checks) = Accepted => present /\ allowed /\ seen
  <2>1. FirstOf(checks) = Accepted => \A i \in DOMAIN checks : checks[i] = Accepted
      BY <1>4, FirstThrown
  <2> QED
      BY <1>2, <1>3, <2>1
<1>6. Public(SelectError(sheets, chosen))
    BY <1>1, <1>4, FirstPublic
<1> QED
    BY <1>1, <1>5, <1>6 DEF present, allowed, seen

(* The sheets of a workbook that is accepted are numbered as they come.    *)
LEMMA SheetsFound ==
    ASSUME NEW parts, \A path \in DOMAIN parts : parts[path] \in Part,
           MetaError(parts) = Accepted
    PROVE  \E n \in Nat : /\ DOMAIN SheetInfos(parts) = 1..n
                          /\ \A i \in 1..n : SheetInfos(parts)[i].id = i - 1
<1> DEFINE path == WorkbookPath(parts)
<1>1. path \in DOMAIN parts
    BY MetaPublic
<1>2. parts[path].sheets \in Seq([visibility : STRING, rel : Nat])
    BY <1>1 DEF Part
<1> DEFINE n == Len(parts[path].sheets)
<1>3. n \in Nat /\ DOMAIN parts[path].sheets = 1..n
    BY <1>2
<1>4. DOMAIN SheetInfos(parts) = 1..n /\ \A i \in 1..n : SheetInfos(parts)[i].id = i - 1
    BY <1>3 DEF SheetInfos
<1> QED
    BY <1>3, <1>4

(* A sheet that is selected is one of them: the one asked for, seen by the *)
(* user or opted in to, or else a visible one.                             *)
LEMMA SheetSelected ==
    ASSUME NEW n \in Nat, NEW sheets, DOMAIN sheets = 1..n,
           \A i \in 1..n : sheets[i].id = i - 1,
           NEW chosen \in ParseOptions, SelectError(sheets, chosen) = Accepted
    PROVE  \E i \in 1..n : /\ SelectSheet(sheets, chosen) = sheets[i]
                           /\ sheets[i].id + 1 = i
                           /\ Visible(sheets[i]) \/ chosen.allowHidden
<1>1. chosen.sheet \in Int
    BY DEF ParseOptions
<1>2. CASE chosen.sheet >= 0
  <2>1. PICK i \in 1..n : sheets[i].id = chosen.sheet
      BY <1>2, SelectPublic
  <2>2. Visible(sheets[i]) \/ chosen.allowHidden
      BY <1>2, <2>1, SelectPublic
  <2>3. chosen.sheet + 1 = i
      BY <1>1, <2>1
  <2>4. SelectSheet(sheets, chosen) = sheets[i]
      BY <1>2, <2>3 DEF SelectSheet
  <2> QED
      BY <2>1, <2>2, <2>3, <2>4
<1>3. CASE ~(chosen.sheet >= 0)
  <2>1. VisibleOf(sheets) # {}
    <3>1. chosen.sheet < 0
        BY <1>1, <1>3
    <3> QED
        BY <1>3, <3>1, SelectPublic
  <2>2. VisibleOf(sheets) \in SUBSET Nat
      BY DEF VisibleOf
  <2>3. PICK i \in VisibleOf(sheets) : i = Min(VisibleOf(sheets))
      BY <2>1, <2>2, NatMin
  <2>4. i \in 1..n /\ Visible(sheets[i])
      BY <2>3 DEF VisibleOf
  <2>5. SelectSheet(sheets, chosen) = sheets[i]
      BY <1>3, <2>3 DEF SelectSheet
  <2>6. sheets[i].id + 1 = i
      BY <2>4
  <2> QED
      BY <2>4, <2>5, <2>6
<1> QED
    BY <1>2, <1>3

(* The parts the parser is given are those of the archive.                 *)
PartsOf(archive) ==
    [path \in Files(archive) |->
        LET stored == {i \in DOMAIN archive.locals : archive.locals[i].path = path}
        IN archive.locals[Max(stored)].part]

LEMMA PartsFound ==
    ASSUME StreamInv, source.magic = "zip", step \in {"preflighted", "done"}
    PROVE  /\ Parts = PartsOf(source.archive)
           /\ \A path \in DOMAIN Parts : Parts[path] \in Part /\ OneAtAPlace(Parts[path])
<1> DEFINE archive == source.archive
           n == Len(archive.locals)
<1>1. Read(archive) /\ Range(order) = Files(archive)
    BY ReadWhole
<1>2. Parts = PartsOf(archive)
    BY <1>1 DEF Parts, PartsOf
<1>3. source \in Sources
    BY DEF StreamInv
<1>4. /\ archive.locals \in Seq(LocalEntry)
      /\ \A i \in DOMAIN archive.locals : OneAtAPlace(archive.locals[i].part)
    BY <1>3, SourceAssumption DEF SourceAssumption, OneAtAPlace
<1> HIDE DEF archive
<1>5. n \in Nat /\ DOMAIN archive.locals = 1..n
    BY <1>4
<1>6. ASSUME NEW path \in Files(archive)
      PROVE  PartsOf(archive)[path] \in Part /\ OneAtAPlace(PartsOf(archive)[path])
  <2> DEFINE stored == {i \in DOMAIN archive.locals : archive.locals[i].path = path}
  <2>1. path \in StoredPaths(archive, n)
      BY <1>1 DEF Read
  <2>2. stored # {}
      BY <1>5, <2>1 DEF StoredPaths
  <2>3. PartsOf(archive)[path] = archive.locals[Max(stored)].part
      BY DEF PartsOf
  <2>4. stored \in SUBSET Nat /\ \A i \in stored : i <= n
      BY <1>5
  <2>5. stored \subseteq DOMAIN archive.locals
      OBVIOUS
  <2> HIDE DEF stored, n
  <2>6. Max(stored) \in stored
      BY <1>5, <2>2, <2>4, NatMax
  <2>7. PICK i \in DOMAIN archive.locals : i = Max(stored)
      BY <2>5, <2>6
  <2>8. archive.locals[i] \in LocalEntry
      BY <1>4, <2>7
  <2>9. archive.locals[i].part \in Part
      BY <2>8 DEF LocalEntry
  <2> QED
      BY <1>4, <2>3, <2>7, <2>9
<1>7. DOMAIN PartsOf(archive) = Files(archive)
    BY DEF PartsOf
<1> QED
    BY <1>2, <1>6, <1>7 DEF archive

(* The preview shows rows of the sheet, and of them its cells.             *)
LEMMA PreviewFound ==
    ASSUME NEW part \in Part
    PROVE  /\ \A c \in PreviewCells(part) : c.row \in RowsOf(part)
           /\ \A c \in Nonblank(PreviewCells(part)) :
                 \E i \in Data(part) : c = MapCell(part.cells[i])
<1>1. CASE Data(part) = {}
    BY <1>1 DEF PreviewCells, Nonblank
<1>2. CASE Data(part) # {}
  <2> DEFINE all == RowsOf(part)
             first == Min(all)
             last == Min({first + PreviewRows - 1, Max(all)})
             S == {j \in Data(part) : part.cells[j].row \in first..last}
             band == BoundsOf({part.cells[i] : i \in S})
             bounds == PreviewBounds(part)
             written == Nonblank({MapCell(c) : c \in CellsIn(part, bounds)})
  <2>1. bounds = [band EXCEPT !.lastRow = last]
      BY DEF PreviewBounds
  <2>2. S \in SUBSET DOMAIN part.cells
      BY DEF Data
  <2>3. S # {}
    <3>1. all \in SUBSET Nat /\ all # {}
        BY <1>2, CellOfPart DEF RowsOf, Data
    <3>2. PICK m \in Nat : \A i \in DOMAIN part.cells : part.cells[i].row <= m
        BY PartBound
    <3>3. \A r \in all : r <= m
        BY <3>2 DEF RowsOf, Data
    <3> HIDE DEF all
    <3>4. first \in all /\ Max(all) \in all /\ first <= Max(all)
        BY <3>1, <3>2, <3>3, NatMin, NatMax
    <3>5. first \in Nat /\ Max(all) \in Nat
        BY <3>1, <3>4
    <3>6. first <= last /\ last \in Nat
      <4> DEFINE T == {first + PreviewRows - 1, Max(all)}
      <4>1. PreviewRows \in Nat \ {0}
          BY ReaderAssumption DEF ReaderAssumption
      <4> HIDE DEF first
      <4>2. T \in SUBSET Nat /\ T # {} /\ \A t \in T : first <= t
          BY <3>4, <3>5, <4>1
      <4> HIDE DEF T
      <4>3. Min(T) \in T
          BY <4>2, NatMin
      <4> QED
          BY <4>2, <4>3 DEF T
    <3>7. PICK i \in Data(part) : part.cells[i].row = first
        BY <3>4 DEF all, RowsOf
    <3>8. first \in first..last
        BY <3>5, <3>6
    <3> QED
        BY <3>7, <3>8
  <2> HIDE DEF S, last
  <2>4. band \in Bounds /\ \E i \in S : part.cells[i].row = band.firstRow
      BY <2>2, <2>3, BoundsHold
  <2>5. PICK i \in Data(part) : part.cells[i].row = bounds.firstRow
    <3> HIDE DEF bounds, band
    <3>1. bounds.firstRow = band.firstRow
        BY <2>1, <2>4 DEF Bounds
    <3> QED
        BY <2>4, <3>1 DEF S
  <2>6. PreviewCells(part) = EmitCells(part, bounds)
      BY <1>2 DEF PreviewCells
  <2> HIDE DEF bounds
  <2>7. \A c \in EmitCells(part, bounds) :
            c \in written \/ (c.row = bounds.firstRow /\ c.type = "blank")
      BY DEF EmitCells, Blank
  <2>8. \A c \in written : \E k \in Data(part) : c = MapCell(part.cells[k])
      BY DEF Nonblank, CellsIn
  <2>9. \A c \in written : c.row \in RowsOf(part)
      BY <2>8, MapCellPlace DEF RowsOf
  <2>10. bounds.firstRow \in RowsOf(part)
      BY <2>5 DEF RowsOf
  <2> HIDE DEF written
  <2> QED
      BY <2>6, <2>7, <2>8, <2>9, <2>10 DEF Nonblank
<1> QED
    BY <1>1, <1>2

(* Bounds that are not narrowed are refused for a limit only, when the     *)
(* header row is one of the sheet.                                         *)
LEMMA ResolveLimit ==
    ASSUME NEW part \in Part, NEW chosen \in ParseOptions
    PROVE  /\ Public(ResolveError(part, chosen))
           /\ \/ Data(part) = {} \/ chosen.firstColumn # Unset \/ chosen.lastColumn # Unset
              \/ chosen.header \notin {Unset} \cup RowsOf(part)
              \/ ResolveError(part, chosen) = Accepted \/ Limit(ResolveError(part, chosen))
<1> DEFINE header == HeaderOf(part, chosen)
           bounds == ResolveBounds(part, chosen)
           content == ContentBounds(part, header)
           found == \E r \in RowsOf(part) : r >= header
           ordered == bounds.firstColumn <= bounds.lastColumn
           checks == <<Unless(found, "INVALID_FILE", "xlsx.header-row-beyond-content"),
                       Unless(ordered, "INVALID_FILE", "xlsx.column-range-invalid"),
                       Unless(Rows(bounds) <= RowsIncludingHeader,
                              "LIMIT_EXCEEDED", "rows-including-header"),
                       Unless(Columns(bounds) <= MaxColumns, "LIMIT_EXCEEDED", "columns")>>
           asPreviewed == /\ chosen.firstColumn = Unset /\ chosen.lastColumn = Unset
                          /\ chosen.header \in {Unset} \cup RowsOf(part)
<1>1. CASE Data(part) = {}
    BY <1>1 DEF ResolveError, Public, Error
<1>2. CASE Data(part) # {}
  <2>1. ResolveError(part, chosen) = FirstOf(checks)
      BY <1>2 DEF ResolveError
  <2>2. asPreviewed => found /\ ordered
    <3> SUFFICES ASSUME asPreviewed PROVE found /\ ordered
        OBVIOUS
    <3>1. header \in RowsOf(part)
        BY <1>2, ModalRowFound DEF HeaderOf
    <3>2. RowsOf(part) \subseteq Nat
        BY CellOfPart DEF RowsOf, Data
    <3>3. found
        BY <3>1, <3>2
    <3> DEFINE S == {j \in Data(part) : part.cells[j].row >= header}
    <3>4. S # {} /\ S \in SUBSET DOMAIN part.cells
      <4>1. PICK i \in Data(part) : part.cells[i].row = header
          BY <3>1 DEF RowsOf
      <4>2. header >= header
          BY <3>1, <3>2
      <4> QED
          BY <4>1, <4>2 DEF Data
    <3>5. content = BoundsOf({part.cells[i] : i \in S})
        BY DEF ContentBounds
    <3>6. bounds = [content EXCEPT !.firstRow = header]
      <4>1. bounds = [content EXCEPT !.firstRow = header, !.firstColumn = @, !.lastColumn = @]
          BY DEF ResolveBounds
      <4> HIDE DEF bounds, content
      <4> QED
          BY <4>1
    <3> HIDE DEF S, content, bounds
    <3>7. content \in Bounds /\ content.firstColumn <= content.lastColumn
        BY <3>4, <3>5, BoundsHold
    <3>8. bounds.firstColumn = content.firstColumn /\ bounds.lastColumn = content.lastColumn
        BY <3>6, <3>7 DEF Bounds
    <3> QED
        BY <3>3, <3>7, <3>8
  <2> HIDE DEF found, ordered, bounds
  <2>3. DOMAIN checks = 1..4
      OBVIOUS
  <2>4. /\ Public(checks[1]) /\ Public(checks[2])
        /\ checks[3] = Accepted \/ Limit(checks[3])
        /\ checks[4] = Accepted \/ Limit(checks[4])
      BY DEF Public, Limit, Unless, Error, Accepted
  <2>5. found /\ ordered => checks[1] = Accepted /\ checks[2] = Accepted
      BY DEF Unless
  <2> HIDE DEF checks
  <2>6. DOMAIN checks \in SUBSET Nat /\ \A i \in DOMAIN checks : Public(checks[i])
      BY <2>3, <2>4, LimitPublic
  <2>7. found /\ ordered => \A i \in DOMAIN checks : checks[i] = Accepted \/ Limit(checks[i])
      BY <2>3, <2>4, <2>5
  <2> QED
      BY <2>1, <2>2, <2>6, <2>7, FirstPublic, FirstLimit
<1> QED
    BY <1>1, <1>2

(* A cell of the sheet from the header row on is a cell of the table.      *)
LEMMA CellKept ==
    ASSUME NEW part \in Part, NEW chosen \in ParseOptions,
           ResolveError(part, chosen) = Accepted,
           chosen.firstColumn = Unset, chosen.lastColumn = Unset,
           NEW i \in Data(part), MapCell(part.cells[i]).type # "blank",
           part.cells[i].row >= ResolveBounds(part, chosen).firstRow
    PROVE  MapCell(part.cells[i]) \in EmitCells(part, ResolveBounds(part, chosen))
<1> DEFINE header == HeaderOf(part, chosen)
           content == ContentBounds(part, header)
           bounds == ResolveBounds(part, chosen)
<1>1. header \in Nat /\ bounds.firstRow = header
    BY Resolved
<1>2. content \in Bounds /\ Within(part.cells[i], content)
    BY <1>1, ContentHolds
<1>3. bounds = [content EXCEPT !.firstRow = header]
  <2>1. bounds = [content EXCEPT !.firstRow = header, !.firstColumn = @, !.lastColumn = @]
      BY DEF ResolveBounds
  <2> HIDE DEF bounds, content
  <2> QED
      BY <2>1
<1> HIDE DEF content, bounds, header
<1>4. /\ bounds.firstRow = header /\ bounds.lastRow = content.lastRow
      /\ bounds.firstColumn = content.firstColumn /\ bounds.lastColumn = content.lastColumn
    BY <1>2, <1>3 DEF Bounds
<1>5. Within(part.cells[i], bounds)
  <2>1. /\ part.cells[i].row \in Nat /\ part.cells[i].row >= header
        /\ content.firstRow \in Nat /\ content.lastRow \in Nat
      BY <1>2, <1>4, CellOfPart DEF Data, Bounds, bounds
  <2>2. part.cells[i].row <= content.lastRow
      BY <1>2, <2>1 DEF Within
  <2>3. part.cells[i].row \in header..content.lastRow
      BY <1>1, <2>1, <2>2
  <2> QED
      BY <1>2, <1>4, <2>3 DEF Within
<1>6. part.cells[i] \in CellsIn(part, bounds)
    BY <1>5 DEF CellsIn
<1> QED
    BY <1>6 DEF EmitCells, Nonblank, bounds

-----------------------------------------------------------------------------
(* What the user was shown                                                 *)

(* An inspection shows the sheet that the options select of the archive,   *)
(* or that none is visible.                                                *)
Shows(archive, chosen, shown) ==
    LET parts == PartsOf(archive)
        sheets == SheetInfos(parts)
        sheet == SelectSheet(sheets, chosen)
    IN /\ MetaError(parts) = Accepted
       /\ shown.sheets = sheets /\ shown.rows = PreviewNumbers(shown.cells)
       /\ \/ SelectError(sheets, chosen).detail = "xlsx.no-visible-sheets" /\ shown.cells = {}
          \/ /\ SelectError(sheets, chosen) = Accepted /\ sheet.target \in DOMAIN parts
             /\ shown.cells = PreviewCells(PartOf(parts, sheet))

ViewInv ==
    /\ options \in ParseOptions /\ operation \in {"inspect", "parse"}
    /\ operation = "parse" =>
          source.magic = "zip" /\ options.header \in {Unset} \cup inspection.rows
    /\ source.magic = "zip" /\ (operation = "parse" \/ step = "done") =>
          Read(source.archive) /\ Shows(source.archive, options, inspection)
    /\ table # None => operation = "parse" /\ step = "done"

(* The inductive invariant.                                                *)
Inv == StreamInv /\ ViewInv /\ TableSound /\ PreviewHolds

(* A selection does not depend on the rest of the options.                 *)
LEMMA SameSelection ==
    ASSUME NEW chosen \in ParseOptions, NEW other \in ParseOptions,
           other.sheet = chosen.sheet, other.allowHidden = chosen.allowHidden,
           NEW archive, NEW shown, Shows(archive, chosen, shown)
    PROVE  Shows(archive, other, shown)
<1>1. \A sheets : /\ SelectError(sheets, other) = SelectError(sheets, chosen)
                  /\ SelectSheet(sheets, other) = SelectSheet(sheets, chosen)
    BY DEF SelectError, SelectSheet
<1> QED
    BY <1>1 DEF Shows

(* The part of the sheet that is shown.                                    *)
LEMMA PartShown ==
    ASSUME NEW parts, \A path \in DOMAIN parts : parts[path] \in Part, MetaError(parts) = Accepted,
           NEW chosen \in ParseOptions, NEW sheets, sheets = SheetInfos(parts),
           SelectError(sheets, chosen) = Accepted
    PROVE  \E i \in DOMAIN sheets : /\ SelectSheet(sheets, chosen) = sheets[i]
                                    /\ sheets[i].id + 1 = i
                                    /\ Visible(sheets[i]) \/ chosen.allowHidden
<1>1. PICK n \in Nat : /\ DOMAIN SheetInfos(parts) = 1..n
                       /\ \A i \in 1..n : SheetInfos(parts)[i].id = i - 1
    BY SheetsFound
<1> QED
    BY <1>1, SheetSelected

LEMMA RowsShown ==
    ASSUME NEW archive, NEW chosen, NEW shown, Shows(archive, chosen, shown),
           \A path \in DOMAIN PartsOf(archive) : PartsOf(archive)[path] \in Part
    PROVE  /\ shown.rows \subseteq Nat
           /\ \A i \in DOMAIN shown.sheets : shown.sheets[i].id \in Nat
<1> DEFINE parts == PartsOf(archive)
           part == PartOf(parts, SelectSheet(SheetInfos(parts), chosen))
<1>1. PICK n \in Nat : /\ DOMAIN SheetInfos(parts) = 1..n
                       /\ \A i \in 1..n : SheetInfos(parts)[i].id = i - 1
    BY SheetsFound DEF Shows
<1>2. \A i \in DOMAIN shown.sheets : shown.sheets[i].id \in Nat
    BY <1>1 DEF Shows
<1>3. shown.cells = {} \/ (part \in Part /\ shown.cells = PreviewCells(part))
    BY DEF Shows, PartOf
<1>4. \A c \in shown.cells : c.row \in Nat
  <2> SUFFICES ASSUME NEW c \in shown.cells PROVE c.row \in Nat
      OBVIOUS
  <2>1. part \in Part /\ shown.cells = PreviewCells(part)
      BY <1>3
  <2> HIDE DEF part
  <2>2. c.row \in RowsOf(part)
      BY <2>1, PreviewFound
  <2> QED
      BY <2>1, <2>2, CellOfPart DEF RowsOf, Data
<1>5. shown.rows = {c.row : c \in shown.cells}
    BY DEF Shows, PreviewNumbers
<1> QED
    BY <1>2, <1>4, <1>5

(* All of it but the stream, when an operation fails.                      *)
LEMMA FailsSoundly ==
    ASSUME Inv, NEW error, Fail(error), Public(error), step # "done",
           \/ operation = "inspect" \/ Limit(error) \/ inspection.rows = {}
           \/ options.firstColumn # Unset \/ options.lastColumn # Unset
    PROVE  Inv'
<1>1. StreamInv'
    BY StreamFails DEF Inv
<1>2. table = None
    BY DEF Inv, ViewInv
<1>3. /\ step' = "failed" /\ failure' = error
      /\ UNCHANGED <<source, operation, options, inspection, table>>
    BY DEF Fail
<1>4. ViewInv'
    BY <1>2, <1>3 DEF Inv, ViewInv
<1>5. TableSound'
    BY <1>2, <1>3 DEF TableSound, Public
<1>6. PreviewHolds'
    BY <1>2, <1>3 DEF PreviewHolds, Limit, Inv, ViewInv
<1> QED
    BY <1>1, <1>4, <1>5, <1>6 DEF Inv

(* The same when it goes on.                                               *)
LEMMA GoesOn ==
    ASSUME Inv, StreamInv', step # "done", step' # "done", step' # "failed",
           UNCHANGED <<source, operation, options, failure, inspection, table>>
    PROVE  Inv'
<1>1. table = None
    BY DEF Inv, ViewInv
<1>2. ViewInv'
    BY <1>1 DEF Inv, ViewInv
<1>3. TableSound'
    BY <1>1 DEF Inv, TableSound
<1>4. PreviewHolds'
    BY <1>1 DEF PreviewHolds
<1> QED
    BY <1>2, <1>3, <1>4 DEF Inv

-----------------------------------------------------------------------------
(* The steps                                                               *)

LEMMA InitHolds == Init => Inv
<1> SUFFICES ASSUME Init PROVE Inv
    OBVIOUS
<1>1. StreamInv
    BY InitStream
<1>2. options \in ParseOptions
    BY DEF Init, Defaults, Unset, ParseOptions
<1>3. TableSound /\ PreviewHolds
    BY DEF Init, TableSound, PreviewHolds, Accepted, Error
<1> QED
    BY <1>1, <1>2, <1>3 DEF Init, Inv, ViewInv

LEMMA SubmitHolds ==
    ASSUME Inv, Submit
    PROVE  Inv'
<1>1. step = "submitted" /\ source \in Sources /\ operation \in {"inspect", "parse"}
    BY DEF Submit, Inv, StreamInv, ViewInv
<1>2. /\ operation = "parse" => source.magic = "zip"
      /\ source.magic = "zip" =>
            source.bytes > 0 /\ source.archive.directory \in Seq(DirectoryEntry)
    BY <1>1, SourceAssumption DEF Inv, ViewInv, SourceAssumption
<1>3. CASE DetectError # Accepted /\ Fail(DetectError)
  <2>1. Public(DetectError) /\ (operation = "parse" => Limit(DetectError))
      BY <1>2, <1>3, DetectPublic
  <2> QED
      BY <1>1, <1>3, <2>1, FailsSoundly
<1>4. CASE source.magic # "zip" /\ Fail(CsvError)
  <2>1. operation = "inspect"
      BY <1>1, <1>2, <1>4
  <2> QED
      BY <1>1, <1>4, <2>1, CsvPublic, FailsSoundly
<1>5. CASE source.magic # "zip" /\ InspectCsv
  <2>1. StreamInv'
      BY StreamBegins DEF Inv
  <2>2. table = None /\ operation = "inspect"
      BY <1>1, <1>2, <1>5 DEF Inv, ViewInv
  <2>3. /\ step' = "done"
        /\ UNCHANGED <<source, operation, options, failure, table>>
      BY <1>5 DEF InspectCsv
  <2>4. ViewInv'
      BY <1>5, <2>2, <2>3 DEF Inv, ViewInv
  <2>5. TableSound' /\ PreviewHolds'
      BY <2>2, <2>3 DEF Inv, TableSound, PreviewHolds
  <2> QED
      BY <2>1, <2>4, <2>5 DEF Inv
<1>6. CASE /\ source.magic = "zip" /\ ScanCentralDirectory(source.archive) # Accepted
           /\ Fail(ScanCentralDirectory(source.archive))
  <2>1. Public(ScanCentralDirectory(source.archive))
      BY <1>2, <1>6, ScanPublic
  <2>2. operation # "parse"
      BY <1>6 DEF Inv, ViewInv, Read
  <2> QED
      BY <1>1, <1>6, <2>1, <2>2, FailsSoundly
<1>7. CASE /\ step' = "inflating"
           /\ UNCHANGED <<source, operation, options, failure, inspection, table>>
  <2>1. StreamInv'
      BY StreamBegins DEF Inv
  <2> QED
      BY <1>1, <1>7, <2>1, GoesOn
<1>8. \/ DetectError # Accepted /\ Fail(DetectError)
      \/ source.magic # "zip" /\ Fail(CsvError)
      \/ source.magic # "zip" /\ InspectCsv
      \/ /\ source.magic = "zip" /\ ScanCentralDirectory(source.archive) # Accepted
         /\ Fail(ScanCentralDirectory(source.archive))
      \/ /\ step' = "inflating"
         /\ UNCHANGED <<source, operation, options, failure, inspection, table>>
    BY DEF Submit
<1> QED
    BY <1>3, <1>4, <1>5, <1>6, <1>7, <1>8

(* A chunk that was accepted once is refused for a limit only.             *)
LEMMA ChunkHolds ==
    ASSUME Inv, Chunk
    PROVE  Inv'
<1> DEFINE final == chunks + 1 = Len(Local.chunks)
<1>1. /\ step = "inflating" /\ entry <= Len(Entries) /\ StreamInv
      /\ operation \in {"inspect", "parse"} /\ source.magic = "zip"
      /\ entry \in 1..Len(Entries) /\ Local = Entries[entry] /\ Local \in LocalEntry
      /\ Entries \in Seq(LocalEntry)
    BY ChunkFacts DEF Chunk, Entries, Inv, ViewInv
<1>2. ASSUME operation = "parse"
      PROVE  /\ ~Unexpected /\ ~Local.corrupt /\ Declared.size \in {BytesOf(Local), Sentinel}
             /\ ~(~IsDirectory(Local.path) /\ Local.path \in Range(order))
  <2>1. Read(source.archive)
      BY <1>1, <1>2 DEF Inv, ViewInv
  <2>2. entry \in DOMAIN source.archive.locals /\ Local = source.archive.locals[entry]
      BY <1>1 DEF Entries
  <2>3. Expected(source.archive, Local)
      BY <2>1, <2>2 DEF Read
  <2>4. Range(order) = StoredPaths(source.archive, entry - 1)
      BY <1>1 DEF StreamInv
  <2>5. ASSUME Stored(Local.path), Local.path \in Range(order) PROVE FALSE
    <3>1. PICK i \in 1..entry - 1 : source.archive.locals[i].path = Local.path
        BY <2>4, <2>5 DEF StoredPaths
    <3>2. i \in 1..Len(Entries) /\ i # entry
        BY <1>1
    <3> QED
        BY <1>1, <2>1, <2>2, <2>5, <3>1, <3>2 DEF Read, Apart, Entries
  <2> QED
      BY <2>3, <2>5 DEF Expected, RecordOf, Declared, Unexpected, Stored
<1>3. CASE Unexpected /\ Fail(Error("INVALID_FILE", "zip.unexpected-local-entry"))
  <2>1. Public(Error("INVALID_FILE", "zip.unexpected-local-entry")) /\ operation = "inspect"
      BY <1>1, <1>2, <1>3 DEF Public, Error
  <2> QED
      BY <1>1, <1>3, <2>1, FailsSoundly
<1>4. CASE ChunkError # Accepted /\ Fail(ChunkError)
  <2>1. Public(ChunkError) /\ (operation = "inspect" \/ Limit(ChunkError))
      BY <1>1, <1>2, <1>4, ChunkPublic
  <2> QED
      BY <1>1, <1>4, <2>1, FailsSoundly
<1>5. CASE FinalError # Accepted /\ Fail(FinalError)
  <2>1. Public(FinalError) /\ operation = "inspect"
      BY <1>1, <1>2, <1>5, FinalPublic
  <2> QED
      BY <1>1, <1>5, <2>1, FailsSoundly
<1>6. CASE UNCHANGED <<source, operation, options, step, failure, inspection, table>>
  <2>1. StreamInv'
      BY <1>1, StreamGrows
  <2> QED
      BY <1>1, <1>6, <2>1, GoesOn
<1>7. \/ Unexpected /\ Fail(Error("INVALID_FILE", "zip.unexpected-local-entry"))
      \/ ChunkError # Accepted /\ Fail(ChunkError)
      \/ FinalError # Accepted /\ Fail(FinalError)
      \/ UNCHANGED <<source, operation, options, step, failure, inspection, table>>
    BY DEF Chunk
<1> QED
    BY <1>3, <1>4, <1>5, <1>6, <1>7

LEMMA RepackHolds ==
    ASSUME Inv, Repack
    PROVE  Inv'
<1>1. /\ step = "inflating" /\ entry > Len(Entries) /\ StreamInv
      /\ operation \in {"inspect", "parse"} /\ source.magic = "zip"
    BY DEF Repack, Entries, Inv, ViewInv, StreamInv
<1>2. CASE /\ Cardinality(Range(order)) # Cardinality(Files(source.archive))
           /\ Fail(Error("INVALID_FILE", "zip.truncated-archive"))
  <2>1. operation # "parse"
    <3> SUFFICES ASSUME operation = "parse" PROVE FALSE
        OBVIOUS
    <3>1. Read(source.archive)
        BY <1>1 DEF Inv, ViewInv
    <3>2. /\ Entries \in Seq(LocalEntry) /\ entry \in Nat
          /\ entry <= Len(Entries) + 1
          /\ Range(order) = StoredPaths(source.archive, entry - 1)
        BY <1>1 DEF StreamInv
    <3>3. entry - 1 = Len(Entries)
        BY <1>1, <3>2
    <3> QED
        BY <1>2, <3>1, <3>2, <3>3 DEF Read, Entries
  <2>2. Public(Error("INVALID_FILE", "zip.truncated-archive"))
      BY DEF Public, Error
  <2> QED
      BY <1>1, <1>2, <2>1, <2>2, FailsSoundly
<1>3. CASE /\ step' = "preflighted"
           /\ UNCHANGED <<source, operation, options, failure, inspection, table>>
  <2>1. StreamInv'
      BY <1>1, StreamRead
  <2> QED
      BY <1>1, <1>3, <2>1, GoesOn
<1> QED
    BY <1>2, <1>3 DEF Repack

LEMMA InspectHolds ==
    ASSUME Inv, InspectXlsx
    PROVE  Inv'
<1> DEFINE sheets == SheetInfos(Parts)
           selected == SelectError(sheets, options)
           unseen == selected.detail = "xlsx.no-visible-sheets"
           sheet == SelectSheet(sheets, options)
           part == PartOf(Parts, sheet)
           cells == IF unseen THEN {} ELSE PreviewCells(part)
           rows == PreviewNumbers(cells)
           found == [sheets |-> sheets, sheet |-> IF unseen THEN -1 ELSE sheet.id,
                     cells |-> cells, rows |-> rows,
                     suggested |-> SuggestHeaderRow(cells, rows),
                     warnings |-> BookWarnings(Parts, sheets)]
<1>1. /\ step = "preflighted" /\ operation = "inspect" /\ source.magic = "zip"
      /\ StreamInv /\ table = None
    BY DEF InspectXlsx, Inv, StreamInv, ViewInv
<1>2. \/ Fail(MetaError(Parts)) \/ Fail(selected)
      \/ Fail(Error("INVALID_FILE", "xlsx.sheet-part-missing"))
      \/ PreviewError(part) # Accepted /\ Fail(PreviewError(part))
      \/ /\ MetaError(Parts) = Accepted
         /\ \/ unseen
            \/ selected = Accepted /\ sheet.target \in DOMAIN Parts
         /\ inspection' = found /\ step' = "done"
         /\ UNCHANGED <<source, operation, options, failure, entry, chunks, expanded, order, table>>
    BY DEF InspectXlsx, streamed
<1>3. CASE Fail(MetaError(Parts))
    BY <1>1, <1>3, MetaPublic, FailsSoundly
<1>4. CASE Fail(selected)
    BY <1>1, <1>4, SelectPublic, FailsSoundly
<1>5. CASE Fail(Error("INVALID_FILE", "xlsx.sheet-part-missing"))
  <2>1. Public(Error("INVALID_FILE", "xlsx.sheet-part-missing"))
      BY DEF Public, Error
  <2> QED
      BY <1>1, <1>5, <2>1, FailsSoundly
<1>6. CASE PreviewError(part) # Accepted /\ Fail(PreviewError(part))
  <2>1. PreviewError(part) = EmitError(part, PreviewBounds(part))
      BY <1>6 DEF PreviewError
  <2>2. Public(PreviewError(part))
      BY <1>6, <2>1, EmitLimit, LimitPublic
  <2> QED
      BY <1>1, <1>6, <2>2, FailsSoundly
<1>7. CASE /\ MetaError(Parts) = Accepted
           /\ \/ unseen
              \/ selected = Accepted /\ sheet.target \in DOMAIN Parts
           /\ inspection' = found /\ step' = "done"
           /\ UNCHANGED <<source, operation, options, failure, entry, chunks, expanded, order, table>>
  <2>1. Read(source.archive) /\ Parts = PartsOf(source.archive)
      BY <1>1, ReadWhole, PartsFound
  <2>2. Shows(source.archive, options, found)
    <3>1. found.sheets = sheets /\ found.cells = cells /\ found.rows = PreviewNumbers(found.cells)
        OBVIOUS
    <3>2. CASE unseen
        BY <1>7, <2>1, <3>1, <3>2 DEF Shows
    <3>3. CASE ~unseen
        BY <1>7, <2>1, <3>1, <3>3 DEF Shows
    <3> QED
        BY <3>2, <3>3
  <2>3. StreamInv'
      BY <1>1, <1>7, StreamEnds
  <2> HIDE DEF found
  <2>4. ViewInv'
      BY <1>1, <1>7, <2>1, <2>2 DEF Inv, ViewInv
  <2>5. TableSound' /\ PreviewHolds'
      BY <1>1, <1>7 DEF Inv, TableSound, PreviewHolds
  <2> QED
      BY <2>3, <2>4, <2>5 DEF Inv
<1> HIDE DEF found, unseen, selected, sheet, part
<1> QED
    BY <1>2, <1>3, <1>4, <1>5, <1>6, <1>7

LEMMA RunHolds ==
    ASSUME Inv, NEW op \in {"inspect", "parse"}, NEW chosen \in ParseOptions, Run(op, chosen),
           step = "done", operation = "inspect", source.magic = "zip",
           UNCHANGED <<inspection, table>>,
           op = "parse" => /\ chosen.sheet = options.sheet /\ chosen.header \in {Unset} \cup inspection.rows
                           /\ chosen.allowHidden = options.allowHidden
    PROVE  Inv'
<1>1. StreamInv'
    BY StreamAgain DEF Inv
<1>2. /\ operation' = op /\ options' = chosen /\ step' = "submitted"
      /\ UNCHANGED <<source, failure, inspection, table>>
    BY DEF Run
<1>3. table = None /\ options \in ParseOptions
    BY DEF Inv, ViewInv
<1>4. Read(source.archive) /\ Shows(source.archive, options, inspection)
    BY DEF Inv, ViewInv
<1>5. op = "parse" => Shows(source.archive, chosen, inspection)
    BY <1>3, <1>4, SameSelection
<1>6. ViewInv'
    BY <1>2, <1>3, <1>4, <1>5 DEF ViewInv
<1>7. TableSound' /\ PreviewHolds'
    BY <1>2, <1>3 DEF Inv, TableSound, PreviewHolds
<1> QED
    BY <1>1, <1>6, <1>7 DEF Inv

LEMMA ChooseSheetHolds ==
    ASSUME Inv, ChooseSheet
    PROVE  Inv'
<1> DEFINE chosen(i) == [Defaults EXCEPT !.sheet = inspection.sheets[i].id,
                                         !.allowHidden =
                                            i \in SheetChoices(inspection.sheets).hidden]
<1>1. /\ step = "done" /\ operation = "inspect" /\ source.magic = "zip"
      /\ UNCHANGED <<inspection, table>> /\ StreamInv
    BY DEF ChooseSheet, Inv
<1>2. PICK i \in DOMAIN inspection.sheets : Run("inspect", chosen(i))
    BY DEF ChooseSheet, SheetChoices, VisibleOf
<1>3. inspection.sheets[i].id \in Nat
  <2>1. Shows(source.archive, options, inspection)
      BY <1>1 DEF Inv, ViewInv
  <2>2. \A path \in DOMAIN PartsOf(source.archive) : PartsOf(source.archive)[path] \in Part
      BY <1>1, PartsFound
  <2> QED
      BY <2>1, <2>2, RowsShown
<1>4. chosen(i) \in ParseOptions
  <2>1. ASSUME NEW id \in Int
        PROVE  /\ [Defaults EXCEPT !.sheet = id, !.allowHidden = TRUE] \in ParseOptions
               /\ [Defaults EXCEPT !.sheet = id, !.allowHidden = FALSE] \in ParseOptions
      BY DEF Defaults, ParseOptions, Unset
  <2>2. \/ chosen(i) = [Defaults EXCEPT !.sheet = inspection.sheets[i].id, !.allowHidden = TRUE]
        \/ chosen(i) = [Defaults EXCEPT !.sheet = inspection.sheets[i].id, !.allowHidden = FALSE]
    <3> (i \in SheetChoices(inspection.sheets).hidden) \in BOOLEAN
        OBVIOUS
    <3> QED
        BY Zenon
  <2> HIDE DEF chosen
  <2>3. inspection.sheets[i].id \in Int
      BY <1>3
  <2>4. /\ [Defaults EXCEPT !.sheet = inspection.sheets[i].id, !.allowHidden = TRUE] \in ParseOptions
        /\ [Defaults EXCEPT !.sheet = inspection.sheets[i].id, !.allowHidden = FALSE] \in ParseOptions
      BY <2>1, <2>3, Zenon
  <2> QED
      BY <2>2, <2>4, Zenon
<1> HIDE DEF chosen
<1> QED
    BY <1>1, <1>2, <1>4, RunHolds

LEMMA ProceedHolds ==
    ASSUME Inv, Proceed
    PROVE  Inv'
<1> DEFINE chosen(header, columns) == [options EXCEPT !.header = header, !.firstColumn = columns[1],
                                                      !.lastColumn = columns[2]]
<1>1. /\ step = "done" /\ operation = "inspect" /\ source.magic = "zip"
      /\ UNCHANGED <<inspection, table>> /\ StreamInv /\ options \in ParseOptions
    BY DEF Proceed, Inv, ViewInv
<1>2. PICK header \in {Unset} \cup inspection.rows, columns \in ColumnChoices :
          Run("parse", chosen(header, columns))
    BY DEF Proceed
<1>3. header \in Nat
  <2>1. Shows(source.archive, options, inspection)
      BY <1>1 DEF Inv, ViewInv
  <2>2. \A path \in DOMAIN PartsOf(source.archive) : PartsOf(source.archive)[path] \in Part
      BY <1>1, PartsFound
  <2>3. inspection.rows \subseteq Nat
      BY <2>1, <2>2, RowsShown
  <2> QED
      BY <2>3 DEF Unset
<1>4. columns[1] \in Nat /\ columns[2] \in Nat
    BY IngestAssumption DEF IngestAssumption
<1>5. /\ chosen(header, columns) \in ParseOptions
      /\ chosen(header, columns).sheet = options.sheet
      /\ chosen(header, columns).header = header
      /\ chosen(header, columns).allowHidden = options.allowHidden
    BY <1>1, <1>3, <1>4 DEF ParseOptions
<1> HIDE DEF chosen
<1> QED
    BY <1>1, <1>2, <1>5, RunHolds

(* The table of an accepted range keeps its contract.                      *)
LEMMA TableOfPart ==
    ASSUME NEW part \in Part, OneAtAPlace(part), NEW chosen \in ParseOptions,
           ResolveError(part, chosen) = Accepted,
           NEW bounds, bounds = ResolveBounds(part, chosen), EmitError(part, bounds) = Accepted,
           NEW cells, cells = WithFormulas(EmitCells(part, bounds), FormulaOnly(part, bounds))
    PROVE  /\ \A c, d \in cells : SamePlace(c, d) => c = d
           /\ Cardinality({<<c.row, c.column>> : c \in cells}) = Cardinality(cells)
           /\ \A c \in cells : Within(c, bounds)
           /\ {bounds.firstRow} \X (bounds.firstColumn..bounds.lastColumn)
                  \subseteq {<<c.row, c.column>> : c \in cells}
           /\ Cardinality(Nonblank(cells)) <= NonemptyCells
           /\ (\E c \in cells : c.type = "formula") => "formula-cells" \in Disclosures(part, bounds)
<1>1. /\ bounds \in Bounds
      /\ bounds.firstRow <= bounds.lastRow /\ bounds.firstColumn <= bounds.lastColumn
    BY Resolved
<1>2. Rows(bounds) * Columns(bounds) <= NonemptyCells
    BY EmitLimit
<1>3. /\ \A c, d \in cells : SamePlace(c, d) => c = d
      /\ \A c \in cells :
            Within(c, bounds) /\ (c.type = "formula" =>
                                    "formula-cells" \in Disclosures(part, bounds))
      /\ \A column \in bounds.firstColumn..bounds.lastColumn :
            \E c \in cells : c.row = bounds.firstRow /\ c.column = column
    BY <1>1, EmittedWithFormulas
<1>4. /\ Cardinality({<<c.row, c.column>> : c \in cells}) = Cardinality(cells)
      /\ Cardinality(Nonblank(cells)) <= NonemptyCells
    BY <1>1, <1>2, <1>3, PlacesCounted
<1>5. {bounds.firstRow} \X (bounds.firstColumn..bounds.lastColumn)
          \subseteq {<<c.row, c.column>> : c \in cells}
    BY <1>3
<1> QED
    BY <1>3, <1>4, <1>5

(* What was shown of it from its first row on is in the table.             *)
LEMMA PreviewInTable ==
    ASSUME NEW part \in Part, NEW chosen \in ParseOptions,
           ResolveError(part, chosen) = Accepted,
           chosen.firstColumn = Unset, chosen.lastColumn = Unset,
           NEW bounds, bounds = ResolveBounds(part, chosen),
           NEW c \in Nonblank(PreviewCells(part)), c.row >= bounds.firstRow
    PROVE  c \in WithFormulas(EmitCells(part, bounds), FormulaOnly(part, bounds))
<1>1. PICK i \in Data(part) : c = MapCell(part.cells[i])
    BY PreviewFound
<1>2. part.cells[i].row = c.row /\ c.type # "blank"
    BY <1>1 DEF MapCell, Nonblank
<1>3. c \in EmitCells(part, bounds)
    BY <1>1, <1>2, CellKept
<1> QED
    BY <1>3 DEF WithFormulas

LEMMA ParseHolds ==
    ASSUME Inv, ParseXlsx
    PROVE  Inv'
<1> DEFINE sheets == SheetInfos(Parts)
           sheet == SelectSheet(sheets, options)
           part == PartOf(Parts, sheet)
           bounds == ResolveBounds(part, options)
           cells == WithFormulas(EmitCells(part, bounds), FormulaOnly(part, bounds))
           shared == \E c, d \in cells : c # d /\ c.row = d.row /\ c.column = d.column
           warnings == BookWarnings(Parts, sheets) \cup Disclosures(part, bounds)
                          \cup (IF Visible(sheet) THEN {} ELSE {"hidden-selected"})
           found == [sheet |-> sheet.id, range |-> bounds, cells |-> cells, warnings |-> warnings]
           shown == SelectError(sheets, options) = Accepted /\ sheet.target \in DOMAIN Parts
           asPreviewed == options.firstColumn = Unset /\ options.lastColumn = Unset
<1>1. /\ step = "preflighted" /\ operation = "parse" /\ source.magic = "zip"
      /\ StreamInv /\ table = None /\ options \in ParseOptions /\ failure.code # "INTERNAL"
      /\ options.header \in {Unset} \cup inspection.rows
    BY DEF ParseXlsx, Inv, StreamInv, ViewInv, TableSound
<1>2. /\ Parts = PartsOf(source.archive)
      /\ \A path \in DOMAIN Parts : Parts[path] \in Part /\ OneAtAPlace(Parts[path])
    BY <1>1, PartsFound
<1>3. Read(source.archive) /\ Shows(source.archive, options, inspection)
    BY <1>1 DEF Inv, ViewInv
<1>4. /\ MetaError(Parts) = Accepted
      /\ inspection.sheets = sheets /\ inspection.rows = PreviewNumbers(inspection.cells)
      /\ inspection.cells = {} \/ (shown /\ inspection.cells = PreviewCells(part))
    BY <1>2, <1>3 DEF Shows
<1>5. shown => part \in Part /\ OneAtAPlace(part)
    BY <1>2 DEF PartOf
<1>6. \/ SelectError(sheets, options) # Accepted /\ Fail(SelectError(sheets, options))
      \/ ~shown /\ Fail(Error("INVALID_FILE", "xlsx.sheet-part-missing"))
      \/ shown /\ ResolveError(part, options) # Accepted /\ Fail(ResolveError(part, options))
      \/ shown /\ EmitError(part, bounds) # Accepted /\ Fail(EmitError(part, bounds))
      \/ /\ shown /\ ResolveError(part, options) = Accepted
         /\ EmitError(part, bounds) = Accepted /\ shared
      \/ /\ shown /\ ResolveError(part, options) = Accepted
         /\ EmitError(part, bounds) = Accepted
         /\ table' = found /\ step' = "done"
         /\ UNCHANGED <<source, operation, options, failure, entry, chunks, expanded, order,
                        inspection>>
    BY <1>4 DEF ParseXlsx, streamed
<1> HIDE DEF shown, found, warnings, part, sheet, sheets
<1>7. inspection.cells = {} => inspection.rows = {}
    BY <1>4 DEF PreviewNumbers
<1>8. CASE SelectError(sheets, options) # Accepted /\ Fail(SelectError(sheets, options))
  <2>1. inspection.rows = {}
      BY <1>4, <1>7, <1>8 DEF shown
  <2> QED
      BY <1>1, <1>8, <2>1, SelectPublic, FailsSoundly
<1>9. CASE ~shown /\ Fail(Error("INVALID_FILE", "xlsx.sheet-part-missing"))
  <2>1. Public(Error("INVALID_FILE", "xlsx.sheet-part-missing"))
      BY DEF Public, Error
  <2> QED
      BY <1>1, <1>4, <1>7, <1>9, <2>1, FailsSoundly
<1>10. CASE shown /\ ResolveError(part, options) # Accepted /\ Fail(ResolveError(part, options))
  <2>1. inspection.rows # {} => Data(part) # {} /\ inspection.rows \subseteq RowsOf(part)
    <3> SUFFICES ASSUME inspection.rows # {}
                 PROVE  Data(part) # {} /\ inspection.rows \subseteq RowsOf(part)
        OBVIOUS
    <3>1. inspection.cells = PreviewCells(part) /\ inspection.cells # {}
        BY <1>4, <1>7
    <3>2. Data(part) # {}
        BY <3>1 DEF PreviewCells
    <3>3. inspection.rows \subseteq RowsOf(part)
        BY <1>4, <1>5, <1>10, <3>1, PreviewFound DEF PreviewNumbers
    <3> QED
        BY <3>2, <3>3
  <2>2. /\ Public(ResolveError(part, options))
        /\ inspection.rows = {} \/ ~asPreviewed \/ Limit(ResolveError(part, options))
      BY <1>1, <1>5, <1>10, <2>1, ResolveLimit
  <2> QED
      BY <1>1, <1>10, <2>2, FailsSoundly
<1>11. CASE shown /\ EmitError(part, bounds) # Accepted /\ Fail(EmitError(part, bounds))
  <2>1. Limit(EmitError(part, bounds))
      BY <1>11, EmitLimit
  <2> QED
      BY <1>1, <1>11, <2>1, LimitPublic, FailsSoundly
<1>12. CASE /\ shown /\ ResolveError(part, options) = Accepted
            /\ EmitError(part, bounds) = Accepted
  <2>1. /\ \A c, d \in cells : SamePlace(c, d) => c = d
        /\ Cardinality({<<c.row, c.column>> : c \in cells}) = Cardinality(cells)
        /\ \A c \in cells : Within(c, bounds)
        /\ {bounds.firstRow} \X (bounds.firstColumn..bounds.lastColumn)
               \subseteq {<<c.row, c.column>> : c \in cells}
        /\ Cardinality(Nonblank(cells)) <= NonemptyCells
        /\ (\E c \in cells : c.type = "formula") => "formula-cells" \in Disclosures(part, bounds)
      BY <1>1, <1>5, <1>12, TableOfPart
  <2>2. ~shared
      BY <2>1 DEF SamePlace
  <2> HIDE DEF shared
  <2>3. /\ table' = found /\ step' = "done"
        /\ UNCHANGED <<source, operation, options, failure, entry, chunks, expanded, order,
                       inspection>>
      BY <1>6, <1>12, <2>2 DEF shown
  <2>4. StreamInv'
      BY <1>1, <2>3, StreamEnds
  <2>5. ViewInv'
      BY <1>1, <1>3, <2>3 DEF ViewInv
  <2>6. table'.range = bounds /\ table'.cells = cells /\ table'.warnings = warnings
        /\ table'.sheet = sheet.id
      BY <2>3 DEF found
  <2>7. TableSound'
    <3> HIDE DEF bounds, cells
    <3>1. "formula-cells" \in Disclosures(part, bounds) => "formula-cells" \in warnings
        BY DEF warnings
    <3> QED
        BY <1>1, <2>1, <2>3, <2>6, <3>1 DEF TableSound
  <2>8. options.header # Unset => bounds.firstRow = options.header
    <3>1. bounds.firstRow = HeaderOf(part, options)
        BY <1>1, <1>5, <1>12, Resolved
    <3> QED
        BY <3>1 DEF HeaderOf
  <2>9. ASSUME asPreviewed, NEW c \in Nonblank(inspection.cells), c.row >= bounds.firstRow
        PROVE  c \in cells
    <3>1. c \in Nonblank(PreviewCells(part))
        BY <1>4, <2>9 DEF Nonblank
    <3> QED
        BY <1>1, <1>5, <1>12, <2>9, <3>1, PreviewInTable
  <2>10. inspection.sheets[sheet.id + 1] = sheet /\ (Visible(sheet) \/ options.allowHidden)
    <3>1. PICK i \in DOMAIN sheets : /\ sheet = sheets[i] /\ sheets[i].id + 1 = i
                                     /\ Visible(sheets[i]) \/ options.allowHidden
        BY <1>1, <1>2, <1>4, <1>12, PartShown DEF shown, sheet, sheets
    <3> QED
        BY <1>4, <3>1
  <2>11. ~Visible(sheet) => "hidden-selected" \in warnings
      BY DEF warnings
  <2>12. PreviewHolds'
    <3> HIDE DEF bounds, cells
    <3> QED
        BY <2>3, <2>6, <2>8, <2>9, <2>10, <2>11 DEF PreviewHolds
  <2> QED
      BY <2>4, <2>5, <2>7, <2>12 DEF Inv
<1> QED
    BY <1>6, <1>8, <1>9, <1>10, <1>11, <1>12

LEMMA Invariance == Spec => []Inv
<1>1. ASSUME Inv, [Next]_vars PROVE Inv'
  <2>1. CASE Submit
      BY <1>1, <2>1, SubmitHolds
  <2>2. CASE Chunk
      BY <1>1, <2>2, ChunkHolds
  <2>3. CASE Repack
      BY <1>1, <2>3, RepackHolds
  <2>4. CASE InspectXlsx
      BY <1>1, <2>4, InspectHolds
  <2>5. CASE ParseXlsx
      BY <1>1, <2>5, ParseHolds
  <2>6. CASE ChooseSheet
      BY <1>1, <2>6, ChooseSheetHolds
  <2>7. CASE Proceed
      BY <1>1, <2>7, ProceedHolds
  <2>8. CASE UNCHANGED vars
    <3>1. StreamInv'
        BY <1>1, <2>8, StreamEnds DEF Inv, vars
    <3>2. ViewInv'
        BY <1>1, <2>8 DEF Inv, ViewInv, vars
    <3>3. TableSound' /\ PreviewHolds'
        BY <1>1, <2>8 DEF Inv, TableSound, PreviewHolds, vars
    <3> QED
        BY <3>1, <3>2, <3>3 DEF Inv
  <2> QED
      BY <1>1, <2>1, <2>2, <2>3, <2>4, <2>5, <2>6, <2>7, <2>8 DEF Next
<1> QED
    BY InitHolds, <1>1, PTL DEF Spec

(* Of every workbook and every choice a table keeps its contract: a place  *)
(* holds one cell of the range, the header row is whole, the cells of both *)
(* kinds are within the limit, formulas are disclosed.                     *)
(* (parseXlsx, emitCells, scanSheetXml, checkRawTable)                     *)
THEOREM SoundTable == Spec => []TableSound
<1>1. Inv => TableSound
    BY DEF Inv
<1> QED
    BY Invariance, <1>1, PTL

(* Of every workbook, what the user saw is what is parsed: a header row    *)
(* that was listed is refused for a limit only, its table begins there     *)
(* with every cell that was shown, and a hidden sheet is read only after   *)
(* the opt-in.                                                             *)
(* (inspectSource, parseSource, ConfigurePanel)                            *)
THEOREM PreviewKept == Spec => []PreviewHolds
<1>1. Inv => PreviewHolds
    BY DEF Inv
<1> QED
    BY Invariance, <1>1, PTL
=============================================================================
