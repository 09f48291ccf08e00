--------------------------- MODULE CsvTableProofs ---------------------------
(***************************************************************************)
(* What TLAPS proves of CsvTable, for every text, every choice of range    *)
(* and every limit.  RecordInv says what the records read so far are of    *)
(* the text before the cursor: the records that begin there, in order, on  *)
(* lines of their own.  RangeInv says what the cells emitted so far are of *)
(* the records.                                                            *)
(***************************************************************************)
EXTENDS CsvTable, Integers, SequenceTheorems, FiniteSetTheorems, WellFoundedInduction, TLAPS

(* A set of naturals that is not empty has a least element.                *)
LEMMA NatMin ==
    ASSUME NEW S \in SUBSET Nat, S # {}
    PROVE  Min(S) \in S /\ \A x \in S : Min(S) <= x
<1>1. PICK x \in S : \A y \in S : ~(<<y, x>> \in OpToRel(<, Nat))
    BY NatLessThanWellFounded, WFMin
<1>2. \A y \in S : x <= y
  <2> TAKE y \in S
  <2>1. x \in Nat /\ y \in Nat
      OBVIOUS
  <2>2. ~(y < x)
      BY <1>1, <2>1 DEF OpToRel
  <2> QED
      BY <2>1, <2>2
<1> QED
    BY <1>1, <1>2 DEF Min

(* A bounded one has a greatest.                                           *)
LEMMA NatMax ==
    ASSUME NEW S \in SUBSET Nat, S # {}, NEW n \in Nat, \A x \in S : x <= n
    PROVE  Max(S) \in S /\ \A x \in S : x <= Max(S)
<1> DEFINE T == {m \in Nat : \E x \in S : m = n - x}
<1>1. T \in SUBSET Nat /\ T # {}
  <2>1. PICK x \in S : TRUE
      OBVIOUS
  <2>2. n - x \in Nat
      BY <2>1
  <2>3. n - x \in T
      BY <2>1, <2>2
  <2> QED
      BY <2>3
<1>2. PICK x \in S : Min(T) = n - x /\ \A m \in T : Min(T) <= m
  <2>1. Min(T) \in T /\ \A m \in T : Min(T) <= m
      BY <1>1, NatMin
  <2> QED
      BY <2>1
<1>3. \A y \in S : x >= y
  <2> TAKE y \in S
  <2>1. n - y \in T
      OBVIOUS
  <2> QED
      BY <1>2, <2>1
<1> QED
    BY <1>2, <1>3 DEF Max

(* The size of an interval.                                                *)
LEMMA IntervalSize ==
    ASSUME NEW a \in Int, NEW b \in Int, a <= b
    PROVE  IsFiniteSet(a..b) /\ Cardinality(a..b) = b - a + 1
<1>1. ~(a > b)
    OBVIOUS
<1> QED
    BY <1>1, FS_Interval

(* Of what is met most often, the first.                                   *)
LEMMA FirstOfMost ==
    ASSUME NEW S \in SUBSET Nat, S # {}, NEW most \in Nat, NEW met \in [S -> 0..most]
    PROVE  Min({r \in S : \A s \in S : met[r] >= met[s]}) \in S
<1> DEFINE best == {r \in S : \A s \in S : met[r] >= met[s]}
<1>1. best # {}
  <2>1. Range(met) \in SUBSET Nat /\ Range(met) # {} /\ \A m \in Range(met) : m <= most
    <3>1. \A r \in S : met[r] \in Nat /\ met[r] <= most
        OBVIOUS
    <3>2. PICK r \in S : TRUE
        OBVIOUS
    <3> QED
        BY <3>1, <3>2 DEF Range
  <2>2. Max(Range(met)) \in Range(met) /\ \A m \in Range(met) : m <= Max(Range(met))
      BY <2>1, NatMax
  <2>3. PICK r \in S : Max(Range(met)) = met[r]
      BY <2>2 DEF Range
  <2>4. \A s \in S : met[s] \in Range(met)
      BY DEF Range
  <2>5. \A s \in S : met[r] >= met[s]
    <3> TAKE s \in S
    <3>1. met[s] <= met[r] /\ met[s] \in Nat /\ met[r] \in Nat
        BY <2>2, <2>3, <2>4
    <3> QED
        BY <3>1
  <2> QED
      BY <2>5
<1>2. best \in SUBSET Nat /\ best \subseteq S
    OBVIOUS
<1> HIDE DEF best
<1>3. Min(best) \in best
    BY <1>1, <1>2, NatMin
<1> QED
    BY <1>2, <1>3 DEF best

USE CsvAssumption

-----------------------------------------------------------------------------
(* Lines and records of the text                                           *)

Breaks(p) == {i \in 1..p - 1 : text[i] = "newline"}

(* Lines are counted from 1.                                               *)
LEMMA LineType ==
    ASSUME NEW p \in Int
    PROVE  Line(p) \in Nat \ {0} /\ IsFiniteSet(Breaks(p)) /\ Line(p) = Cardinality(Breaks(p)) + 1
<1>1. IsFiniteSet(1..p - 1) /\ Breaks(p) \in SUBSET (1..p - 1)
  <2>1. p - 1 \in Int /\ 1 \in Int
      OBVIOUS
  <2>2. IsFiniteSet(1..p - 1)
      BY <2>1, FS_Interval
  <2> QED
      BY <2>2 DEF Breaks
<1>2. IsFiniteSet(Breaks(p)) /\ Cardinality(Breaks(p)) \in Nat
    BY <1>1, FS_Subset, FS_CardinalityType
<1> QED
    BY <1>2 DEF Line, Breaks

(* A later position is on the same line or on a later one, and past a line *)
(* break it is on a later one.                                             *)
LEMMA LineOrder ==
    ASSUME NEW p \in Int, NEW q \in Int, p <= q
    PROVE  /\ Line(p) <= Line(q)
           /\ p >= 1 /\ p < q /\ text[p] = "newline" => Line(p) < Line(q)
<1>1. Breaks(p) \subseteq Breaks(q)
    BY DEF Breaks
<1>2. Cardinality(Breaks(p)) <= Cardinality(Breaks(q))
    BY <1>1, LineType, FS_Subset
<1>3. ASSUME p >= 1, p < q, text[p] = "newline"
      PROVE  Cardinality(Breaks(p)) < Cardinality(Breaks(q))
  <2>1. p \in Breaks(q) /\ p \notin Breaks(p)
      BY <1>3 DEF Breaks
  <2>2. Cardinality(Breaks(p)) # Cardinality(Breaks(q))
      BY <1>1, <2>1, LineType, FS_Subset
  <2>3. Cardinality(Breaks(p)) \in Nat /\ Cardinality(Breaks(q)) \in Nat
      BY LineType, FS_CardinalityType
  <2> QED
      BY <1>2, <2>2, <2>3
<1>4. Cardinality(Breaks(p)) \in Nat /\ Cardinality(Breaks(q)) \in Nat
    BY LineType, FS_CardinalityType
<1> QED
    BY <1>2, <1>3, <1>4, LineType

TextInv == text \in Seq(Char)

LEMMA TextFacts ==
    ASSUME TextInv
    PROVE  Len(text) \in Nat /\ DOMAIN text = 1..Len(text)
BY LenProperties DEF TextInv

(* A record ends at the first line break from it on, or with the text.     *)
LEMMA EndOf ==
    ASSUME TextInv, NEW p \in DOMAIN text
    PROVE  /\ End(p) \in DOMAIN text /\ p <= End(p)
           /\ End(p) = Len(text) \/ End(p) \in Terminators
           /\ \A t \in Terminators : t >= p => End(p) <= t
<1> DEFINE S == {e \in Terminators : e >= p} \cup {Len(text)}
<1>1. /\ Len(text) \in Nat /\ DOMAIN text = 1..Len(text) /\ p \in 1..Len(text)
      /\ Terminators \subseteq 1..Len(text)
    BY TextFacts DEF Terminators
<1>2. S \in SUBSET Nat /\ S # {}
  <2>1. Terminators \subseteq Nat /\ Len(text) \in S
      BY <1>1
  <2> QED
      BY <1>1, <2>1
<1>3. Min(S) \in S /\ \A x \in S : Min(S) <= x
    BY <1>2, NatMin
<1>4. End(p) = Min(S)
    BY DEF End
<1>5. \A t \in Terminators : t >= p => t \in S
    OBVIOUS
<1>6. \A x \in S : \/ x = Len(text)
                   \/ x \in Terminators /\ x >= p
    OBVIOUS
<1> HIDE DEF S
<1> QED
  <2>1. \/ End(p) = Len(text)
        \/ End(p) \in Terminators /\ End(p) >= p
      BY <1>3, <1>4, <1>6
  <2>2. ASSUME End(p) = Len(text) PROVE End(p) \in 1..Len(text) /\ p <= End(p)
      BY <1>1, <2>2
  <2>3. ASSUME End(p) \in Terminators, End(p) >= p
        PROVE  End(p) \in 1..Len(text) /\ p <= End(p)
    <3>1. End(p) \in 1..Len(text)
        BY <1>1, <2>3
    <3> QED
        BY <1>1, <2>3, <3>1
  <2>4. End(p) \in 1..Len(text) /\ p <= End(p)
      BY <1>1, <2>1, <2>2, <2>3
  <2>5. \A t \in Terminators : t >= p => End(p) <= t
      BY <1>3, <1>4, <1>5
  <2> QED
      BY <1>1, <2>1, <2>4, <2>5

(* A record that begins after another has ended is past a line break.      *)
LEMMA BreakBetween ==
    ASSUME TextInv, NEW p \in DOMAIN text, NEW q \in DOMAIN text, End(p) < q
    PROVE  text[End(p)] = "newline"
<1>1. End(p) # Len(text)
    BY EndOf, TextFacts
<1> QED
    BY <1>1, EndOf DEF Terminators

(* The start of the record read is sought, and found, between the cursor   *)
(* and the end of the record.                                              *)
LEMMA StartFound ==
    ASSUME TextInv, prevCursor \in 0..Len(text), NEW p \in Pending(prevCursor)
    PROVE  /\ p \in DOMAIN text /\ p > prevCursor
           /\ StartOf(End(p)) \in prevCursor + 1..End(p)
<1>1. /\ p \in DOMAIN text /\ p > prevCursor /\ ~BlankRecord(p)
      /\ Len(text) \in Nat /\ DOMAIN text = 1..Len(text)
    BY TextFacts DEF Pending, Begins
<1>2. End(p) \in 1..Len(text) /\ p <= End(p)
    BY <1>1, EndOf
<1> DEFINE S == {i \in prevCursor + 1..End(p) : text[i] \notin Gap}
<1>3. PICK i \in p..End(p) : text[i] = "text"
    BY <1>1 DEF BlankRecord
<1>4. "text" \notin Gap
    BY DEF Gap
<1>5. i \in S
    BY <1>1, <1>2, <1>3, <1>4
<1>6. S \in SUBSET Nat /\ S # {}
    BY <1>1, <1>2, <1>5
<1>7. StartOf(End(p)) \in S
    BY <1>6, NatMin DEF StartOf
<1> QED
    BY <1>1, <1>7

(* A record has at least one field, and no more than it has room for.      *)
LEMMA FieldsType ==
    ASSUME TextInv, NEW p \in DOMAIN text
    PROVE  Fields(p) \in Seq(Nat) /\ Len(Fields(p)) \in 1..Len(text) + 1
<1> DEFINE close == IF End(p) \in Terminators THEN End(p) - 1 ELSE End(p)
           body == p..close
           cuts == Delimiters \cap body
           n == Cardinality(cuts) + 1
           Number(i) == Cardinality(Delimiters \cap p..i) + 1
           Part(k) == {i \in body \ Delimiters : Number(i) = k /\ text[i] # "quote"}
<1>1. /\ Len(text) \in Nat /\ DOMAIN text = 1..Len(text) /\ p \in 1..Len(text)
      /\ End(p) \in 1..Len(text) /\ close \in Int /\ close <= Len(text)
    BY TextFacts, EndOf
<1>2. IsFiniteSet(body)
  <2> HIDE DEF close
  <2> QED
      BY <1>1, FS_Interval
<1>3. n \in 1..Len(text) + 1
  <2>1. /\ IsFiniteSet(1..Len(text)) /\ Cardinality(1..Len(text)) = Len(text)
        /\ cuts \in SUBSET (1..Len(text))
    <3>1. cuts \in SUBSET (1..Len(text))
        BY <1>1 DEF Delimiters
    <3>2. 1 \in Int /\ Len(text) \in Int
        BY <1>1
    <3>3. /\ IsFiniteSet(1..Len(text))
          /\ Cardinality(1..Len(text)) = IF 1 > Len(text) THEN 0 ELSE Len(text) - 1 + 1
        BY <3>2, FS_Interval
    <3> QED
        BY <1>1, <3>1, <3>3
  <2>2. Cardinality(cuts) \in Nat /\ Cardinality(cuts) <= Len(text)
      BY <2>1, FS_Subset, FS_CardinalityType
  <2> QED
      BY <1>1, <2>2
<1>4. \A k : Cardinality(Part(k)) \in Nat
  <2> TAKE k
  <2>1. Part(k) \in SUBSET body
      OBVIOUS
  <2> QED
      BY <1>2, <2>1, FS_Subset, FS_CardinalityType
<1>5. Fields(p) = [k \in 1..n |-> Cardinality(Part(k))]
    BY DEF Fields
<1> HIDE DEF n, Part
<1>6. n \in Nat /\ Fields(p) \in [1..n -> Nat]
    BY <1>1, <1>3, <1>4, <1>5
<1>7. Fields(p) \in Seq(Nat) /\ Len(Fields(p)) = n
  <2>1. Fields(p) \in Seq(Nat)
      BY <1>6, SeqDef
  <2> QED
      BY <1>6, <2>1, LenProperties
<1> QED
    BY <1>3, <1>7

-----------------------------------------------------------------------------
(* The records                                                             *)

Record == [fields : Seq(Nat), at : Nat, startLine : Nat \ {0}, endLine : Nat]

(* A record read is one of the text.                                       *)
OfText(r) ==
    /\ r.at \in Begins /\ ~BlankRecord(r.at) /\ r.fields = Fields(r.at)
    /\ r.startLine <= r.endLine /\ r.endLine = Line(End(r.at))

(* The records read are those that begin up to the cursor, in order, each  *)
(* on lines of its own.                                                    *)
RecordInv ==
    /\ TextInv /\ prevCursor \in 0..Len(text)
    /\ records \in Seq(Record)
    /\ \A k \in DOMAIN records : OfText(records[k]) /\ End(records[k].at) <= prevCursor
    /\ \A j, k \in DOMAIN records :
          j < k => /\ records[j].at < records[k].at
                   /\ records[j].endLine < records[k].startLine
    /\ \A p \in Begins : p <= prevCursor /\ ~BlankRecord(p) =>
          \E k \in DOMAIN records : records[k].at = p

LEMMA InitRecords == Init => RecordInv
<1> SUFFICES ASSUME Init PROVE RecordInv
    OBVIOUS
<1>1. TextInv
    BY DEF Init, TextInv
<1>2. records = <<>> /\ records \in Seq(Record) /\ DOMAIN records = {}
    BY EmptySeq DEF Init
<1>3. prevCursor = 0 /\ Len(text) \in Nat /\ Begins \subseteq 1..Len(text)
    BY <1>1, TextFacts DEF Init, Begins
<1>4. ~\E p \in Begins : p <= prevCursor
    BY <1>3
<1>5. prevCursor \in 0..Len(text)
    BY <1>3
<1> QED
    BY <1>1, <1>2, <1>4, <1>5, Zenon DEF RecordInv

(* Steps past the records leave them and the cursor alone.                 *)
LEMMA SameRecords ==
    ASSUME RecordInv, UNCHANGED <<text, prevCursor, records>>
    PROVE  RecordInv'
<1>1. /\ Begins' = Begins /\ Terminators' = Terminators /\ TextInv' = TextInv
      /\ \A p : /\ BlankRecord(p)' = BlankRecord(p) /\ Fields(p)' = Fields(p)
                /\ End(p)' = End(p) /\ Line(p)' = Line(p)
    BY DEF Begins, Terminators, Delimiters, Quoted, BlankRecord, Fields, End, Line, TextInv
<1>2. \A r : OfText(r)' = OfText(r)
    BY <1>1 DEF OfText
<1> QED
    BY <1>1, <1>2 DEF RecordInv

(* The record read begins after the cursor, is the next to do so, and the  *)
(* line it starts on is past those of the records before it.               *)
LEMMA NextRecord ==
    ASSUME RecordInv, Pending(prevCursor) # {}
    PROVE  LET p == Min(Pending(prevCursor))
               r == [fields |-> Fields(p), at |-> p, startLine |-> Line(StartOf(End(p))),
                     endLine |-> EndLine(End(p))]
           IN /\ r \in Record /\ OfText(r) /\ r.at = p
              /\ End(p) \in 0..Len(text) /\ p > prevCursor
              /\ \A k \in DOMAIN records : /\ records[k].at < p
                                           /\ records[k].endLine < r.startLine
              /\ \A b \in Begins : b <= End(p) /\ ~BlankRecord(b) => b <= prevCursor \/ b = p
<1> DEFINE p == Min(Pending(prevCursor))
           start == StartOf(End(p))
           r == [fields |-> Fields(p), at |-> p, startLine |-> Line(start),
                 endLine |-> EndLine(End(p))]
<1>1. /\ TextInv /\ prevCursor \in 0..Len(text) /\ Len(text) \in Nat
      /\ DOMAIN text = 1..Len(text)
    BY TextFacts DEF RecordInv
<1>2. /\ Pending(prevCursor) \in SUBSET (1..Len(text))
      /\ Pending(prevCursor) \in SUBSET Nat
    BY <1>1 DEF Pending, Begins
<1>3. p \in Pending(prevCursor) /\ \A q \in Pending(prevCursor) : p <= q
    BY <1>2, NatMin
<1>4. p \in 1..Len(text) /\ p > prevCursor /\ p \in Begins /\ ~BlankRecord(p)
    BY <1>1, <1>3 DEF Pending, Begins
<1> HIDE DEF p
<1>5. start \in prevCursor + 1..End(p)
    BY <1>1, <1>3, StartFound
<1>6. End(p) \in 1..Len(text) /\ p <= End(p) /\ \A t \in Terminators : t >= p => End(p) <= t
    BY <1>1, <1>4, EndOf
<1> HIDE DEF start
<1>7. start \in Nat \ {0} /\ start > prevCursor /\ start <= End(p)
    BY <1>1, <1>5, <1>6
<1>8. Line(start) <= Line(End(p)) /\ Line(start) \in Nat \ {0} /\ Line(End(p)) \in Nat
    BY <1>6, <1>7, LineOrder, LineType
<1>9. Fields(p) \in Seq(Nat)
    BY <1>1, <1>4, FieldsType
<1>10. r \in Record /\ OfText(r) /\ r.at = p /\ r.startLine = Line(start)
    BY <1>4, <1>8, <1>9 DEF Record, OfText, EndLine
<1>11. ASSUME NEW k \in DOMAIN records
       PROVE  records[k].at < p /\ records[k].endLine < Line(start)
  <2> DEFINE e == End(records[k].at)
  <2>1. /\ records[k].at \in 1..Len(text) /\ e <= prevCursor
        /\ records[k].endLine = Line(e)
      BY <1>1 DEF RecordInv, OfText, Begins
  <2>2. e \in 1..Len(text) /\ records[k].at <= e
      BY <1>1, <2>1, EndOf
  <2> HIDE DEF e
  <2>3. e < p /\ e < start
      BY <1>1, <1>4, <1>7, <2>1, <2>2
  <2>4. text[e] = "newline"
      BY <1>1, <1>4, <2>1, <2>3, BreakBetween DEF e
  <2>5. Line(e) < Line(start)
      BY <1>7, <2>2, <2>3, <2>4, LineOrder
  <2> QED
      BY <1>4, <2>1, <2>2, <2>3, <2>5
<1>12. ASSUME NEW b \in Begins, b <= End(p), ~BlankRecord(b), b > prevCursor
       PROVE  b = p
  <2>1. b \in 1..Len(text) /\ (b = 1 \/ b - 1 \in Terminators)
      BY <1>1, <1>12 DEF Begins
  <2>2. p <= b
      BY <1>3, <1>12 DEF Pending
  <2>3. ASSUME p < b PROVE FALSE
    <3>1. b - 1 \in Terminators /\ b - 1 >= p
        BY <1>4, <2>1, <2>3
    <3> QED
        BY <1>6, <1>12, <2>1, <3>1
  <2> QED
      BY <1>4, <2>1, <2>2, <2>3
<1>13. \A b \in Begins : b <= End(p) /\ ~BlankRecord(b) => b <= prevCursor \/ b = p
  <2>1. \A b \in Begins : b \in Nat
      BY <1>1 DEF Begins
  <2> QED
      BY <1>1, <1>12, <2>1
<1> QED
    BY <1>4, <1>6, <1>10, <1>11, <1>13 DEF p, start

LEMMA ReadRecords ==
    ASSUME RecordInv, ReadRecord
    PROVE  RecordInv'
<1> DEFINE p == Min(Pending(prevCursor))
           r == [fields |-> Fields(p), at |-> p, startLine |-> Line(StartOf(End(p))),
                 endLine |-> EndLine(End(p))]
           n == Len(records)
<1>1. /\ Pending(prevCursor) # {}
      /\ records' = Append(records, r) /\ prevCursor' = End(p) /\ text' = text
    BY DEF ReadRecord
<1>2. /\ r \in Record /\ OfText(r) /\ r.at = p
      /\ End(p) \in 0..Len(text) /\ p > prevCursor
      /\ \A k \in DOMAIN records : /\ records[k].at < p
                                   /\ records[k].endLine < r.startLine
      /\ \A b \in Begins : b <= End(p) /\ ~BlankRecord(b) => b <= prevCursor \/ b = p
    BY <1>1, NextRecord
<1> HIDE DEF r
<1>3. /\ records' \in Seq(Record) /\ n \in Nat
      /\ DOMAIN records = 1..n /\ DOMAIN records' = 1..n + 1
      /\ \A k \in 1..n : records'[k] = records[k]
      /\ records'[n + 1] = r
    BY <1>1, <1>2, AppendProperties, LenProperties DEF RecordInv
<1>4. /\ Begins' = Begins /\ Terminators' = Terminators /\ TextInv' = TextInv
      /\ \A q : /\ BlankRecord(q)' = BlankRecord(q) /\ Fields(q)' = Fields(q)
                /\ End(q)' = End(q) /\ Line(q)' = Line(q)
    BY <1>1
       DEF Begins, Terminators, Delimiters, Quoted, BlankRecord, Fields, End, Line, TextInv
<1>5. \A x : OfText(x)' = OfText(x)
    BY <1>4 DEF OfText
<1>6. p \in Nat /\ prevCursor \in Nat /\ Len(text) \in Nat /\ p <= End(p) /\ prevCursor <= End(p)
  <2>1. p \in DOMAIN text
      BY <1>2 DEF OfText, Begins
  <2> QED
      BY <1>2, <2>1, TextFacts, EndOf DEF RecordInv
<1> HIDE DEF n, p
<1>7. \A k \in 1..n + 1 : (OfText(records[k]) /\ End(records[k].at) <= prevCursor)'
  <2> TAKE k \in 1..n + 1
  <2>1. CASE k = n + 1
      BY <1>1, <1>2, <1>3, <1>4, <1>5, <1>6, <2>1
  <2>2. CASE k \in 1..n
    <3>1. OfText(records[k]) /\ End(records[k].at) <= prevCursor
        BY <1>3, <2>2 DEF RecordInv
    <3>2. End(records[k].at) \in Nat
      <4>1. records[k].at \in DOMAIN text
          BY <3>1 DEF OfText, Begins
      <4> QED
          BY <4>1, EndOf, TextFacts DEF RecordInv
    <3>3. End(records[k].at) <= End(p)
        BY <1>2, <1>6, <3>1, <3>2
    <3> QED
        BY <1>1, <1>3, <1>4, <1>5, <2>2, <3>1, <3>3
  <2> QED
      BY <1>3, <2>1, <2>2
<1>8. \A j, k \in 1..n + 1 :
          j < k => /\ records'[j].at < records'[k].at
                   /\ records'[j].endLine < records'[k].startLine
  <2> SUFFICES ASSUME NEW j \in 1..n + 1, NEW k \in 1..n + 1, j < k
               PROVE  /\ records'[j].at < records'[k].at
                      /\ records'[j].endLine < records'[k].startLine
      OBVIOUS
  <2>1. j \in 1..n /\ records'[j] = records[j]
      BY <1>3
  <2>2. CASE k = n + 1
      BY <1>2, <1>3, <2>1, <2>2
  <2>3. CASE k \in 1..n
      BY <1>3, <2>1, <2>3 DEF RecordInv
  <2> QED
      BY <1>3, <2>2, <2>3
<1>9. ASSUME NEW b \in Begins, b <= prevCursor', ~BlankRecord(b)
      PROVE  \E k \in 1..n + 1 : records'[k].at = b
  <2>1. CASE b = p
    <3>1. n + 1 \in 1..n + 1
        BY <1>3
    <3> QED
        BY <1>2, <1>3, <2>1, <3>1
  <2>2. CASE b <= prevCursor
    <3>1. PICK k \in 1..n : records[k].at = b
        BY <1>3, <1>9, <2>2 DEF RecordInv
    <3> QED
        BY <1>3, <3>1
  <2> QED
      BY <1>1, <1>2, <1>9, <2>1, <2>2
<1> QED
    BY <1>1, <1>2, <1>3, <1>4, <1>7, <1>8, <1>9 DEF RecordInv

(* The records stay those of the text, whatever range is chosen of them.   *)
LEMMA RecordsInvariant == Spec => []RecordInv
<1>1. RecordInv /\ [Next]_vars => RecordInv'
  <2> SUFFICES ASSUME RecordInv, [Next]_vars PROVE RecordInv'
      OBVIOUS
  <2>1. CASE ReadRecord
      BY <2>1, ReadRecords
  <2>2. CASE ~ReadRecord
    <3>1. UNCHANGED <<text, prevCursor, records>>
        BY <2>2 DEF Next, vars, RecordsRead, SelectRange, EmitRecord, Finish, Abort
    <3> QED
        BY <3>1, SameRecords
  <2> QED
      BY <2>1, <2>2
<1> QED
    BY <1>1, InitRecords, PTL DEF Spec

(* Records never share a line, whatever is skipped between them and        *)
(* whatever line breaks they quote: the line a record ends on is that of   *)
(* its last character, the next starts past the line break after it.       *)
THEOREM OwnLines == Spec => []LinesDisjoint
<1>1. RecordInv => LinesDisjoint
  <2> SUFFICES ASSUME RecordInv, NEW k \in DOMAIN records
               PROVE  /\ records[k].startLine <= records[k].endLine
                      /\ k > 1 => records[k - 1].endLine < records[k].startLine
      BY DEF LinesDisjoint
  <2>1. DOMAIN records = 1..Len(records) /\ Len(records) \in Nat
      BY LenProperties DEF RecordInv
  <2>2. k > 1 => k - 1 \in DOMAIN records /\ k - 1 < k
      BY <2>1
  <2> QED
      BY <2>2 DEF RecordInv, OfText
<1> QED
    BY <1>1, RecordsInvariant, PTL

-----------------------------------------------------------------------------
(* The range                                                               *)

(* A record that was read has a line to start on and a width.              *)
LEMMA RecordFacts ==
    ASSUME RecordInv
    PROVE  /\ Len(records) \in Nat /\ DOMAIN records = 1..Len(records)
           /\ \A k \in DOMAIN records :
                 /\ records[k].startLine \in Nat \ {0} /\ records[k].endLine \in Nat
                 /\ records[k].startLine <= records[k].endLine
                 /\ Width(k) \in 1..Len(text) + 1
<1>1. Len(records) \in Nat /\ DOMAIN records = 1..Len(records)
    BY LenProperties DEF RecordInv
<1>2. ASSUME NEW k \in DOMAIN records
      PROVE  /\ records[k].startLine \in Nat \ {0} /\ records[k].endLine \in Nat
             /\ records[k].startLine <= records[k].endLine
             /\ Width(k) \in 1..Len(text) + 1
  <2>1. records[k] \in Record
      BY <1>1, ElementOfSeq DEF RecordInv
  <2>2. records[k].startLine <= records[k].endLine
      BY DEF RecordInv, OfText
  <2>3. Width(k) \in 1..Len(text) + 1
    <3>1. records[k].at \in DOMAIN text /\ records[k].fields = Fields(records[k].at)
        BY DEF RecordInv, OfText, Begins
    <3> QED
        BY <3>1, FieldsType DEF RecordInv, Width
  <2> QED
      BY <2>1, <2>2, <2>3 DEF Record
<1> QED
    BY <1>1, <1>2

(* The header that is guessed is one of the records.                       *)
LEMMA ModalHeaderFound ==
    ASSUME RecordInv, records # <<>>
    PROVE  ModalHeader \in DOMAIN records
<1> DEFINE sample == 1..Min({PreviewRows, Len(records)})
           Same(k) == {j \in sample : Width(j) = Width(k)}
           Count(k) == Cardinality(Same(k))
           S == {k \in sample : \A j \in sample : Count(k) >= Count(j)}
<1>1. Len(records) \in Nat \ {0} /\ DOMAIN records = 1..Len(records)
    BY RecordFacts, EmptySeq DEF RecordInv
<1>2. Min({PreviewRows, Len(records)}) \in 1..Len(records)
  <2> DEFINE T == {PreviewRows, Len(records)}
  <2>1. T \in SUBSET Nat /\ T # {} /\ Len(records) \in T
      BY <1>1
  <2>2. Min(T) \in T /\ \A x \in T : Min(T) <= x
      BY <2>1, NatMin
  <2> QED
      BY <1>1, <2>1, <2>2
<1> DEFINE n == Min({PreviewRows, Len(records)})
<1>3. n \in Nat \ {0} /\ n <= Len(records)
    BY <1>1, <1>2
<1>4. \A k : Count(k) \in Nat /\ Count(k) <= n
  <2> TAKE k
  <2>1. n \in Int /\ 1 \in Int
      BY <1>3
  <2> HIDE DEF n
  <2>2. IsFiniteSet(1..n) /\ Cardinality(1..n) = n /\ {j \in 1..n : Width(j) = Width(k)} \in SUBSET (1..n)
      BY <1>3, <2>1, FS_Interval
  <2>3. /\ Cardinality({j \in 1..n : Width(j) = Width(k)}) \in Nat
        /\ Cardinality({j \in 1..n : Width(j) = Width(k)}) <= n
      BY <2>2, FS_Subset, FS_CardinalityType
  <2> QED
      BY <2>3 DEF n
<1> DEFINE met == [k \in sample |-> Count(k)]
<1>5. 1 \in sample /\ sample \subseteq Nat /\ sample \subseteq DOMAIN records
  <2> HIDE DEF n
  <2>1. 1 \in 1..n /\ 1..n \subseteq Nat /\ 1..n \subseteq DOMAIN records
      BY <1>1, <1>3
  <2> QED
      BY <2>1 DEF n
<1>6. met \in [sample -> 0..n]
  <2> HIDE DEF Count, n, sample
  <2> QED
      BY <1>3, <1>4
<1>7. Min(S) \in sample
  <2>1. S = {k \in sample : \A j \in sample : met[k] >= met[j]}
      OBVIOUS
  <2>2. n \in Nat /\ sample \in SUBSET Nat /\ sample # {}
      BY <1>3, <1>5
  <2> HIDE DEF n, S, met, sample, Count
  <2> QED
      BY <1>6, <2>1, <2>2, FirstOfMost
<1>8. ModalHeader = Min(S)
    BY DEF ModalHeader
<1> QED
    BY <1>5, <1>7, <1>8

(* What is pending depends on the text and the cursor alone.               *)
LEMMA SamePending ==
    ASSUME UNCHANGED <<text, prevCursor>>
    PROVE  Pending(prevCursor)' = Pending(prevCursor)
BY DEF Pending, Begins, Terminators, Quoted, BlankRecord, End

(* The cells emitted so far are those of the records read so far, in a     *)
(* range that fits the limit.                                              *)
RangeInv ==
    /\ pc \in {"records", "select"} => read = 0 /\ cells = {}
    /\ pc \in {"select", "cells", "done"} => records # <<>> /\ Pending(prevCursor) = {}
    /\ pc \in {"cells", "done"} =>
          /\ table.header \in DOMAIN records
          /\ table.first \in Nat \ {0} /\ table.last \in Nat /\ table.first <= table.last
          /\ Volume(table.header, table.first, table.last) <= NonemptyCells
          /\ read \in Nat /\ table.header + read <= Len(records) + 1
          /\ cells = UNION {CellsOf(k) : k \in table.header..table.header + read - 1}
    /\ pc = "done" => table.header + read > Len(records)

LEMMA RangeSelected ==
    ASSUME RecordInv, RangeInv,
           NEW row \in HeaderRow, NEW first \in FirstColumn, NEW lastOption \in LastColumn,
           SelectRange(row, first, lastOption)
    PROVE  RangeInv'
<1> DEFINE header == Min(HeaderAt(row))
           widest == Max({Width(k) : k \in header..Len(records)})
           last == IF lastOption = 0 THEN widest ELSE lastOption
<1>1. /\ pc = "select" /\ records # <<>> /\ Pending(prevCursor) = {}
      /\ UNCHANGED <<text, prevCursor, records, skipped, read, cells, nonempty>>
      /\ read = 0 /\ cells = {}
    BY DEF SelectRange, RangeInv
<1>2. CASE pc' = "failed"
    BY <1>2 DEF RangeInv
<1>3. CASE pc' # "failed"
  <2>1. /\ HeaderAt(row) # {} /\ first >= 1 /\ first <= last /\ pc' = "cells"
        /\ ~(Volume(header, first, last) > NonemptyCells)
        /\ table' = [header |-> header, first |-> first, last |-> last]
      BY <1>3 DEF SelectRange, Fail
  <2>2. first \in Nat \ {0} /\ lastOption \in Nat
    <3>1. first \in Nat /\ lastOption \in Nat
        BY CsvAssumption DEF CsvAssumption
    <3> QED
        BY <2>1, <3>1
  <2>3. /\ Len(records) \in Nat /\ DOMAIN records = 1..Len(records)
        /\ \A k \in DOMAIN records : Width(k) \in 1..Len(text) + 1
      BY RecordFacts
  <2>4. header \in DOMAIN records
    <3>1. HeaderAt(row) \subseteq DOMAIN records
        BY <1>1, ModalHeaderFound DEF HeaderAt
    <3>2. HeaderAt(row) \in SUBSET Nat
        BY <2>3, <3>1
    <3> QED
        BY <2>1, <3>1, <3>2, NatMin
  <2> HIDE DEF header
  <2>5. widest \in Nat
    <3> DEFINE S == {Width(k) : k \in header..Len(records)}
    <3>1. header..Len(records) \subseteq DOMAIN records /\ header \in header..Len(records)
        BY <2>3, <2>4
    <3>2. Len(text) + 1 \in Nat
        BY TextFacts DEF RecordInv
    <3>3. S \in SUBSET Nat /\ S # {} /\ \A x \in S : x <= Len(text) + 1
        BY <2>3, <3>1, <3>2
    <3> QED
        BY <3>2, <3>3, NatMax
  <2>6. last \in Nat
      BY <2>2, <2>5
  <2> HIDE DEF last
  <2>7. PICK h \in DOMAIN records, l \in Nat : h = header /\ l = last
      BY <2>4, <2>6
  <2>8. /\ table'.header = h /\ table'.first = first /\ table'.last = l /\ first <= l
        /\ ~(Volume(h, first, l) > NonemptyCells)
      BY <2>1, <2>7
  <2>9. Volume(h, first, l)' <= NonemptyCells
    <3>1. Volume(h, first, l)' = Volume(h, first, l)
        BY <1>1 DEF Volume
    <3>2. Volume(h, first, l) \in Int
      <4> DEFINE lines == records[Len(records)].endLine - records[h].startLine + 1
                 width == l - first + 1
      <4>1. Len(records) \in DOMAIN records
          BY <2>3
      <4>2. \A k \in DOMAIN records :
              records[k].startLine \in Int /\ records[k].endLine \in Int
          BY RecordFacts
      <4>3. records[h].startLine \in Int /\ records[Len(records)].endLine \in Int
          BY <4>1, <4>2, Zenon
      <4>4. lines \in Int
        <5> DEFINE from == records[h].startLine
                   to   == records[Len(records)].endLine
        <5>1. from \in Int /\ to \in Int
            BY <4>3
        <5> HIDE DEF from, to
        <5>2. to - from + 1 \in Int
            BY <5>1
        <5> QED
            BY <5>2 DEF from, to
      <4>5. width \in Int
          BY <2>2
      <4>6. Volume(h, first, l) = lines * width
          BY DEF Volume
      <4> HIDE DEF lines, width
      <4> QED
          BY <4>4, <4>5, <4>6
    <3> QED
        BY <2>8, <3>1, <3>2
  <2>10. h..h + 0 - 1 = {} /\ h + 0 <= Len(records) + 1
      BY <2>3
  <2>11. Pending(prevCursor)' = Pending(prevCursor)
      BY <1>1, SamePending
  <2>12. /\ table'.header \in DOMAIN records' /\ read' = 0 /\ cells' = {}
         /\ records' = records /\ pc' = "cells"
      BY <1>1, <2>1, <2>8
  <2>13. Volume(table.header, table.first, table.last)' <= NonemptyCells
      BY <2>8, <2>9 DEF Volume
  <2>14. cells' = UNION {CellsOf(k)' : k \in h..h + 0 - 1}
      BY <2>10, <2>12
  <2> QED
      BY <1>1, <2>2, <2>7, <2>8, <2>10, <2>11, <2>12, <2>13, <2>14 DEF RangeInv
<1> QED
    BY <1>2, <1>3

(* The cells of a record depend on the records and the range alone.        *)
LEMMA SameCells ==
    ASSUME UNCHANGED <<records, table>>
    PROVE  \A k : CellsOf(k)' = CellsOf(k)
BY DEF CellsOf, Valued, Width

LEMMA CellsEmitted ==
    ASSUME RecordInv, RangeInv, EmitRecord
    PROVE  RangeInv'
<1> DEFINE n == table.header + read
<1>1. /\ pc = "cells" /\ n <= Len(records)
      /\ UNCHANGED <<text, prevCursor, records, skipped, table>>
    BY DEF EmitRecord
<1>2. CASE pc' = "failed"
    BY <1>2 DEF RangeInv
<1>3. CASE pc' # "failed"
  <2>1. read' = read + 1 /\ cells' = cells \cup CellsOf(n) /\ pc' = "cells"
      BY <1>1, <1>3 DEF EmitRecord, Fail
  <2>2. /\ table.header \in Nat /\ read \in Nat /\ Len(records) \in Nat
        /\ table.header \in DOMAIN records
        /\ cells = UNION {CellsOf(k) : k \in table.header..n - 1}
      BY <1>1, RecordFacts, SMTT(40) DEF RangeInv
  <2> HIDE DEF n
  <2>3. PICK h \in Nat : h = table.header
      BY <2>2
  <2>4. /\ n = h + read /\ n \in Nat
        /\ h..h + (read + 1) - 1 = (h..n - 1) \cup {n}
    <3>1. n = h + read
        BY <2>3 DEF n
    <3>2. n \in Nat
        BY <2>2, <3>1
    <3>3. h..h + (read + 1) - 1 = h..n
        BY <2>2, <3>1
    <3>4. n >= h
        BY <2>2, <3>1
    <3>5. h..n = (h..n - 1) \cup {n}
        BY <3>2, <3>4
    <3> QED
        BY <3>1, <3>2, <3>3, <3>5
  <2>5. cells' = UNION {CellsOf(k) : k \in h..h + read' - 1}
      BY <2>1, <2>2, <2>3, <2>4, SMTT(40)
  <2>6. cells' = UNION {CellsOf(k)' : k \in h..h + read' - 1}
      BY <1>1, <2>5, SameCells
  <2>7. /\ read' \in Nat /\ h + read' <= Len(records) + 1
    <3>1. h + read <= Len(records)
        BY <1>1, <2>4
    <3> QED
        BY <2>1, <2>2, <3>1
  <2>8. Volume(table.header, table.first, table.last)' = Volume(table.header, table.first, table.last)
      BY <1>1 DEF Volume
  <2>9. Pending(prevCursor)' = Pending(prevCursor)
      BY <1>1, SamePending
  <2> QED
      BY <1>1, <2>1, <2>3, <2>6, <2>7, <2>8, <2>9 DEF RangeInv
<1> QED
    BY <1>2, <1>3

(* The remaining steps fail, or leave the range and its cells alone.       *)
LEMMA RangeKept ==
    ASSUME RecordInv, RangeInv, ReadRecord \/ RecordsRead \/ Finish \/ Abort \/ UNCHANGED vars
    PROVE  RangeInv'
<1>1. CASE pc' = "failed"
    BY <1>1 DEF RangeInv
<1>2. CASE ReadRecord
    BY <1>2 DEF ReadRecord, RangeInv
<1>3. CASE RecordsRead /\ pc' # "failed"
  <2>1. /\ pc = "records" /\ pc' = "select" /\ records # <<>> /\ Pending(prevCursor) = {}
        /\ UNCHANGED <<text, prevCursor, records, read, cells>>
      BY <1>3 DEF RecordsRead, Fail
  <2> QED
      BY <2>1, SamePending DEF RangeInv
<1>4. CASE (Finish \/ UNCHANGED vars) /\ pc' # "failed"
  <2>1. /\ UNCHANGED <<text, prevCursor, records, table, read, cells>>
        /\ \/ pc' = pc
           \/ pc = "cells" /\ pc' = "done" /\ table.header + read > Len(records)
      BY <1>4 DEF Finish, Fail, vars
  <2>2. Pending(prevCursor)' = Pending(prevCursor) /\ \A k : CellsOf(k)' = CellsOf(k)
      BY <2>1, SamePending, SameCells
  <2>3. Volume(table.header, table.first, table.last)' = Volume(table.header, table.first, table.last)
      BY <2>1 DEF Volume
  <2> QED
      BY <2>1, <2>2, <2>3 DEF RangeInv
<1>5. CASE Abort
    BY <1>1, <1>5 DEF Abort, Fail
<1> QED
    BY <1>1, <1>2, <1>3, <1>4, <1>5

LEMMA RangeInvariant == Spec => [](RecordInv /\ RangeInv)
<1>1. Init => RangeInv
    BY DEF Init, RangeInv
<1>2. RecordInv /\ RangeInv /\ [Next]_vars => RangeInv'
    BY RangeSelected, CellsEmitted, RangeKept DEF Next
<1> QED
    BY <1>1, <1>2, RecordsInvariant, PTL DEF Spec

-----------------------------------------------------------------------------
(* The table                                                               *)

(* A table that is returned has the cells of every record from its header. *)
LEMMA TableDone ==
    ASSUME RecordInv, RangeInv, pc = "done"
    PROVE  /\ table.header \in DOMAIN records /\ Len(records) \in DOMAIN records
           /\ table.first \in Nat \ {0} /\ table.last \in Nat /\ table.first <= table.last
           /\ Volume(table.header, table.first, table.last) <= NonemptyCells
           /\ cells = UNION {CellsOf(k) : k \in table.header..Len(records)}
<1>1. /\ table.header \in DOMAIN records /\ read \in Nat
      /\ table.header + read <= Len(records) + 1 /\ table.header + read > Len(records)
      /\ cells = UNION {CellsOf(k) : k \in table.header..table.header + read - 1}
    BY DEF RangeInv
<1>2. Len(records) \in Nat /\ DOMAIN records = 1..Len(records)
    BY RecordFacts
<1>3. table.header + read - 1 = Len(records) /\ Len(records) \in DOMAIN records
    BY <1>1, <1>2
<1> QED
    BY <1>1, <1>3 DEF RangeInv

(* Records apart are told apart by where they begin and by their lines.    *)
LEMMA RecordsApart ==
    ASSUME RecordInv, NEW j \in DOMAIN records, NEW k \in DOMAIN records
    PROVE  /\ j < k => /\ records[j].at < records[k].at
                       /\ records[j].startLine < records[k].startLine
                       /\ records[j].endLine < records[k].endLine
           /\ j # k => /\ records[j].at # records[k].at
                       /\ records[j].startLine # records[k].startLine
<1>1. ASSUME NEW x \in DOMAIN records, NEW y \in DOMAIN records, x < y
      PROVE  /\ records[x].at < records[y].at
             /\ records[x].startLine < records[y].startLine
             /\ records[x].endLine < records[y].endLine
  <2>1. /\ records[x].at < records[y].at /\ records[x].endLine < records[y].startLine
      BY <1>1 DEF RecordInv
  <2>2. /\ records[x].startLine \in Nat /\ records[x].endLine \in Nat
        /\ records[y].startLine \in Nat /\ records[y].endLine \in Nat
        /\ records[x].startLine <= records[x].endLine
        /\ records[y].startLine <= records[y].endLine
      BY RecordFacts
  <2> QED
      BY <2>1, <2>2
<1>2. \A x \in DOMAIN records : records[x].at \in Nat
  <2> TAKE x \in DOMAIN records
  <2>1. records[x].at \in DOMAIN text
      BY DEF RecordInv, OfText, Begins
  <2> QED
      BY <2>1, TextFacts DEF RecordInv
<1>3. j \in Nat /\ k \in Nat
    BY RecordFacts
<1>4. CASE j < k
    BY <1>1, <1>2, <1>4, RecordFacts, SMTT(40)
<1>5. CASE k < j
    BY <1>1, <1>2, <1>3, <1>5, RecordFacts, SMTT(40)
<1> QED
    BY <1>3, <1>4, <1>5

(* What a cell of the table says of its record.                            *)
LEMMA CellFacts ==
    ASSUME RecordInv, RangeInv, pc = "done", NEW cell \in cells
    PROVE  \E k \in table.header..Len(records) :
              /\ k \in DOMAIN records /\ cell.row = records[k].startLine
              /\ cell.column \in table.first..table.last
              /\ cell.type = "text" <=> Valued(k, cell.column)
              /\ cell.type = (IF Valued(k, cell.column) THEN "text" ELSE "blank")
              /\ cell = [row |-> cell.row, column |-> cell.column, type |-> cell.type]
<1>1. PICK k \in table.header..Len(records) : cell \in CellsOf(k)
    BY TableDone
<1>2. k \in DOMAIN records
    BY TableDone, RecordFacts
<1>3. PICK c \in table.first..table.last :
          /\ Valued(k, c) \/ k = table.header
          /\ cell = [row |-> records[k].startLine, column |-> c,
                     type |-> IF Valued(k, c) THEN "text" ELSE "blank"]
    BY <1>1 DEF CellsOf
<1> QED
    BY <1>2, <1>3

(* The records from the header on are those of the text.                   *)
LEMMA TableRecords ==
    ASSUME RecordInv, RangeInv, pc = "done"
    PROVE  /\ \A k \in table.header..Len(records) : records[k].at \in TrueRecords
           /\ \A p \in TrueRecords : \E k \in table.header..Len(records) : records[k].at = p
<1> DEFINE h == table.header
           n == Len(records)
<1>1. h \in DOMAIN records /\ DOMAIN records = 1..n /\ n \in Nat
    BY TableDone, RecordFacts
<1>2. \A k \in DOMAIN records : records[k].at \in Nat
  <2> TAKE k \in DOMAIN records
  <2>1. records[k].at \in DOMAIN text
      BY DEF RecordInv, OfText, Begins
  <2> QED
      BY <2>1, TextFacts DEF RecordInv
<1> HIDE DEF n
<1>3. ASSUME NEW k \in h..n
      PROVE  records[k].at \in TrueRecords
  <2>1. k \in DOMAIN records /\ h <= k /\ h \in Nat /\ k \in Nat
      BY <1>1
  <2>2. records[k].at \in Begins /\ ~BlankRecord(records[k].at)
      BY <2>1 DEF RecordInv, OfText
  <2>3. h # k => records[h].at < records[k].at
      BY <1>1, <2>1, RecordsApart
  <2>4. records[k].at >= records[h].at
      BY <1>1, <1>2, <2>1, <2>3
  <2> QED
      BY <2>2, <2>4 DEF TrueRecords
<1>4. ASSUME NEW p \in TrueRecords
      PROVE  \E k \in h..n : records[k].at = p
  <2>1. p \in Begins /\ ~BlankRecord(p) /\ p >= records[h].at
      BY DEF TrueRecords
  <2>2. p \in Nat /\ prevCursor \in Nat
    <3>1. p \in DOMAIN text
        BY <2>1 DEF Begins
    <3> QED
        BY <3>1, TextFacts DEF RecordInv
  <2>3. p <= prevCursor
      BY <2>1, <2>2 DEF RangeInv, Pending
  <2>4. PICK k \in DOMAIN records : records[k].at = p
      BY <2>1, <2>3 DEF RecordInv
  <2>5. ~(k < h)
    <3>1. k < h => records[k].at < records[h].at
        BY <1>1, RecordsApart
    <3> QED
        BY <1>1, <1>2, <2>1, <2>2, <2>4, <3>1
  <2>6. k \in h..n
      BY <1>1, <2>5
  <2> QED
      BY <2>4, <2>6
<1> QED
    BY <1>3, <1>4 DEF n

(* The line a record starts on is one where its values may stand, and none *)
(* where those of another record may.                                      *)
LEMMA RowOfOne ==
    ASSUME RecordInv, RangeInv, pc = "done",
           NEW j \in table.header..Len(records), NEW k \in table.header..Len(records)
    PROVE  /\ records[j].startLine \in FirstRow..LastRow
           /\ records[j].startLine \in RowsOf(records[k].at) <=> j = k
<1> DEFINE h == table.header
           n == Len(records)
<1>1. /\ h \in DOMAIN records /\ n \in DOMAIN records /\ DOMAIN records = 1..n /\ n \in Nat
      /\ FirstRow = records[h].startLine /\ LastRow = records[n].endLine
    BY TableDone, RecordFacts DEF FirstRow, LastRow
<1> HIDE DEF n
<1>2. /\ j \in DOMAIN records /\ k \in DOMAIN records /\ j \in Nat /\ k \in Nat /\ h \in Nat
      /\ h <= j /\ j <= n /\ h <= k /\ k <= n
    BY <1>1 DEF n
<1>3. \A i \in DOMAIN records :
          /\ records[i].startLine \in Nat /\ records[i].endLine \in Nat
          /\ records[i].startLine <= records[i].endLine
          /\ records[i].endLine = Line(End(records[i].at))
    BY RecordFacts DEF RecordInv, OfText
<1>4. records[j].startLine \in FirstRow..LastRow
  <2>1. h # j => records[h].startLine < records[j].startLine
      BY <1>1, <1>2, RecordsApart
  <2>2. j # n => records[j].endLine < records[n].endLine
      BY <1>1, <1>2, RecordsApart
  <2> QED
      BY <1>1, <1>2, <1>3, <2>1, <2>2
<1>5. CASE j = k
  <2>1. ASSUME NEW q \in TrueRecords, q < records[k].at
        PROVE  Line(End(q)) < records[k].startLine
    <3>1. PICK i \in h..n : records[i].at = q
        BY TableRecords DEF n
    <3>2. i \in DOMAIN records /\ i \in Nat
        BY <1>1, <3>1
    <3>3. records[i].at \in Nat /\ records[k].at \in Nat
      <4>1. records[i].at \in DOMAIN text /\ records[k].at \in DOMAIN text
          BY <1>2, <3>2 DEF RecordInv, OfText, Begins
      <4> QED
          BY <4>1, TextFacts DEF RecordInv
    <3>4. i < k
      <4>1. k < i => records[k].at < records[i].at
          BY <1>2, <3>2, RecordsApart
      <4> QED
          BY <1>2, <2>1, <3>1, <3>2, <3>3, <4>1
    <3>5. records[i].endLine < records[k].startLine
        BY <1>2, <3>2, <3>4 DEF RecordInv
    <3> QED
        BY <1>3, <3>1, <3>2, <3>5
  <2>2. records[k].startLine <= Line(End(records[k].at))
      BY <1>2, <1>3
  <2> QED
      BY <1>4, <1>5, <2>1, <2>2 DEF RowsOf
<1>6. CASE j < k
  <2>1. records[j].at < records[k].at /\ records[j].at \in TrueRecords
      BY <1>2, <1>6, RecordsApart, TableRecords
  <2>2. ~(Line(End(records[j].at)) < records[j].startLine)
      BY <1>2, <1>3
  <2> QED
      BY <1>2, <1>4, <1>6, <2>1, <2>2 DEF RowsOf
<1>7. CASE k < j
  <2>1. records[k].endLine < records[j].startLine
      BY <1>2, <1>7 DEF RecordInv
  <2>2. ~(records[j].startLine <= Line(End(records[k].at)))
      BY <1>2, <1>3, <2>1
  <2> QED
      BY <1>2, <1>4, <1>7, <2>2 DEF RowsOf
<1> QED
    BY <1>2, <1>4, <1>5, <1>6, <1>7

(* A field of the text has a value if and only if its record has.          *)
LEMMA FieldOfRecord ==
    ASSUME RecordInv, NEW k \in DOMAIN records, NEW c
    PROVE  Valued(k, c) <=> c \in DOMAIN Fields(records[k].at) /\ Fields(records[k].at)[c] > 0
<1>1. records[k].fields = Fields(records[k].at) /\ records[k].at \in DOMAIN text
    BY DEF RecordInv, OfText, Begins
<1>2. DOMAIN Fields(records[k].at) = 1..Width(k)
    BY <1>1, FieldsType, LenProperties DEF Width, RecordInv
<1> QED
    BY <1>1, <1>2 DEF Valued

(* A table that is returned is whole and bounded: of each record of the    *)
(* text, its values and no others stand on the lines that are its own, and *)
(* a line and a column name one cell; the header has each column, and the  *)
(* range counts the lines that its records span.                           *)
THEOREM WholeTable == Spec => []TableWhole
<1>1. RecordInv /\ RangeInv => TableWhole
  <2> SUFFICES ASSUME RecordInv, RangeInv, pc = "done"
               PROVE  TableWhole
      BY DEF TableWhole
  <2> DEFINE h == table.header
             n == Len(records)
  <2>1. /\ h \in DOMAIN records /\ n \in DOMAIN records /\ DOMAIN records = 1..n /\ n \in Nat
        /\ h \in h..n /\ h..n \subseteq DOMAIN records
        /\ cells = UNION {CellsOf(k) : k \in h..n}
        /\ FirstRow = records[h].startLine /\ LastRow = records[n].endLine
    <3>1. /\ h \in DOMAIN records /\ n \in DOMAIN records /\ DOMAIN records = 1..n /\ n \in Nat
          /\ cells = UNION {CellsOf(k) : k \in h..n}
        BY TableDone, RecordFacts
    <3>2. FirstRow = records[h].startLine /\ LastRow = records[n].endLine
        BY DEF FirstRow, LastRow
    <3> HIDE DEF h, n
    <3>3. h \in h..n /\ h..n \subseteq DOMAIN records
        BY <3>1
    <3> QED
        BY <3>1, <3>2, <3>3
  <2>2. ASSUME NEW cell \in cells, NEW other \in cells,
               cell.row = other.row, cell.column = other.column
        PROVE  cell = other
    <3>1. PICK j \in h..n :
              /\ cell.row = records[j].startLine
              /\ cell.type = (IF Valued(j, cell.column) THEN "text" ELSE "blank")
              /\ cell = [row |-> cell.row, column |-> cell.column, type |-> cell.type]
        BY CellFacts
    <3>2. PICK k \in h..n :
              /\ other.row = records[k].startLine
              /\ other.type = (IF Valued(k, other.column) THEN "text" ELSE "blank")
              /\ other = [row |-> other.row, column |-> other.column, type |-> other.type]
        BY CellFacts
    <3>3. j \in DOMAIN records /\ k \in DOMAIN records
        BY <2>1
    <3> HIDE DEF h, n
    <3>4. j = k
        BY <2>2, <3>1, <3>2, <3>3, RecordsApart
    <3>5. cell.type = other.type
        BY <2>2, <3>1, <3>2, <3>4
    <3> QED
        BY <2>2, <3>1, <3>2, <3>5
  <2>3. ASSUME NEW p \in TrueRecords, NEW c \in table.first..table.last
        PROVE  c \in DOMAIN Fields(p) /\ Fields(p)[c] > 0
                   <=> \E cell \in cells :
                          cell.column = c /\ cell.type = "text" /\ cell.row \in RowsOf(p)
    <3>1. PICK k \in h..n : records[k].at = p
        BY TableRecords
    <3>2. Valued(k, c) <=> c \in DOMAIN Fields(p) /\ Fields(p)[c] > 0
        BY <2>1, <3>1, FieldOfRecord
    <3>3. ASSUME Valued(k, c)
          PROVE  \E cell \in cells :
                    cell.column = c /\ cell.type = "text" /\ cell.row \in RowsOf(p)
      <4> DEFINE cell == [row |-> records[k].startLine, column |-> c, type |-> "text"]
      <4>1. cell \in CellsOf(k)
          BY <3>3 DEF CellsOf
      <4>2. cell \in cells
          BY <2>1, <4>1
      <4>3. records[k].startLine \in RowsOf(p)
          BY <3>1, RowOfOne
      <4> QED
          BY <4>2, <4>3
    <3>4. ASSUME NEW cell \in cells, cell.column = c, cell.type = "text", cell.row \in RowsOf(p)
          PROVE  Valued(k, c)
      <4>1. PICK j \in h..n :
                cell.row = records[j].startLine /\ (cell.type = "text" <=> Valued(j, cell.column))
          BY CellFacts
      <4>2. j = k
          BY <3>1, <3>4, <4>1, RowOfOne
      <4> QED
          BY <3>4, <4>1, <4>2
    <3> QED
        BY <3>2, <3>3, <3>4
  <2>4. ASSUME NEW c \in table.first..table.last
        PROVE  \E cell \in cells : cell.row = FirstRow /\ cell.column = c
    <3> DEFINE cell == [row |-> records[h].startLine, column |-> c,
                        type |-> IF Valued(h, c) THEN "text" ELSE "blank"]
    <3>1. cell \in CellsOf(h)
        BY DEF CellsOf
    <3>2. cell \in cells
        BY <2>1, <3>1
    <3> QED
        BY <2>1, <3>2
  <2>5. \A cell \in cells :
            cell.row \in FirstRow..LastRow /\ cell.column \in table.first..table.last
      BY CellFacts, RowOfOne
  <2>6. Cardinality((FirstRow..LastRow) \X (table.first..table.last)) <= NonemptyCells
    <3>1. /\ table.first \in Nat /\ table.last \in Nat /\ table.first <= table.last
          /\ Volume(table.header, table.first, table.last) <= NonemptyCells
        BY TableDone
    <3>2. records[h].startLine \in FirstRow..LastRow
        BY <2>1, RowOfOne
    <3>3. FirstRow \in Int /\ LastRow \in Int /\ FirstRow <= LastRow
      <4>1. FirstRow \in Int /\ LastRow \in Int
          BY <2>1, RecordFacts
      <4> HIDE DEF h, n
      <4> QED
          BY <3>2, <4>1
    <3> DEFINE rows == FirstRow..LastRow
               columns == table.first..table.last
    <3>4. IsFiniteSet(rows) /\ Cardinality(rows) = LastRow - FirstRow + 1
        BY <3>3, IntervalSize
    <3>5. IsFiniteSet(columns) /\ Cardinality(columns) = table.last - table.first + 1
      <4>1. table.first \in Int /\ table.last \in Int
          BY <3>1
      <4> QED
          BY <3>1, <4>1, IntervalSize
    <3>6. Volume(table.header, table.first, table.last)
              = (LastRow - FirstRow + 1) * (table.last - table.first + 1)
        BY <2>1 DEF Volume
    <3> HIDE DEF rows, columns
    <3>7. Cardinality(rows \X columns) = (LastRow - FirstRow + 1) * (table.last - table.first + 1)
        BY <3>4, <3>5, FS_Product
    <3> QED
        BY <3>1, <3>6, <3>7 DEF rows, columns
  <2> HIDE DEF h, n
  <2> QED
      BY <2>2, <2>3, <2>4, <2>5, <2>6 DEF TableWhole
<1> QED
    BY <1>1, RangeInvariant, PTL

(* Images of one finite set under maps that tell its elements apart have   *)
(* as many elements as it has.                                             *)
LEMMA SameSize ==
    ASSUME NEW K, IsFiniteSet(K), NEW S, NEW T,
           NEW f \in [K -> S], \A x \in S : \E k \in K : f[k] = x,
           NEW g \in [K -> T], \A x \in T : \E k \in K : g[k] = x,
           \A j, k \in K : j # k => f[j] # f[k] /\ g[j] # g[k]
    PROVE  Cardinality(S) = Cardinality(T)
<1>1. f \in Bijection(K, S) /\ g \in Bijection(K, T)
    BY DEF Bijection, Injection, Surjection, IsInjective
<1>2. ExistsBijection(K, S) /\ ExistsBijection(K, T)
    BY <1>1 DEF ExistsBijection
<1> QED
    BY <1>2, FS_Bijection

(* Nothing is lost or moved between columns: the values of a column and    *)
(* the fields of the text that have one are matched by the records.        *)
THEOREM NothingLost == Spec => []ValuesOfText
<1>1. RecordInv /\ RangeInv => ValuesOfText
  <2> SUFFICES ASSUME RecordInv, RangeInv, pc = "done", NEW c \in table.first..table.last
               PROVE  Cardinality({cell \in cells : cell.column = c /\ cell.type = "text"})
                        = Cardinality({p \in TrueRecords :
                                          c \in DOMAIN Fields(p) /\ Fields(p)[c] > 0})
      BY DEF ValuesOfText
  <2> DEFINE h == table.header
             n == Len(records)
             K == {k \in h..n : Valued(k, c)}
             A == {cell \in cells : cell.column = c /\ cell.type = "text"}
             B == {p \in TrueRecords : c \in DOMAIN Fields(p) /\ Fields(p)[c] > 0}
             f == [k \in K |-> [row |-> records[k].startLine, column |-> c, type |-> "text"]]
             g == [k \in K |-> records[k].at]
  <2>1. /\ h \in DOMAIN records /\ n \in DOMAIN records /\ DOMAIN records = 1..n /\ n \in Nat
        /\ h..n \subseteq DOMAIN records /\ cells = UNION {CellsOf(k) : k \in h..n}
        /\ table.first \in Nat \ {0} /\ table.last \in Nat
    <3>1. /\ h \in DOMAIN records /\ n \in DOMAIN records /\ DOMAIN records = 1..n /\ n \in Nat
          /\ cells = UNION {CellsOf(k) : k \in h..n}
          /\ table.first \in Nat \ {0} /\ table.last \in Nat
        BY TableDone, RecordFacts
    <3> HIDE DEF h, n
    <3> QED
        BY <3>1
  <2>2. IsFiniteSet(K)
    <3>1. h \in Int /\ n \in Int
        BY <2>1
    <3> HIDE DEF h, n
    <3>2. IsFiniteSet(h..n) /\ K \in SUBSET (h..n)
        BY <3>1, FS_Interval
    <3> QED
        BY <3>2, FS_Subset
  <2>3. \A k \in h..n : Valued(k, c) <=> c \in DOMAIN Fields(records[k].at)
                                          /\ Fields(records[k].at)[c] > 0
      BY <2>1, FieldOfRecord
  <2>4. f \in [K -> A]
    <3> SUFFICES ASSUME NEW k \in K PROVE f[k] \in A
        OBVIOUS
    <3>1. f[k] = [row |-> records[k].startLine, column |-> c, type |-> "text"]
        OBVIOUS
    <3>2. f[k] \in CellsOf(k)
        BY <3>1 DEF CellsOf
    <3> QED
        BY <2>1, <3>1, <3>2
  <2>5. \A cell \in A : \E k \in K : f[k] = cell
    <3> TAKE cell \in A
    <3>1. PICK k \in h..n :
              /\ cell.row = records[k].startLine
              /\ cell.type = "text" <=> Valued(k, cell.column)
              /\ cell = [row |-> cell.row, column |-> cell.column, type |-> cell.type]
        BY CellFacts
    <3>2. k \in K /\ f[k] = cell
        BY <3>1
    <3> QED
        BY <3>2
  <2>6. g \in [K -> B]
      BY <2>3, TableRecords
  <2>7. \A p \in B : \E k \in K : g[k] = p
    <3> TAKE p \in B
    <3>1. PICK k \in h..n : records[k].at = p
        BY TableRecords
    <3>2. k \in K
        BY <2>3, <3>1
    <3> QED
        BY <3>1, <3>2
  <2>8. \A j, k \in K : j # k => f[j] # f[k] /\ g[j] # g[k]
    <3> SUFFICES ASSUME NEW j \in K, NEW k \in K, j # k PROVE f[j] # f[k] /\ g[j] # g[k]
        OBVIOUS
    <3>1. /\ records[j].at # records[k].at
          /\ records[j].startLine # records[k].startLine
        BY <2>1, RecordsApart
    <3>2. f[j].row = records[j].startLine /\ f[k].row = records[k].startLine
        OBVIOUS
    <3> QED
        BY <3>1, <3>2
  <2> HIDE DEF K, A, B, f, g
  <2>9. Cardinality(A) = Cardinality(B)
      BY <2>2, <2>4, <2>5, <2>6, <2>7, <2>8, SameSize
  <2> QED
      BY <2>9 DEF A, B
<1> QED
    BY <1>1, RangeInvariant, PTL
=============================================================================
