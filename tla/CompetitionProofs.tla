--------------------------- MODULE CompetitionProofs ---------------------------
(***************************************************************************)
(* Theorems about CompetitionTracker, for any auctions, copies, caps and   *)
(* crashes.                                                                *)
(*                                                                         *)
(* OneLookup counts the lookups of a request in three sequences, so the    *)
(* proofs begin with what the operations on sequences do to such a count.  *)
(***************************************************************************)
EXTENDS CompetitionTracker, FiniteSetTheorems, SequenceTheorems, TLAPS

-----------------------------------------------------------------------------
(* Counting.                                                               *)

Places(r, s) == {i \in DOMAIN s : s[i].req = r}

LEMMA PlacesFinite ==
    ASSUME NEW S, NEW s \in Seq(S), NEW r
    PROVE  /\ IsFiniteSet(Places(r, s)) /\ Times(r, s) = Cardinality(Places(r, s)) /\ Times(r, s) \in Nat
           /\ Times(r, s) = 0 <=> \A i \in DOMAIN s : s[i].req # r
<1>1. IsFiniteSet(1..Len(s)) /\ DOMAIN s = 1..Len(s)
  BY LenProperties, FS_Interval
<1>2. IsFiniteSet(Places(r, s))
  BY <1>1, FS_Subset DEF Places
<1>3. Times(r, s) = Cardinality(Places(r, s))
  BY DEF Times, Places
<1>4. Cardinality(Places(r, s)) = 0 <=> Places(r, s) = {}
  BY <1>2, FS_EmptySet
<1> QED
  BY <1>2, <1>3, <1>4, FS_CardinalityType DEF Places

LEMMA TimesConcat ==
    ASSUME NEW S, NEW s \in Seq(S), NEW t \in Seq(S), NEW r
    PROVE  Times(r, s \o t) = Times(r, s) + Times(r, t)
<1> DEFINE A == Places(r, s)
           B == Places(r, t)
           C == {i \in (Len(s) + 1)..(Len(s) + Len(t)) : (s \o t)[i].req = r}
           f == [i \in B |-> i + Len(s)]
<1>1. /\ s \o t \in Seq(S) /\ DOMAIN (s \o t) = 1..(Len(s) + Len(t)) /\ DOMAIN s = 1..Len(s) /\ DOMAIN t = 1..Len(t)
      /\ Len(s) \in Nat /\ Len(t) \in Nat
      /\ \A i \in 1..Len(s) : (s \o t)[i] = s[i]
      /\ \A i \in 1..Len(t) : (s \o t)[i + Len(s)] = t[i]
  BY ConcatProperties, LenProperties
<1>2. Places(r, s \o t) = A \union C /\ A \intersect C = {}
  <2>1. \A i \in DOMAIN (s \o t) : \/ i \in 1..Len(s) /\ (s \o t)[i] = s[i]
                                   \/ i \in (Len(s) + 1)..(Len(s) + Len(t))
    BY <1>1
  <2>2. 1..Len(s) \subseteq DOMAIN (s \o t) /\ (Len(s) + 1)..(Len(s) + Len(t)) \subseteq DOMAIN (s \o t)
    BY <1>1
  <2>3. A = {i \in 1..Len(s) : (s \o t)[i].req = r}
    BY <1>1 DEF Places
  <2>4. Places(r, s \o t) = {i \in DOMAIN (s \o t) : (s \o t)[i].req = r}
    BY DEF Places
  <2>5. \A i : ~(i \in 1..Len(s) /\ i \in (Len(s) + 1)..(Len(s) + Len(t)))
    BY <1>1
  <2> HIDE DEF A
  <2> QED
    BY <2>1, <2>2, <2>3, <2>4, <2>5, Zenon
<1>3. IsFiniteSet(A) /\ IsFiniteSet(B) /\ Times(r, s) = Cardinality(A) /\ Times(r, t) = Cardinality(B)
      /\ Times(r, s) \in Nat /\ Times(r, t) \in Nat /\ Times(r, s \o t) = Cardinality(A \union C)
  <2>1. IsFiniteSet(A) /\ Times(r, s) = Cardinality(A) /\ Times(r, s) \in Nat
    BY PlacesFinite
  <2>2. IsFiniteSet(B) /\ Times(r, t) = Cardinality(B) /\ Times(r, t) \in Nat
    BY PlacesFinite
  <2>3. Times(r, s \o t) = Cardinality(Places(r, s \o t))
    BY DEF Times, Places
  <2> HIDE DEF A, B, C
  <2> QED
    BY <1>2, <2>1, <2>2, <2>3
<1>4. f \in Bijection(B, C)
  <2>1. \A i \in B : i \in 1..Len(t) /\ i + Len(s) \in C
    BY <1>1 DEF Places
  <2>2. f \in [B -> C]
    BY <2>1
  <2>3. \A i, j \in B : f[i] = f[j] => i = j
    BY <1>1, <2>1
  <2>4. ASSUME NEW c \in C PROVE \E i \in B : f[i] = c
    <3>1. c - Len(s) \in 1..Len(t) /\ (c - Len(s)) + Len(s) = c
      BY <1>1
    <3>2. c - Len(s) \in B
      BY <1>1, <3>1 DEF Places
    <3> QED
      BY <3>1, <3>2
  <2> QED
    BY <2>2, <2>3, <2>4 DEF Bijection, Injection, Surjection, IsInjective
<1>5. IsFiniteSet(C) /\ Cardinality(C) = Cardinality(B)
  <2>1. ExistsBijection(B, C)
    BY <1>4, Zenon DEF ExistsBijection
  <2> QED
    BY <1>3, <2>1, FS_Bijection, Zenon
<1> HIDE DEF A, B, C
<1>6. Cardinality(A \union C) = Cardinality(A) + Cardinality(C) - Cardinality(A \intersect C)
  BY <1>3, <1>5, FS_Union
<1>7. Cardinality(A \intersect C) = 0
  BY <1>2, FS_EmptySet
<1> QED
  BY <1>3, <1>5, <1>6, <1>7

LEMMA TimesOfOne ==
    ASSUME NEW S, NEW e \in S, NEW r
    PROVE  Times(r, <<e>>) = IF e.req = r THEN 1 ELSE 0
<1>1. Times(r, <<e>>) = Cardinality(Places(r, <<e>>))
  BY DEF Times, Places
<1>2. Places(r, <<e>>) = IF e.req = r THEN {1} ELSE {}
  BY DEF Places
<1> QED
  BY <1>1, <1>2, FS_EmptySet, FS_Singleton

LEMMA TimesAppend ==
    ASSUME NEW S, NEW s \in Seq(S), NEW e \in S, NEW r
    PROVE  Times(r, Append(s, e)) = Times(r, s) + IF e.req = r THEN 1 ELSE 0
<1>1. Append(s, e) = s \o <<e>> /\ <<e>> \in Seq(S)
  BY AppendIsConcat
<1>2. Times(r, Append(s, e)) = Times(r, s \o <<e>>)
  BY <1>1
<1>3. Times(r, s \o <<e>>) = Times(r, s) + Times(r, <<e>>)
  BY <1>1, TimesConcat
<1>4. Times(r, <<e>>) = IF e.req = r THEN 1 ELSE 0
  BY TimesOfOne
<1> QED
  BY <1>2, <1>3, <1>4

LEMMA TimesTail ==
    ASSUME NEW S, NEW s \in Seq(S), s # <<>>, NEW r
    PROVE  Times(r, Tail(s)) = Times(r, s) - IF Head(s).req = r THEN 1 ELSE 0
<1>1. Tail(s) \in Seq(S) /\ Head(s) \in S /\ <<Head(s)>> \in Seq(S) /\ Head(s) = s[1]
      /\ Len(s) \in Nat /\ 1 \in 1..Len(s) /\ Len(s) \in 1..Len(s)
  OBVIOUS
<1>2. SubSeq(s, 1, Len(s)) = <<s[1]>> \o SubSeq(s, 1 + 1, Len(s))
  BY <1>1, SubSeqRecursiveFirst
<1>4. SubSeq(s, 1, Len(s)) = s /\ Tail(s) = SubSeq(s, 2, Len(s))
  BY SubSeqFull, TailIsSubSeq
<1>5. s = <<Head(s)>> \o Tail(s)
  BY <1>1, <1>2, <1>4
<1>6. Times(r, s) = Times(r, <<Head(s)>> \o Tail(s))
  BY <1>5
<1>7. Times(r, s) = Times(r, <<Head(s)>>) + Times(r, Tail(s))
  BY <1>1, <1>6, TimesConcat
<1>3. Times(r, Tail(s)) \in Nat /\ Times(r, s) \in Nat
  BY <1>1, PlacesFinite
<1> QED
  BY <1>1, <1>3, <1>7, TimesOfOne

LEMMA TimesSplit ==
    ASSUME NEW S, NEW s \in Seq(S), NEW n \in 0..Len(s), NEW r
    PROVE  /\ SubSeq(s, 1, n) \in Seq(S) /\ SubSeq(s, n + 1, Len(s)) \in Seq(S)
           /\ Times(r, s) = Times(r, SubSeq(s, 1, n)) + Times(r, SubSeq(s, n + 1, Len(s)))
<1>1. Len(s) \in Nat /\ \A i \in 1..Len(s) : s[i] \in S
  OBVIOUS
<1>2. SubSeq(s, 1, n) \in Seq(S) /\ SubSeq(s, n + 1, Len(s)) \in Seq(S)
  BY <1>1, SubSeqProperties
<1>3. s = SubSeq(s, 1, Len(s))
  BY SubSeqFull
<1>4. SubSeq(s, 1, Len(s)) = SubSeq(s, 1, n) \o SubSeq(s, n + 1, Len(s))
  <2>1. 1 \in 1..(Len(s) + 1) /\ n \in (1 - 1)..Len(s) /\ Len(s) \in n..Len(s)
    BY <1>1
  <2> QED
    BY <2>1, ConcatAdjacentSubSeq
<1>5. Times(r, s) = Times(r, SubSeq(s, 1, n) \o SubSeq(s, n + 1, Len(s)))
  BY <1>3, <1>4
<1> QED
  BY <1>2, <1>5, TimesConcat

LEMMA TimesEmpty == ASSUME NEW r PROVE Times(r, <<>>) = 0
<1>1. Places(r, <<>>) = {}
  BY DEF Places
<1> QED
  BY <1>1, FS_EmptySet DEF Times, Places

-----------------------------------------------------------------------------
(* Types.                                                                  *)

Lookups == [req : Requests, age : Nat, retries : {0, 1}]

Rows == [auction : Auctions, winner : {Null} \union Winners]

DecidedRows == [auction : Auctions, winner : Winners]

Entries == [req : Auctions \X (0..Copies), winner : Winners]

Fates == {"unsent", "tracked", "evicted", "failed", "trimmed", "crashed"}

TypeOK ==
    /\ recording \subseteq Requests /\ enqueuing \subseteq Requests
    /\ queue \in Seq(Lookups)
    /\ batch \in Seq(Lookups)
    /\ loopAge \in Nat
    /\ poll \in {"idle", "asked"} \union Winners
    /\ poll # "idle" => batch # <<>>
    /\ db \in Seq(Rows)
    /\ results \in Seq(Entries)
    /\ settled \subseteq Auctions /\ forgotten \subseteq Auctions
    /\ crashes \in Nat
    /\ fate \in [Requests -> Fates]

LEMMA Constants ==
    /\ Copies \in Nat /\ Delay \in Nat /\ ResultsCap \in Nat /\ Trim \in Nat /\ Trim > 0
    /\ Trim <= ResultsCap + 1 /\ HistoryLimit \in Nat
BY TrackerAssumption

LEMMA RequestTypes ==
    ASSUME NEW r \in Requests
    PROVE  r[1] \in Auctions /\ r[2] >= 1 /\ r \in Auctions \X (0..Copies) /\ Fresh(r) \in Lookups
<1>1. PICK a \in Auctions, c \in 1..Copies : r = <<a, c>>
  BY DEF Requests
<1>2. c \in 0..Copies
  BY Constants
<1> QED
  BY <1>1, <1>2 DEF Fresh, Lookups

LEMMA AgedTypes ==
    ASSUME NEW s \in Seq(Lookups), NEW r
    PROVE  /\ Aged(s) \in Seq(Lookups) /\ Times(r, Aged(s)) = Times(r, s)
           /\ s # <<>> => Aged(s) # <<>> /\ Head(Aged(s)).req = Head(s).req
<1>1. Len(s) \in Nat /\ DOMAIN s = 1..Len(s) /\ \A i \in 1..Len(s) : s[i] \in Lookups
  OBVIOUS
<1>2. \A l \in Lookups : Older(l) \in Lookups /\ Older(l).req = l.req
  BY Constants DEF Older, Lookups, Lesser
<1>3. Aged(s) = [i \in 1..Len(s) |-> Older(s[i])]
  BY <1>1 DEF Aged
<1>4. Aged(s) \in [1..Len(s) -> Lookups]
  BY <1>1, <1>2, <1>3
<1>5. Aged(s) \in Seq(Lookups) /\ Len(Aged(s)) = Len(s)
  BY <1>1, <1>4
<1>6. DOMAIN Aged(s) = DOMAIN s /\ \A i \in DOMAIN s : Aged(s)[i].req = s[i].req
  BY <1>1, <1>2, <1>3
<1>7. Times(r, Aged(s)) = Times(r, s)
  BY <1>6 DEF Times
<1>8. ASSUME s # <<>> PROVE Aged(s) # <<>> /\ Head(Aged(s)).req = Head(s).req
  <2>1. 1 \in DOMAIN s /\ Len(s) # 0
    BY <1>1, <1>8
  <2>2. Aged(s) # <<>>
    BY <1>5, <2>1
  <2> QED
    BY <1>5, <1>6, <1>8, <2>1, <2>2
<1> QED
  BY <1>5, <1>7, <1>8

\* What a lookup that the task took from the batch leaves.
LEMMA ThisTypes ==
    ASSUME TypeOK, poll # "idle"
    PROVE  /\ This \in Requests /\ Head(batch) \in Lookups /\ This = Head(batch).req
           /\ Tail(batch) \in Seq(Lookups)
<1>1. Head(batch) \in Lookups /\ Tail(batch) \in Seq(Lookups)
  BY DEF TypeOK
<1> QED
  BY <1>1 DEF This, Lookups

LEMMA ExcessTypes ==
    ASSUME TypeOK
    PROVE  Excess \in 0..Len(results)
BY Constants DEF TypeOK, Excess

LEMMA UpdatedTypes ==
    ASSUME TypeOK, NEW a, NEW w \in Winners
    PROVE  /\ Updated(a, w) \in Seq(Rows)
           /\ DOMAIN Updated(a, w) = DOMAIN db
           /\ \A i \in DOMAIN db : Updated(a, w)[i] = IF db[i].auction = a THEN [db[i] EXCEPT !.winner = w] ELSE db[i]
<1>1. db \in Seq(Rows) /\ Len(db) \in Nat /\ DOMAIN db = 1..Len(db) /\ \A i \in 1..Len(db) : db[i] \in Rows
  BY DEF TypeOK
<1>2. \A row \in Rows : [row EXCEPT !.winner = w] \in Rows
  BY DEF Rows
<1>3. Updated(a, w) = [i \in 1..Len(db) |-> IF db[i].auction = a THEN [db[i] EXCEPT !.winner = w] ELSE db[i]]
  BY <1>1 DEF Updated
<1>4. Updated(a, w) \in [1..Len(db) -> Rows]
  BY <1>1, <1>2, <1>3
<1> QED
  BY <1>1, <1>3, <1>4

\* The rows but one, in their order.
LEMMA WithoutRow ==
    ASSUME NEW s \in Seq(Rows), NEW k \in 1..Len(s)
    PROVE  LET kept == RemoveAt(s, k)
           IN  /\ kept \in Seq(Rows) /\ DOMAIN kept = 1..(Len(s) - 1)
               /\ \A i \in 1..(k - 1) : kept[i] = s[i]
               /\ \A i \in k..(Len(s) - 1) : kept[i] = s[i + 1]
<1> DEFINE kept == RemoveAt(s, k)
           t    == SubSeq(s, 1, k - 1)
           u    == SubSeq(s, k + 1, Len(s))
<1>1. Len(s) \in Nat
  OBVIOUS
<1>2. /\ t \in Seq(Rows) /\ u \in Seq(Rows) /\ Len(t) = k - 1 /\ Len(u) = Len(s) - k
      /\ \A i \in 1..(k - 1) : t[i] = s[i]
      /\ \A i \in 1..(Len(s) - k) : u[i] = s[k + i]
  BY <1>1
<1>3. kept = t \o u
  BY DEF RemoveAt
<1> HIDE DEF kept, t, u
<1>4. /\ kept \in Seq(Rows) /\ Len(kept) = Len(t) + Len(u)
      /\ \A i \in 1..(Len(t) + Len(u)) : kept[i] = IF i <= Len(t) THEN t[i] ELSE u[i - Len(t)]
  BY <1>2, <1>3, ConcatProperties
<1>5. Len(t) + Len(u) = Len(s) - 1
  BY <1>1, <1>2
<1>6. \A i \in 1..(k - 1) : i \in 1..(Len(s) - 1) /\ i <= Len(t)
  BY <1>1, <1>2
<1>7. \A i \in k..(Len(s) - 1) : /\ i \in 1..(Len(s) - 1) /\ ~(i <= Len(t))
                                 /\ i - Len(t) \in 1..(Len(s) - k) /\ k + (i - Len(t)) = i + 1
  BY <1>1, <1>2
<1>8. DOMAIN kept = 1..(Len(s) - 1)
  BY <1>4, <1>5
<1>9. /\ kept \in Seq(Rows) /\ DOMAIN kept = 1..(Len(s) - 1)
      /\ \A i \in 1..(k - 1) : kept[i] = s[i]
      /\ \A i \in k..(Len(s) - 1) : kept[i] = s[i + 1]
  BY <1>2, <1>4, <1>5, <1>6, <1>7, <1>8
<1> QED
  BY <1>9 DEF kept

\* The auction is the key of its row.
OneRow(s) == \A i, j \in DOMAIN s : s[i].auction = s[j].auction => i = j

LEMMA RecordedTypes ==
    ASSUME TypeOK, NEW a \in Auctions
    PROVE  /\ Recorded(a) \in Seq(Rows)
           /\ \A row \in Range(Recorded(a)) : row \in Range(db) \/ row = [auction |-> a, winner |-> Null]
           /\ \A row \in Range(db) : row.auction = a \/ row \in Range(Recorded(a))
           /\ OneRow(db) => OneRow(Recorded(a))
<1> DEFINE rows == {i \in DOMAIN db : db[i].auction = a}
           new  == [auction |-> a, winner |-> Null]
           kept == IF rows = {} THEN db ELSE RemoveAt(db, CHOOSE i \in rows : TRUE)
<1>1. new \in Rows
  BY DEF Rows
<1>2. db \in Seq(Rows) /\ Len(db) \in Nat /\ DOMAIN db = 1..Len(db)
  BY DEF TypeOK
<1>3. Recorded(a) = Append(kept, new)
  BY DEF Recorded
<1>4. /\ kept \in Seq(Rows)
      /\ Range(kept) \subseteq Range(db)
      /\ \A row \in Range(db) : row.auction = a \/ row \in Range(kept)
      /\ OneRow(db) => OneRow(kept) /\ \A i \in DOMAIN kept : kept[i].auction # a
  <2>1. CASE rows = {}
    BY <1>2, <2>1
  <2>2. CASE rows # {}
    <3>1. PICK k \in rows : kept = RemoveAt(db, k)
      BY <2>2
    <3>2. k \in 1..Len(db) /\ db[k].auction = a
      BY <1>2
    <3> HIDE DEF kept, rows
    <3>3. /\ kept \in Seq(Rows) /\ DOMAIN kept = 1..(Len(db) - 1)
          /\ \A i \in 1..(k - 1) : kept[i] = db[i]
          /\ \A i \in k..(Len(db) - 1) : kept[i] = db[i + 1]
      BY <1>2, <3>1, <3>2, WithoutRow
    <3>4. ASSUME NEW i \in 1..Len(db), i # k PROVE \E j \in DOMAIN kept : kept[j] = db[i]
      <4>1. CASE i < k
        <5>1. i \in 1..(k - 1) /\ i \in 1..(Len(db) - 1)
          BY <1>2, <3>2, <4>1
        <5> QED
          BY <3>3, <5>1
      <4>2. CASE i > k
        <5>1. i - 1 \in k..(Len(db) - 1) /\ i - 1 \in 1..(Len(db) - 1) /\ (i - 1) + 1 = i
          BY <1>2, <3>2, <4>2
        <5> QED
          BY <3>3, <5>1
      <4> QED
        BY <3>2, <3>4, <4>1, <4>2
    <3> DEFINE from(i) == IF i < k THEN i ELSE i + 1
    <3>5. \A i \in DOMAIN kept : from(i) \in DOMAIN db /\ from(i) # k /\ kept[i] = db[from(i)]
      <4> SUFFICES ASSUME NEW i \in DOMAIN kept
                   PROVE  from(i) \in DOMAIN db /\ from(i) # k /\ kept[i] = db[from(i)]
        OBVIOUS
      <4>1. (i < k /\ i \in 1..(k - 1)) \/ (~(i < k) /\ i \in k..(Len(db) - 1))
        BY <1>2, <3>2, <3>3
      <4>2. from(i) \in DOMAIN db /\ from(i) # k
        BY <1>2, <3>2, <3>3
      <4> QED
        BY <3>3, <4>1, <4>2
    <3>6. \A i, j \in DOMAIN kept : from(i) = from(j) => i = j
      BY <1>2, <3>2, <3>3
    <3> HIDE DEF from
    <3>7. OneRow(db) => OneRow(kept) /\ \A i \in DOMAIN kept : kept[i].auction # a
      BY <1>2, <3>2, <3>5, <3>6 DEF OneRow
    <3>8. \A row \in Range(db) : row.auction = a \/ row \in Range(kept)
      BY <1>2, <3>2, <3>4 DEF Range
    <3>9. Range(kept) \subseteq Range(db)
      BY <3>5 DEF Range
    <3> QED
      BY <3>3, <3>7, <3>8, <3>9
  <2> QED
    BY <2>1, <2>2
<1> HIDE DEF kept, new
<1>5. /\ Append(kept, new) \in Seq(Rows) /\ DOMAIN Append(kept, new) = 1..(Len(kept) + 1) /\ Len(kept) \in Nat
      /\ DOMAIN kept = 1..Len(kept)
      /\ Append(kept, new)[Len(kept) + 1] = new /\ \A i \in 1..Len(kept) : Append(kept, new)[i] = kept[i]
  BY <1>1, <1>4
<1>6. Recorded(a) \in Seq(Rows) /\ Range(Recorded(a)) = Range(kept) \union {new}
  BY <1>3, <1>5 DEF Range
<1>7. ASSUME OneRow(db) PROVE OneRow(Recorded(a))
  <2>1. new.auction = a
    BY DEF new
  <2> QED
    BY <1>3, <1>4, <1>5, <1>7, <2>1 DEF OneRow
<1> QED
  BY <1>4, <1>6, <1>7 DEF new

\* The rows with a winner, each at its place.
LEMMA SettlementsTypes ==
    ASSUME TypeOK
    PROVE  /\ Settlements \in Seq(DecidedRows)
           /\ \A i \in Won : \E k \in 1..Len(Settlements) : Settlements[k] = db[i]
           /\ Skipped \in 0..Len(Settlements)
<1> DEFINE n == Cardinality(Won)
           f == [i \in Won |-> Place(i)]
           B(i) == {j \in Won : j <= i}
<1>1. Won \subseteq 1..Len(db) /\ Len(db) \in Nat
  BY DEF Won, TypeOK
<1>2. IsFiniteSet(Won) /\ n \in Nat
  <2>1. IsFiniteSet(1..Len(db))
    BY <1>1, FS_Interval
  <2>2. IsFiniteSet(Won)
    BY <1>1, <2>1, FS_Subset
  <2> QED
    BY <2>2, FS_CardinalityType
<1>3. IsFiniteSet(1..n) /\ Cardinality(1..n) = n
  BY <1>2, FS_Interval
<1>4. \A i \in Won : IsFiniteSet(B(i)) /\ Place(i) = Cardinality(B(i)) /\ Place(i) \in 1..n
  <2> SUFFICES ASSUME NEW i \in Won
               PROVE  IsFiniteSet(B(i)) /\ Place(i) = Cardinality(B(i)) /\ Place(i) \in 1..n
    OBVIOUS
  <2>1. B(i) \in SUBSET Won /\ i \in B(i)
    BY <1>1
  <2>2. IsFiniteSet(B(i)) /\ Cardinality(B(i)) <= n
    BY <1>2, <2>1, FS_Subset
  <2>3. Cardinality(B(i)) \in Nat /\ Cardinality(B(i)) # 0
    BY <2>1, <2>2, FS_CardinalityType, FS_EmptySet
  <2>4. Place(i) = Cardinality(B(i))
    BY DEF Place
  <2> QED
    BY <1>2, <2>2, <2>3, <2>4
<1>5. ASSUME NEW i \in Won, NEW j \in Won, i < j PROVE Place(i) # Place(j)
  <2>1. B(i) \in SUBSET B(j) /\ j \in B(j) /\ j \notin B(i)
    <3>1. \A k \in Won : k \in Int
      BY <1>1
    <3>2. \A k \in Won : k <= i => k <= j
      BY <1>5, <3>1
    <3>3. j <= j /\ ~(j <= i)
      BY <1>5, <3>1
    <3> QED
      BY <3>2, <3>3
  <2>2. Cardinality(B(j)) = Cardinality(B(i)) => B(j) = B(i)
    BY <1>4, <2>1, FS_Subset
  <2> QED
    BY <1>4, <2>1, <2>2
<1>6. \A i, j \in Won : Place(i) = Place(j) => i = j
  BY <1>1, <1>5
<1>7. f \in Surjection(Won, 1..n)
  <2>1. f \in Injection(Won, 1..n)
    BY <1>4, <1>6 DEF Injection, IsInjective
  <2> QED
    BY <1>2, <1>3, <2>1, FS_Injection
<1>8. \A k \in 1..n : (CHOOSE i \in Won : Place(i) = k) \in Won
  BY <1>7 DEF Surjection
<1>9. \A i \in Won : (CHOOSE j \in Won : Place(j) = Place(i)) = i
  BY <1>6
<1>10. Settlements = [k \in 1..n |-> db[CHOOSE i \in Won : Place(i) = k]]
  BY DEF Settlements
<1> HIDE DEF n
<1>11. \A i \in Won : db[i] \in DecidedRows
  <2>1. \A i \in 1..Len(db) : db[i] \in Rows
    BY DEF TypeOK
  <2>2. \A row \in Rows : row.winner # Null => row \in DecidedRows
    BY DEF Rows, DecidedRows
  <2> QED
    BY <1>1, <2>1, <2>2 DEF Won
<1>12. Settlements \in [1..n -> DecidedRows]
  BY <1>8, <1>10, <1>11
<1>13. Settlements \in Seq(DecidedRows) /\ Len(Settlements) = n
  BY <1>2, <1>12
<1>14. \A i \in Won : Place(i) \in 1..n /\ Settlements[Place(i)] = db[i]
  BY <1>4, <1>9, <1>10
<1>15. Skipped \in 0..Len(Settlements)
  BY <1>2, <1>13, Constants DEF Skipped
<1> QED
  BY <1>13, <1>14, <1>15

\* Copy 0 marks what came from the database.
LEMMA HistoryTypes ==
    ASSUME TypeOK
    PROVE  /\ History \in Seq(Entries)
           /\ \A r \in Requests : Times(r, History) = 0
           /\ \A i \in (Skipped + 1)..Len(Settlements) :
                \E e \in Range(History) : e.req[1] = Settlements[i].auction /\ e.winner = Settlements[i].winner
<1> DEFINE n == Len(Settlements)
           m == Skipped
           s == SubSeq(Settlements, m + 1, n)
<1>1. /\ Settlements \in Seq(DecidedRows) /\ n \in Nat /\ m \in 0..n
      /\ \A i \in 1..n : Settlements[i] \in DecidedRows
  BY SettlementsTypes
<1>2. /\ s \in Seq(DecidedRows) /\ Len(s) = n - m
      /\ \A i \in 1..(n - m) : s[i] = Settlements[m + i]
  BY <1>1, SubSeqProperties
<1>3. History = Loaded(s)
  BY DEF History
<1> HIDE DEF s, n, m
<1>4. History = [i \in 1..(n - m) |-> [req |-> <<s[i].auction, 0>>, winner |-> s[i].winner]]
  BY <1>2, <1>3 DEF Loaded
<1>5. \A i \in 1..(n - m) : History[i] \in Entries /\ History[i].req[2] = 0
  <2>1. \A i \in 1..(n - m) : s[i] \in DecidedRows
    BY <1>2
  <2>2. 0 \in 0..Copies
    BY Constants
  <2> QED
    BY <1>4, <2>1, <2>2 DEF Entries, DecidedRows
<1>6. History \in [1..(n - m) -> Entries] /\ DOMAIN History = 1..(n - m)
  BY <1>4, <1>5
<1>7. History \in Seq(Entries)
  BY <1>1, <1>6
<1>8. ASSUME NEW r \in Requests PROVE Times(r, History) = 0
  <2>1. r[2] >= 1 /\ r[2] \in Nat
    BY Constants DEF Requests
  <2>2. Places(r, History) = {}
    BY <1>5, <1>6, <2>1 DEF Places
  <2> QED
    BY <2>2, FS_EmptySet DEF Times, Places
<1>9. ASSUME NEW i \in (m + 1)..n
      PROVE  \E e \in Range(History) : e.req[1] = Settlements[i].auction /\ e.winner = Settlements[i].winner
  <2>1. i - m \in 1..(n - m) /\ m + (i - m) = i
    BY <1>1
  <2>2. s[i - m] = Settlements[i]
    BY <1>2, <2>1
  <2>3. History[i - m].req[1] = Settlements[i].auction /\ History[i - m].winner = Settlements[i].winner
    BY <1>4, <2>1, <2>2
  <2> QED
    BY <1>6, <2>1, <2>3 DEF Range
<1> QED
  BY <1>7, <1>8, <1>9 DEF m, n

LEMMA InitTypes == Init => TypeOK
BY DEF Init, TypeOK, Fates

LEMMA TypesStep == ASSUME TypeOK, [Next]_vars PROVE TypeOK'
<1> USE DEF TypeOK
<1>1. CASE UNCHANGED vars
  BY <1>1 DEF vars
<1>2. ASSUME NEW r \in Requests, Solve(r) PROVE TypeOK'
  <2>1. fate' \in [Requests -> Fates]
    BY <1>2 DEF Solve, Fates
  <2> QED
    BY <1>2, <2>1 DEF Solve
<1>3. ASSUME NEW r \in Requests, Record(r) PROVE TypeOK'
  <2>1. db' \in Seq(Rows)
    BY <1>3, RequestTypes, RecordedTypes DEF Record
  <2> QED
    BY <1>3, <2>1 DEF Record
<1>4. ASSUME NEW r \in Requests, Enqueue(r) PROVE TypeOK'
  <2> DEFINE full == Len(queue) > QueueCap
             q    == IF full THEN Tail(queue) ELSE queue
  <2>1. queue' \in Seq(Lookups)
    <3>1. full => queue # <<>>
      BY TrackerAssumption
    <3>2. q \in Seq(Lookups)
      BY <3>1
    <3>3. Fresh(r) \in Lookups
      BY RequestTypes
    <3>4. queue' = Append(q, Fresh(r))
      BY <1>4 DEF Enqueue
    <3> HIDE DEF q
    <3> QED
      BY <3>2, <3>3, <3>4
  <2>2. fate' \in [Requests -> Fates]
    <3>1. fate' \in {fate, [fate EXCEPT ![Head(queue).req] = "evicted"]}
      BY <1>4 DEF Enqueue
    <3> QED
      BY <3>1 DEF Fates
  <2> QED
    BY <1>4, <2>1, <2>2 DEF Enqueue
<1>5. CASE Drain
  <2>1. PICK n \in 1..Len(queue) : batch' = SubSeq(queue, 1, n) /\ queue' = SubSeq(queue, n + 1, Len(queue))
    BY <1>5 DEF Drain
  <2>2. batch' \in Seq(Lookups) /\ queue' \in Seq(Lookups)
    BY <2>1, TimesSplit
  <2> QED
    BY <1>5, <2>2 DEF Drain
<1>6. CASE Ask
  BY <1>6 DEF Ask
<1>7. CASE AnswerSome \/ AnswerNone
  <2>1. PICK w \in Winners : Write(w) /\ poll = "asked"
    BY <1>7 DEF AnswerSome, AnswerNone, Winners
  <2>2. Updated(This[1], w) \in Seq(Rows)
    BY <2>1, UpdatedTypes
  <2>3. db' \in Seq(Rows)
    BY <2>1, <2>2 DEF Write
  <2> QED
    BY <2>1, <2>3 DEF Write
<1>8. CASE Requeue
  <2>1. This \in Requests /\ Tail(batch) \in Seq(Lookups)
    BY <1>8, ThisTypes DEF Requeue
  <2>2. [Fresh(This) EXCEPT !.age = loopAge, !.retries = 1] \in Lookups
    BY <2>1 DEF Fresh, Lookups
  <2>3. queue' \in Seq(Lookups)
    BY <1>8, <2>2 DEF Requeue
  <2> QED
    BY <1>8, <2>1, <2>3 DEF Requeue
<1>9. CASE AnswerError
  <2>1. This \in Requests /\ Tail(batch) \in Seq(Lookups)
    BY <1>9, ThisTypes DEF AnswerError
  <2>2. fate' \in [Requests -> Fates]
    BY <1>9 DEF AnswerError, Fates
  <2> QED
    BY <1>9, <2>1, <2>2 DEF AnswerError
<1>10. CASE Push
  <2> DEFINE kept == SubSeq(results, Excess + 1, Len(results))
             gone == SubSeq(results, 1, Excess)
  <2>1. This \in Requests /\ Tail(batch) \in Seq(Lookups)
    BY <1>10, ThisTypes DEF Push, Winners
  <2>2. [req |-> This, winner |-> poll] \in Entries
    BY <1>10, <2>1, RequestTypes DEF Push, Entries
  <2>3. kept \in Seq(Entries) /\ gone \in Seq(Entries)
    BY ExcessTypes, TimesSplit
  <2> HIDE DEF kept, gone
  <2>4. results' = Append(kept, [req |-> This, winner |-> poll])
    BY <1>10 DEF Push, kept
  <2>5. fate' \in [Requests -> Fates]
    BY <1>10 DEF Push, Fates
  <2>6. forgotten' = forgotten \union {e.req[1] : e \in Range(gone)}
    BY <1>10 DEF Push, gone
  <2>7. \A e \in Range(gone) : e \in Entries
    BY <2>3 DEF Range
  <2>8. \A e \in Entries : e.req[1] \in Auctions
    BY DEF Entries
  <2>9. results' \in Seq(Entries) /\ forgotten' \subseteq Auctions
    BY <2>2, <2>3, <2>4, <2>6, <2>7, <2>8
  <2> QED
    BY <1>10, <2>1, <2>5, <2>9 DEF Push
<1>11. CASE Restart
  <2>1. results' \in Seq(Entries)
    <3>1. History \in Seq(Entries) /\ <<>> \in Seq(Entries)
      BY HistoryTypes
    <3> QED
      BY <1>11, <3>1 DEF Restart
  <2>2. forgotten' \subseteq Auctions
    <3>1. \A i \in 1..Skipped : Settlements[i] \in DecidedRows
      BY SettlementsTypes
    <3>2. \A i \in Won : db[i] \in Rows
      BY DEF Won
    <3> QED
      BY <1>11, <3>1, <3>2 DEF Restart, DecidedRows, Rows
  <2>3. fate' \in [Requests -> Fates]
    BY <1>11 DEF Restart, Fates
  <2> QED
    BY <1>11, <2>1, <2>2, <2>3 DEF Restart
<1>12. CASE Tick
  <2>1. queue' \in Seq(Lookups) /\ batch' \in Seq(Lookups) /\ (batch # <<>> => batch' # <<>>)
    BY <1>12, AgedTypes DEF Tick
  <2>2. loopAge' \in Nat
    BY <1>12, Constants DEF Tick, Lesser
  <2> QED
    BY <1>12, <2>1, <2>2 DEF Tick
<1>13. ASSUME NEW a \in Auctions, Settle(a) PROVE TypeOK'
  BY <1>13 DEF Settle
<1> QED
  BY <1>1, <1>2, <1>3, <1>4, <1>5, <1>6, <1>7, <1>8, <1>9, <1>10, <1>11, <1>12, <1>13 DEF Next, Handlers, Poller

\* The queue, the batch, the rows and the results hold what they should, and
\* the poll task never waits for an answer with no lookup at hand.
THEOREM TypeCorrect == Spec => []TypeOK
BY InitTypes, TypesStep, PTL DEF Spec

-----------------------------------------------------------------------------
(* OneLookup: every step moves a lookup, drops it together with its fate,  *)
(* or begins one.                                                          *)

Waiting(r) == IF r \in enqueuing THEN 1 ELSE 0

Tracked(r) == IF fate[r] = "tracked" THEN 1 ELSE 0

LEMMA Counts ==
    ASSUME TypeOK, NEW r
    PROVE  /\ Times(r, queue) \in Nat /\ Times(r, batch) \in Nat /\ Times(r, results) \in Nat
           /\ Waiting(r) \in {0, 1}
           /\ Times(r, queue) = 0 \/ \E i \in DOMAIN queue : queue[i].req = r
<1>1. queue \in Seq(Lookups) /\ batch \in Seq(Lookups) /\ results \in Seq(Entries)
  BY DEF TypeOK
<1>2. Times(r, queue) \in Nat /\ (Times(r, queue) = 0 \/ \E i \in DOMAIN queue : queue[i].req = r)
  BY <1>1, PlacesFinite
<1>3. Times(r, batch) \in Nat /\ Times(r, results) \in Nat
  BY <1>1, PlacesFinite
<1> QED
  BY <1>2, <1>3 DEF Waiting

LEMMA OneLookupUse ==
    ASSUME OneLookup, NEW r \in Requests
    PROVE  Times(r, queue) + Times(r, batch) + Times(r, results) + Waiting(r) = Tracked(r)
BY DEF OneLookup, Waiting, Tracked

LEMMA OneLookupInit == Init => OneLookup
<1> SUFFICES ASSUME Init PROVE OneLookup
  OBVIOUS
<1>1. \A r \in Requests : Times(r, queue) = 0 /\ Times(r, batch) = 0 /\ Times(r, results) = 0
  BY TimesEmpty DEF Init
<1> QED
  BY <1>1 DEF Init, OneLookup

\* The queue of one request among those that an enqueued lookup may evict.
LEMMA EnqueueStep ==
    ASSUME TypeOK, OneLookup, NEW q \in Requests, Enqueue(q), NEW r \in Requests
    PROVE  Times(r, queue') + Times(r, batch') + Times(r, results') + Waiting(r)' = Tracked(r)'
<1> DEFINE full == Len(queue) > QueueCap
           kept == IF full THEN Tail(queue) ELSE queue
           gone == full /\ Head(queue).req = r
<1>1. /\ queue \in Seq(Lookups) /\ fate \in [Requests -> Fates] /\ (full => queue # <<>>)
      /\ Fresh(q) \in Lookups /\ Fresh(q).req = q
  BY TrackerAssumption, RequestTypes DEF TypeOK, Fresh
<1>2. full => Head(queue).req \in Requests
  <2>1. full => Head(queue) \in Lookups
    BY <1>1
  <2> QED
    BY <2>1 DEF Lookups
<1>3. kept \in Seq(Lookups)
  BY <1>1
<1>4. Times(r, kept) = Times(r, queue) - IF gone THEN 1 ELSE 0
  <2>1. CASE full
    BY <1>1, <2>1, TimesTail
  <2>2. CASE ~full
    BY <1>1, <2>2, Counts
  <2> QED
    BY <2>1, <2>2
<1>5. queue' = Append(kept, Fresh(q)) /\ enqueuing' = enqueuing \ {q} /\ q \in enqueuing
      /\ batch' = batch /\ results' = results
      /\ fate' = IF full THEN [fate EXCEPT ![Head(queue).req] = "evicted"] ELSE fate
  BY DEF Enqueue
<1> HIDE DEF kept
<1>6. Times(r, Append(kept, Fresh(q))) = Times(r, kept) + IF q = r THEN 1 ELSE 0
  BY <1>1, <1>3, TimesAppend
<1>7. Waiting(r)' = Waiting(r) - IF q = r THEN 1 ELSE 0
  BY <1>5 DEF Waiting
<1>8. fate'[r] = IF gone THEN "evicted" ELSE fate[r]
  <2>1. CASE full
    <3>1. fate' = [fate EXCEPT ![Head(queue).req] = "evicted"] /\ Head(queue).req \in Requests
      BY <1>2, <1>5, <2>1
    <3> QED
      BY <1>1, <2>1, <3>1
  <2>2. CASE ~full
    BY <1>5, <2>2
  <2> QED
    BY <2>1, <2>2
<1>9. gone => Times(r, kept) \in Nat
  BY <1>3, PlacesFinite
<1>10. Tracked(r)' = Tracked(r) - IF gone THEN 1 ELSE 0
  <2>1. CASE gone
    <3>1. Times(r, queue) >= 1
      BY <1>4, <1>9, <2>1, Counts
    <3>2. Tracked(r) = 1
      BY <3>1, OneLookupUse, Counts DEF Tracked
    <3> QED
      BY <1>8, <2>1, <3>2 DEF Tracked
  <2>2. CASE ~gone
    BY <1>8, <2>2 DEF Tracked
  <2> QED
    BY <2>1, <2>2
<1>11. Times(r, queue') = Times(r, kept) + IF q = r THEN 1 ELSE 0
  BY <1>5, <1>6
<1>12. Times(r, batch') = Times(r, batch) /\ Times(r, results') = Times(r, results)
  BY <1>5
<1>13. Times(r, queue') = Times(r, queue) + (IF q = r THEN 1 ELSE 0) - (IF gone THEN 1 ELSE 0)
  BY <1>4, <1>11, Counts
<1>14. Times(r, queue) + Times(r, batch) + Times(r, results) + Waiting(r) = Tracked(r)
  BY OneLookupUse
<1> HIDE DEF gone
<1> QED
  BY <1>7, <1>10, <1>12, <1>13, <1>14, Counts

\* What the answer adds to the results, and what it pushes out of them.
LEMMA PushCounts ==
    ASSUME TypeOK, OneLookup, Push, NEW r \in Requests
    PROVE  Times(r, queue') + Times(r, batch') + Times(r, results') + Waiting(r)' = Tracked(r)'
<1> DEFINE kept == SubSeq(results, Excess + 1, Len(results))
           gone == SubSeq(results, 1, Excess)
           one  == IF This = r THEN 1 ELSE 0
<1>1. This \in Requests /\ batch \in Seq(Lookups) /\ batch # <<>> /\ This = Head(batch).req
      /\ results \in Seq(Entries)
  BY ThisTypes DEF Push, Winners, TypeOK
<1>2. [req |-> This, winner |-> poll] \in Entries
  BY <1>1, RequestTypes DEF Push, Entries
<1>3. /\ kept \in Seq(Entries) /\ gone \in Seq(Entries)
      /\ Times(r, results) = Times(r, gone) + Times(r, kept)
  BY <1>1, ExcessTypes, TimesSplit
<1>4. /\ results' = Append(kept, [req |-> This, winner |-> poll])
      /\ fate' = [x \in Requests |-> IF \E e \in Range(gone) : e.req = x THEN "trimmed" ELSE fate[x]]
      /\ batch' = Tail(batch) /\ queue' = queue /\ enqueuing' = enqueuing
  BY DEF Push
<1> HIDE DEF kept, gone
<1>5. /\ Times(r, kept) \in Nat /\ Times(r, gone) \in Nat
      /\ Times(r, gone) = 0 <=> \A i \in DOMAIN gone : gone[i].req # r
  BY <1>3, PlacesFinite
<1>6. Times(r, results') = Times(r, kept) + one
  <2>1. Times(r, Append(kept, [req |-> This, winner |-> poll])) = Times(r, kept) + one
    BY <1>2, <1>3, TimesAppend
  <2> QED
    BY <1>4, <2>1
<1>7. Times(r, batch') = Times(r, batch) - one
  <2>1. Times(r, Tail(batch)) = Times(r, batch) - one
    BY <1>1, TimesTail
  <2> QED
    BY <1>4, <2>1
<1>8. Times(r, queue') = Times(r, queue) /\ Waiting(r)' = Waiting(r)
  BY <1>4 DEF Waiting
<1>9. fate'[r] = IF Times(r, gone) = 0 THEN fate[r] ELSE "trimmed"
  BY <1>4, <1>5 DEF Range
<1>10. Times(r, queue) + Times(r, batch) + Times(r, results) + Waiting(r) = Tracked(r)
  BY OneLookupUse
<1>11. Tracked(r)' = Tracked(r) - Times(r, gone)
  <2>1. CASE Times(r, gone) = 0
    BY <1>9, <2>1 DEF Tracked
  <2>2. CASE Times(r, gone) # 0
    <3>1. Times(r, gone) = 1 /\ Tracked(r) = 1
      BY <1>3, <1>5, <1>10, <2>2, Counts DEF Tracked
    <3> QED
      BY <1>9, <3>1 DEF Tracked
  <2> QED
    BY <2>1, <2>2
<1>12. one \in {0, 1}
  OBVIOUS
<1> HIDE DEF one
<1>13. Times(r, queue) \in Nat /\ Times(r, batch) \in Nat /\ Waiting(r) \in {0, 1}
  BY Counts
<1>14. Times(r, queue) + Times(r, batch) + (Times(r, gone) + Times(r, kept)) + Waiting(r) = Tracked(r)
  BY <1>3, <1>10
<1>15. Times(r, queue) + (Times(r, batch) - one) + (Times(r, kept) + one) + Waiting(r) = Tracked(r) - Times(r, gone)
  BY <1>5, <1>12, <1>13, <1>14
<1> QED
  BY <1>6, <1>7, <1>8, <1>11, <1>15

LEMMA OneLookupStep == ASSUME TypeOK, OneLookup, [Next]_vars PROVE OneLookup'
<1> SUFFICES ASSUME NEW r \in Requests
             PROVE  Times(r, queue') + Times(r, batch') + Times(r, results') + Waiting(r)' = Tracked(r)'
  BY DEF OneLookup, Waiting, Tracked
<1>0. /\ queue \in Seq(Lookups) /\ batch \in Seq(Lookups) /\ results \in Seq(Entries)
      /\ fate \in [Requests -> Fates]
  BY DEF TypeOK
<1>1. /\ Times(r, queue) + Times(r, batch) + Times(r, results) + Waiting(r) = Tracked(r)
      /\ Times(r, queue) \in Nat /\ Times(r, batch) \in Nat /\ Times(r, results) \in Nat /\ Waiting(r) \in {0, 1}
  BY OneLookupUse, Counts
<1>2. CASE UNCHANGED <<queue, batch, results, enqueuing, fate>>
  BY <1>1, <1>2 DEF Waiting, Tracked
<1>3. ASSUME NEW q \in Requests, Solve(q)
      PROVE  Times(r, queue') + Times(r, batch') + Times(r, results') + Waiting(r)' = Tracked(r)'
  <2>1. UNCHANGED <<queue, batch, results>> /\ enqueuing' = enqueuing \union {q}
        /\ fate' = [fate EXCEPT ![q] = "tracked"] /\ fate[q] = "unsent"
    BY <1>3 DEF Solve
  <2>2. CASE q = r
    <3>1. Tracked(r) = 0 /\ Tracked(r)' = 1 /\ Waiting(r)' = 1
      BY <1>0, <2>1, <2>2 DEF Tracked, Waiting
    <3>2. \A a, b, c \in Nat, d \in {0, 1} : a + b + c + d = 0 => a = 0 /\ b = 0 /\ c = 0
      OBVIOUS
    <3>3. Times(r, queue) = 0 /\ Times(r, batch) = 0 /\ Times(r, results) = 0
      <4>1. Times(r, queue) + Times(r, batch) + Times(r, results) + Waiting(r) = 0
        BY <1>1, <3>1
      <4> QED
        BY <1>1, <3>2, <4>1, Zenon
    <3>4. Times(r, queue') = 0 /\ Times(r, batch') = 0 /\ Times(r, results') = 0
      BY <2>1, <3>3
    <3> QED
      BY <3>1, <3>4
  <2>3. CASE q # r
    <3>1. Tracked(r)' = Tracked(r) /\ Waiting(r)' = Waiting(r)
      BY <1>0, <2>1, <2>3 DEF Tracked, Waiting
    <3> QED
      BY <1>1, <2>1, <3>1
  <2> QED
    BY <2>2, <2>3
<1>4. ASSUME NEW q \in Requests, Enqueue(q)
      PROVE  Times(r, queue') + Times(r, batch') + Times(r, results') + Waiting(r)' = Tracked(r)'
  BY <1>4, EnqueueStep
<1>5. CASE Drain
  <2>1. PICK n \in 1..Len(queue) : batch' = SubSeq(queue, 1, n) /\ queue' = SubSeq(queue, n + 1, Len(queue))
    BY <1>5 DEF Drain
  <2>2. Times(r, queue) = Times(r, batch') + Times(r, queue') /\ batch' \in Seq(Lookups) /\ queue' \in Seq(Lookups)
    BY <1>0, <2>1, TimesSplit
  <2>3. Times(r, batch') \in Nat /\ Times(r, queue') \in Nat
    BY <2>2, PlacesFinite
  <2>4. batch = <<>> /\ UNCHANGED <<results, enqueuing, fate>>
    BY <1>5 DEF Drain
  <2>5. Times(r, batch) = 0 /\ Times(r, results') = Times(r, results) /\ Waiting(r)' = Waiting(r)
        /\ Tracked(r)' = Tracked(r)
    BY <2>4, TimesEmpty DEF Waiting, Tracked
  <2> QED
    BY <1>1, <2>2, <2>3, <2>5
<1>6. CASE Requeue
  <2> DEFINE l == [Fresh(This) EXCEPT !.age = loopAge, !.retries = 1]
             one == IF This = r THEN 1 ELSE 0
  <2>1. This \in Requests /\ batch # <<>> /\ This = Head(batch).req
    BY <1>6, ThisTypes DEF Requeue, TypeOK
  <2>2. l \in Lookups /\ l.req = This
    BY <2>1 DEF Fresh, Lookups, TypeOK
  <2>3. queue' = Append(queue, l) /\ batch' = Tail(batch) /\ UNCHANGED <<results, enqueuing, fate>>
    BY <1>6 DEF Requeue
  <2> HIDE DEF l
  <2>4. Times(r, Append(queue, l)) = Times(r, queue) + one
    BY <1>0, <2>2, TimesAppend
  <2>5. Times(r, Tail(batch)) = Times(r, batch) - one
    BY <1>0, <2>1, TimesTail
  <2>6. one \in {0, 1}
    OBVIOUS
  <2>7. Times(r, results') = Times(r, results) /\ Waiting(r)' = Waiting(r) /\ Tracked(r)' = Tracked(r)
    BY <2>3 DEF Waiting, Tracked
  <2>8. Times(r, queue') = Times(r, queue) + one /\ Times(r, batch') = Times(r, batch) - one
    BY <2>3, <2>4, <2>5
  <2> HIDE DEF one
  <2> QED
    BY <1>1, <2>6, <2>7, <2>8
<1>7. CASE AnswerError
  <2> DEFINE one == IF This = r THEN 1 ELSE 0
  <2>1. This \in Requests /\ batch # <<>> /\ This = Head(batch).req
    BY <1>7, ThisTypes DEF AnswerError, TypeOK
  <2>2. batch' = Tail(batch) /\ fate' = [fate EXCEPT ![This] = "failed"] /\ UNCHANGED <<queue, results, enqueuing>>
    BY <1>7 DEF AnswerError
  <2>3. Times(r, Tail(batch)) = Times(r, batch) - one /\ Tail(batch) \in Seq(Lookups)
    BY <1>0, <2>1, TimesTail
  <2>4. Times(r, Tail(batch)) \in Nat
    BY <2>3, PlacesFinite
  <2>5. Tracked(r)' = Tracked(r) - one
    <3>1. CASE This = r
      <4>1. Tracked(r) = 1
        BY <1>1, <2>3, <2>4, <3>1 DEF Tracked
      <4> QED
        BY <1>0, <2>2, <3>1, <4>1 DEF Tracked
    <3>2. CASE This # r
      BY <1>0, <2>1, <2>2, <3>2 DEF Tracked
    <3> QED
      BY <3>1, <3>2
  <2>6. Times(r, queue') = Times(r, queue) /\ Times(r, results') = Times(r, results) /\ Waiting(r)' = Waiting(r)
        /\ Times(r, batch') = Times(r, batch) - one
    BY <2>2, <2>3 DEF Waiting
  <2>7. one \in {0, 1}
    OBVIOUS
  <2> HIDE DEF one
  <2> QED
    BY <1>1, <2>5, <2>6, <2>7
<1>8. CASE Push
  BY <1>8, PushCounts
<1>9. CASE Restart
  <2>1. /\ queue' = <<>> /\ batch' = <<>> /\ enqueuing' = {} /\ fate'[r] # "tracked"
        /\ results' \in {History, <<>>}
    BY <1>9 DEF Restart
  <2>2. Times(r, queue') = 0 /\ Times(r, batch') = 0 /\ Times(r, results') = 0
    BY <2>1, TimesEmpty, HistoryTypes
  <2>3. Waiting(r)' = 0 /\ Tracked(r)' = 0
    BY <2>1 DEF Waiting, Tracked
  <2> QED
    BY <2>2, <2>3
<1>10. CASE Tick
  <2>1. queue' = Aged(queue) /\ batch' = Aged(batch) /\ UNCHANGED <<results, enqueuing, fate>>
    BY <1>10 DEF Tick
  <2>2. Times(r, Aged(queue)) = Times(r, queue) /\ Times(r, Aged(batch)) = Times(r, batch)
    BY <1>0, AgedTypes
  <2>3. Times(r, queue') = Times(r, queue) /\ Times(r, batch') = Times(r, batch)
        /\ Times(r, results') = Times(r, results) /\ Waiting(r)' = Waiting(r) /\ Tracked(r)' = Tracked(r)
    BY <2>1, <2>2 DEF Waiting, Tracked
  <2> QED
    BY <1>1, <2>3
<1>11. ASSUME \/ \E q \in Requests : Record(q)
              \/ Ask \/ AnswerSome \/ AnswerNone \/ \E a \in Auctions : Settle(a)
              \/ UNCHANGED vars
       PROVE  UNCHANGED <<queue, batch, results, enqueuing, fate>>
  BY <1>11 DEF Record, Ask, AnswerSome, AnswerNone, Write, Settle, vars
<1> QED
  BY <1>2, <1>3, <1>4, <1>5, <1>6, <1>7, <1>8, <1>9, <1>10, <1>11 DEF Next, Handlers, Poller

\* For any caps, delays and crashes, a solved request has exactly one lookup
\* until it is evicted, dropped, lost or trimmed (queue_lookup, run_poll_task).
THEOREM OneLookupHolds == Spec => []OneLookup
BY OneLookupInit, OneLookupStep, TypeCorrect, PTL DEF Spec

-----------------------------------------------------------------------------
(* The database and the results.                                           *)

Known(row) ==
    \/ row.winner = Null
    \/ row.auction \in forgotten
    \/ \E e \in Range(results) : e.req[1] = row.auction /\ e.winner = row.winner
    \/ poll = row.winner /\ This[1] = row.auction

LEMMA ReplayInit == Init => ReplayInResults
BY DEF Init, ReplayInResults, Range

LEMMA ReplayStep == ASSUME TypeOK, ReplayInResults, [Next]_vars PROVE ReplayInResults'
<1> SUFFICES ASSUME NEW row \in Range(db') PROVE Known(row)'
  BY DEF ReplayInResults, Known
<1>0. /\ \A old \in Range(db) : Known(old) /\ old \in Rows
      /\ db \in Seq(Rows) /\ db' \in Seq(Rows) /\ row \in Rows
  <2>1. db \in Seq(Rows) /\ db' \in Seq(Rows)
    BY TypesStep DEF TypeOK
  <2> QED
    BY <2>1 DEF ReplayInResults, Known, Range
<1>1. row.winner \in {Null} \union Winners
  BY <1>0 DEF Rows
<1>2. CASE UNCHANGED <<db, results, forgotten, poll>> /\ (poll # "idle" => This' = This)
  BY <1>0, <1>1, <1>2 DEF Known, Winners, Null
<1>3. ASSUME NEW r \in Requests, Record(r) PROVE Known(row)'
  <2>1. UNCHANGED <<results, forgotten, poll, batch>> /\ db' \in {db, Recorded(r[1])}
    BY <1>3 DEF Record
  <2>2. row \in Range(db) \/ row.winner = Null
    BY <2>1, RequestTypes, RecordedTypes
  <2> QED
    BY <1>0, <2>1, <2>2 DEF Known, This
<1>4. CASE AnswerSome \/ AnswerNone
  <2>1. PICK w \in Winners : Write(w) /\ poll = "asked"
    BY <1>4 DEF AnswerSome, AnswerNone, Winners
  <2>2. UNCHANGED <<results, forgotten, batch>> /\ db' \in {db, Updated(This[1], w)} /\ poll' = w
    BY <2>1 DEF Write
  <2>3. row \in Range(db) \/ (row.auction = This[1] /\ row.winner = w)
    <3>1. CASE db' = db
      BY <3>1 DEF Range
    <3>2. CASE db' = Updated(This[1], w)
      <4>1. PICK i \in DOMAIN db : row = Updated(This[1], w)[i]
        BY <3>2, UpdatedTypes DEF Range
      <4>2. row = IF db[i].auction = This[1] THEN [db[i] EXCEPT !.winner = w] ELSE db[i]
        BY <4>1, UpdatedTypes
      <4>3. db[i] \in Rows /\ db[i] \in Range(db)
        BY <1>0 DEF Range
      <4>4. [db[i] EXCEPT !.winner = w].auction = db[i].auction /\ [db[i] EXCEPT !.winner = w].winner = w
        BY <4>3 DEF Rows
      <4> QED
        BY <4>2, <4>3, <4>4
    <3> QED
      BY <2>2, <3>1, <3>2
  <2>4. This' = This
    BY <2>2 DEF This
  <2>5. CASE row \in Range(db)
    <3>1. poll # row.winner
      BY <1>1, <2>1 DEF Winners, Null
    <3> QED
      BY <1>0, <2>2, <2>5, <3>1 DEF Known
  <2> QED
    BY <2>2, <2>3, <2>4, <2>5 DEF Known
<1>5. CASE Drain \/ Ask \/ Requeue \/ AnswerError
  <2>1. UNCHANGED <<db, results, forgotten>> /\ poll \in {"idle", "asked"}
    BY <1>5 DEF Drain, Ask, Requeue, AnswerError
  <2>2. poll # row.winner
    BY <1>1, <2>1 DEF Winners, Null
  <2> QED
    BY <1>0, <2>1, <2>2 DEF Known
<1>6. CASE Push
  <2> DEFINE kept == SubSeq(results, Excess + 1, Len(results))
             gone == SubSeq(results, 1, Excess)
             new  == [req |-> This, winner |-> poll]
  <2>1. /\ results' = Append(kept, new) /\ db' = db
        /\ forgotten' = forgotten \union {e.req[1] : e \in Range(gone)}
    BY <1>6 DEF Push
  <2>2. results \in Seq(Entries) /\ Excess \in 0..Len(results) /\ kept \in Seq(Entries) /\ gone \in Seq(Entries)
    BY ExcessTypes, TimesSplit DEF TypeOK
  <2>3. \A e \in Range(results) : e \in Range(kept) \/ e \in Range(gone)
    <3>1. SubSeq(results, 1, Len(results)) = results
      BY <2>2, SubSeqFull
    <3>2. SubSeq(results, 1, Len(results)) = gone \o kept
      <4>1. 1 \in 1..(Len(results) + 1) /\ Excess \in (1 - 1)..Len(results) /\ Len(results) \in Excess..Len(results)
        BY <2>2
      <4> QED
        BY <2>2, <4>1, ConcatAdjacentSubSeq
    <3>3. Range(gone \o kept) = Range(gone) \union Range(kept)
      BY <2>2, RangeConcatenation
    <3> QED
      BY <3>1, <3>2, <3>3
  <2> HIDE DEF kept, gone
  <2>4. new \in Entries
    <3>1. This \in Requests
      BY <1>6, ThisTypes DEF Push, Winners
    <3> QED
      BY <1>6, <3>1, RequestTypes DEF Push, Entries
  <2>5. \A e \in Range(kept) \union {new} : e \in Range(results')
    <3>1. DOMAIN Append(kept, new) = 1..(Len(kept) + 1) /\ Append(kept, new)[Len(kept) + 1] = new /\ Len(kept) \in Nat
          /\ DOMAIN kept = 1..Len(kept) /\ \A i \in 1..Len(kept) : Append(kept, new)[i] = kept[i]
      BY <2>2, <2>4
    <3> QED
      BY <2>1, <3>1 DEF Range
  <2>6. Known(row)
    BY <1>0, <2>1
  <2>7. CASE \E e \in Range(results) : e.req[1] = row.auction /\ e.winner = row.winner
    <3>1. PICK e \in Range(results) : e.req[1] = row.auction /\ e.winner = row.winner
      BY <2>7
    <3>2. e \in Range(results') \/ e.req[1] \in forgotten'
      BY <2>1, <2>3, <2>5
    <3> QED
      BY <3>1, <3>2 DEF Known
  <2>8. CASE poll = row.winner /\ This[1] = row.auction
    <3>1. new.req[1] = row.auction /\ new.winner = row.winner /\ new \in Range(results')
      BY <2>5, <2>8
    <3> QED
      BY <3>1 DEF Known
  <2> QED
    BY <2>1, <2>6, <2>7, <2>8 DEF Known
<1>7. CASE Restart
  <2>1. db' = db
    BY <1>7 DEF Restart
  <2>2. CASE row.winner = Null
    BY <2>2 DEF Known
  <2>4. CASE row.winner # Null /\ forgotten' = {db[i].auction : i \in Won}
    BY <2>1, <2>4 DEF Known, Range, Won
  <2>3. CASE /\ row.winner # Null /\ results' = History
             /\ forgotten' = {Settlements[i].auction : i \in 1..Skipped}
    <3>1. PICK i \in DOMAIN db : row = db[i]
      BY <2>1 DEF Range
    <3>2. i \in Won
      BY <2>3, <3>1 DEF Won
    <3>3. PICK k \in 1..Len(Settlements) : Settlements[k] = row
      BY <3>1, <3>2, SettlementsTypes
    <3>4. Skipped \in Nat /\ Len(Settlements) \in Nat
      BY SettlementsTypes
    <3>5. CASE k <= Skipped
      <4>1. k \in 1..Skipped
        BY <3>4, <3>5
      <4> QED
        BY <2>3, <3>3, <4>1 DEF Known
    <3>6. CASE ~(k <= Skipped)
      <4>1. k \in (Skipped + 1)..Len(Settlements)
        BY <3>4, <3>6
      <4> QED
        BY <2>3, <3>3, <4>1, HistoryTypes DEF Known
    <3> QED
      BY <3>5, <3>6
  <2> QED
    BY <1>7, <2>2, <2>3, <2>4 DEF Restart
<1>8. CASE Tick
  <2>1. poll # "idle" => This' = This
    BY <1>8, AgedTypes DEF Tick, This, TypeOK
  <2> QED
    BY <1>2, <1>8, <2>1 DEF Tick
<1>9. ASSUME \/ \E r \in Requests : Solve(r) \/ Enqueue(r)
             \/ \E a \in Auctions : Settle(a)
             \/ UNCHANGED vars
      PROVE  UNCHANGED <<db, results, forgotten, poll, batch>>
  BY <1>9 DEF Solve, Enqueue, Settle, vars
<1>10. ASSUME UNCHANGED <<db, results, forgotten, poll, batch>> PROVE Known(row)'
  BY <1>2, <1>10 DEF This
<1> QED
  BY <1>3, <1>4, <1>5, <1>6, <1>7, <1>8, <1>9, <1>10 DEF Next, Handlers, Poller

\* Whatever caps, crashes and database errors: a winner in the replay database
\* is among the results, on its way there, let go by a cap, or left out by the
\* limit of the history or a start that could not read the database
\* (run_poll_task, bootstrap_from_replay).
THEOREM ReplayInResultsHolds == Spec => []ReplayInResults
BY ReplayInit, ReplayStep, TypeCorrect, PTL DEF Spec

-----------------------------------------------------------------------------
(* Settlements are only written of auctions whose competition can be told, *)
(* so that no later answer can be "no settlement".                         *)

Decided ==
    /\ OneRow(db)
    /\ \A i \in DOMAIN db : db[i].winner = "solver" => db[i].auction \in settled

LEMMA DecidedInit == Init => Decided
BY DEF Init, Decided, OneRow

LEMMA DecidedStep == ASSUME TypeOK, Decided, [Next]_vars PROVE Decided'
<1>0. db \in Seq(Rows) /\ db' \in Seq(Rows) /\ \A i \in DOMAIN db : db[i] \in Rows
  BY TypesStep DEF TypeOK
<1>1. CASE UNCHANGED db /\ settled \subseteq settled'
  BY <1>1 DEF Decided, OneRow
<1>2. ASSUME NEW r \in Requests, Record(r) PROVE Decided'
  <2>1. db' \in {db, Recorded(r[1])} /\ settled' = settled
    BY <1>2 DEF Record
  <2>2. CASE db' = db
    BY <1>1, <2>1, <2>2
  <2>3. CASE db' = Recorded(r[1])
    <3>1. OneRow(db') /\ \A row \in Range(db') : row \in Range(db) \/ row.winner = Null
      BY <2>3, RequestTypes, RecordedTypes DEF Decided
    <3>2. \A i \in DOMAIN db' : db'[i] \in Range(db) \/ db'[i].winner = Null
      BY <3>1 DEF Range
    <3>3. \A row \in Range(db) : row.winner = "solver" => row.auction \in settled
      BY DEF Decided, Range
    <3> QED
      BY <2>1, <3>1, <3>2, <3>3 DEF Decided, Null
  <2> QED
    BY <2>1, <2>2, <2>3
<1>3. CASE AnswerSome \/ AnswerNone
  <2>1. PICK w \in Winners : Write(w) /\ (w = "solver" => This[1] \in settled)
    BY <1>3 DEF AnswerSome, AnswerNone, Answered, Winners
  <2>2. db' \in {db, Updated(This[1], w)} /\ settled' = settled
    BY <2>1 DEF Write
  <2>3. CASE db' = db
    BY <1>1, <2>2, <2>3
  <2>4. CASE db' = Updated(This[1], w)
    <3>1. DOMAIN db' = DOMAIN db
      BY <2>4, UpdatedTypes
    <3>2. ASSUME NEW i \in DOMAIN db
          PROVE  /\ db'[i].auction = db[i].auction
                 /\ db'[i].winner = "solver" => db[i].auction \in settled
      <4>1. db'[i] = IF db[i].auction = This[1] THEN [db[i] EXCEPT !.winner = w] ELSE db[i]
        BY <2>4, UpdatedTypes
      <4>2. [db[i] EXCEPT !.winner = w].auction = db[i].auction /\ [db[i] EXCEPT !.winner = w].winner = w
        BY <1>0 DEF Rows
      <4> QED
        BY <2>1, <4>1, <4>2 DEF Decided
    <3> QED
      BY <2>2, <3>1, <3>2 DEF Decided, OneRow
  <2> QED
    BY <2>2, <2>3, <2>4
<1>4. ASSUME \/ \E r \in Requests : Solve(r) \/ Enqueue(r)
             \/ Drain \/ Ask \/ Requeue \/ AnswerError \/ Push \/ Restart \/ Tick
             \/ \E a \in Auctions : Settle(a)
             \/ UNCHANGED vars
      PROVE  UNCHANGED db /\ settled \subseteq settled'
  BY <1>4 DEF Solve, Enqueue, Drain, Ask, Requeue, AnswerError, Push, Restart, Tick, Settle, vars
<1> QED
  BY <1>1, <1>2, <1>3, <1>4 DEF Next, Handlers, Poller

\* The database keeps one row for an auction, and a winner only of auctions
\* that settled (record_auction, update_competition_result).
THEOREM DecidedHolds == Spec => []Decided
BY DecidedInit, DecidedStep, TypeCorrect, PTL DEF Spec

\* Once the replay database holds a settlement, only recording a duplicate of
\* the auction takes it away, whatever answers arrive late.
THEOREM SettlementKeptHolds == Spec => SettlementKept
<1> DEFINE Kept == \A row \in Range(db) :
                     \/ row.winner # "solver"
                     \/ row \in Range(db')
                     \/ \E r \in recording \ recording' : r[1] = row.auction
<1>1. ASSUME TypeOK, Decided, [Next]_vars PROVE Kept
  <2> SUFFICES ASSUME NEW row \in Range(db), row.winner = "solver"
               PROVE  row \in Range(db') \/ \E r \in recording \ recording' : r[1] = row.auction
    OBVIOUS
  <2>0. PICK i \in DOMAIN db : row = db[i]
    BY DEF Range
  <2>1. row.auction \in settled /\ row \in Rows
    BY <1>1, <2>0 DEF Decided, TypeOK
  <2>2. CASE UNCHANGED db
    BY <2>2 DEF Range
  <2>3. ASSUME NEW r \in Requests, Record(r)
        PROVE  row \in Range(db') \/ \E q \in recording \ recording' : q[1] = row.auction
    <3>1. db' \in {db, Recorded(r[1])} /\ r \in recording \ recording'
      BY <2>3 DEF Record
    <3>2. CASE db' = Recorded(r[1])
      BY <1>1, <3>1, <3>2, RequestTypes, RecordedTypes
    <3> QED
      BY <2>2, <3>1, <3>2
  <2>4. CASE AnswerSome \/ AnswerNone
    <3>1. PICK w \in Winners : Write(w) /\ (w = "solver" \/ This[1] \notin settled)
      BY <2>4 DEF AnswerSome, AnswerNone, Answered, Winners
    <3>2. CASE db' = Updated(This[1], w)
      <4>1. DOMAIN db' = DOMAIN db /\ db'[i] = IF row.auction = This[1] THEN [row EXCEPT !.winner = w] ELSE row
        BY <1>1, <2>0, <3>2, UpdatedTypes
      <4>2. row.auction = This[1] => w = "solver"
        BY <2>1, <3>1
      <4>3. [row EXCEPT !.winner = "solver"] = row
        BY <2>1 DEF Rows
      <4>4. db'[i] = row
        BY <4>1, <4>2, <4>3
      <4> QED
        BY <2>0, <4>1, <4>4 DEF Range
    <3> QED
      BY <2>2, <3>1, <3>2 DEF Write
  <2>5. ASSUME \/ \E r \in Requests : Solve(r) \/ Enqueue(r)
               \/ Drain \/ Ask \/ Requeue \/ AnswerError \/ Push \/ Restart \/ Tick
               \/ \E a \in Auctions : Settle(a)
               \/ UNCHANGED vars
        PROVE  UNCHANGED db
    BY <2>5 DEF Solve, Enqueue, Drain, Ask, Requeue, AnswerError, Push, Restart, Tick, Settle, vars
  <2> QED
    BY <1>1, <2>2, <2>3, <2>4, <2>5 DEF Next, Handlers, Poller
<1>2. TypeOK /\ Decided /\ [Next]_vars => [Kept]_vars
  BY <1>1
<1> QED
  BY TypeCorrect, DecidedHolds, <1>2, PTL DEF Spec, SettlementKept
=============================================================================
