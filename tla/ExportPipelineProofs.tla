------------------------ MODULE ExportPipelineProofs ------------------------
(***************************************************************************)
(* What holds of the export pipeline for every set of items and every list *)
(* of exporters: the types, the three properties of the outputs, and that  *)
(* the pipeline is a broadcast.                                            *)
(***************************************************************************)
EXTENDS ExportPipeline, SequenceTheorems, FiniteSetTheorems, InductionLemmas

-----------------------------------------------------------------------------
(* The lines of an output *)

(* What Encodable computes for the first k items of s, by f for fewer.     *)
Kept(f, s, k) ==
  IF k = 0 THEN <<>>
  ELSE IF s[k] \in Unencodable THEN f[k - 1] ELSE Append(f[k - 1], s[k])

KeptOf(s) == CHOOSE f : f = [k \in 0 .. Len(s) |-> Kept(f, s, k)]

IsKept(f, s, m) ==
  /\ f \in [0 .. m -> Seq(Items)]
  /\ \A k \in 0 .. m : f[k] = Kept(f, s, k)

(* The recursion of Encodable has a solution, by induction over the number *)
(* of items, and no other one.                                             *)
LEMMA KeptExists ==
  ASSUME NEW s \in Seq(Items)
  PROVE  IsKept(KeptOf(s), s, Len(s))
<1> DEFINE T == {m \in Nat : m <= Len(s) => \E f : IsKept(f, s, m)}
<1>1. 0 \in T
  <2>1. IsKept([k \in 0 .. 0 |-> <<>>], s, 0)
        BY DEF Kept, IsKept
  <2> QED  BY <2>1
<1>2. ASSUME NEW m \in Nat, m \in T PROVE m + 1 \in T
  <2>1. ASSUME m + 1 <= Len(s) PROVE \E f : IsKept(f, s, m + 1)
    <3>1. PICK f : IsKept(f, s, m)
          BY <1>2, <2>1
    <3> DEFINE x == IF s[m + 1] \in Unencodable THEN f[m] ELSE Append(f[m], s[m + 1])
               g == [k \in 0 .. m + 1 |-> IF k <= m THEN f[k] ELSE x]
    <3>2. x \in Seq(Items)
          BY <2>1, <3>1 DEF IsKept
    <3> HIDE DEF x
    <3>3. g \in [0 .. m + 1 -> Seq(Items)]
          BY <3>1, <3>2 DEF IsKept
    <3>4. g[m + 1] = Kept(g, s, m + 1)
          BY DEF Kept, x
    <3>5. ASSUME NEW k \in 0 .. m PROVE g[k] = Kept(g, s, k)
      <4>1. g[k] = f[k] /\ (k # 0 => g[k - 1] = f[k - 1])
            OBVIOUS
      <4>2. f[k] = Kept(f, s, k)
            BY <3>1 DEF IsKept
      <4> QED  BY <4>1, <4>2 DEF Kept
    <3> HIDE DEF g
    <3>6. \A k \in 0 .. m + 1 : g[k] = Kept(g, s, k)
          BY <3>4, <3>5
    <3>7. IsKept(g, s, m + 1)
          BY <3>3, <3>6 DEF IsKept
    <3> QED  BY <3>7
  <2> QED  BY <2>1
<1>3. Nat \subseteq T
  <2> HIDE DEF T
  <2> QED  BY <1>1, <1>2, SetInduction
<1>4. PICK f : IsKept(f, s, Len(s))
      BY <1>3
<1>5. f = [k \in 0 .. Len(s) |-> Kept(f, s, k)]
      BY <1>4 DEF IsKept
<1>6. KeptOf(s) = [k \in 0 .. Len(s) |-> Kept(KeptOf(s), s, k)]
      BY <1>5 DEF KeptOf
<1>7. \A k \in 0 .. Len(s) : KeptOf(s)[k] = f[k]
  <2> DEFINE h == KeptOf(s)
             U == {m \in Nat : m <= Len(s) => h[m] = f[m]}
  <2>1. \A k \in 0 .. Len(s) : h[k] = Kept(h, s, k) /\ f[k] = Kept(f, s, k)
        BY <1>4, <1>6 DEF IsKept
  <2> HIDE DEF h
  <2>2. 0 \in U
        BY <2>1 DEF Kept
  <2>3. ASSUME NEW m \in Nat, m \in U PROVE m + 1 \in U
    <3>1. ASSUME m + 1 <= Len(s) PROVE h[m + 1] = f[m + 1]
      <4>1. h[m] = f[m] /\ m + 1 # 0 /\ (m + 1) - 1 = m /\ m + 1 \in 0 .. Len(s)
            BY <2>3, <3>1
      <4> QED  BY <2>1, <4>1 DEF Kept
    <3> QED  BY <3>1
  <2>4. Nat \subseteq U
    <3> HIDE DEF U
    <3> QED  BY <2>2, <2>3, SetInduction
  <2> QED  BY <2>4 DEF h
<1>8. KeptOf(s) = f
  <2> HIDE DEF KeptOf
  <2> QED  BY <1>5, <1>6, <1>7
<1> QED  BY <1>4, <1>8

(* What Encodable returns is made of items, and is empty when there are    *)
(* none.                                                                   *)
LEMMA EncodableType ==
  /\ Encodable(<<>>) = <<>>
  /\ \A s \in Seq(Items) : Encodable(s) \in Seq(Items)
<1>1. \A s : Encodable(s) = KeptOf(s)[Len(s)]
      BY Zenon DEF Encodable, KeptOf, Kept
<1>2. ASSUME NEW s \in Seq(Items) PROVE Encodable(s) \in Seq(Items)
      BY <1>1, KeptExists DEF IsKept
<1>3. ASSUME NEW s \in Seq(Items), Len(s) = 0 PROVE Encodable(s) = <<>>
  <2>1. IsKept(KeptOf(s), s, Len(s))
        BY KeptExists
  <2> QED  BY <1>1, <1>3, <2>1 DEF IsKept, Kept
<1>4. <<>> \in Seq(Items) /\ Len(<<>>) = 0
      OBVIOUS
<1> QED  BY <1>2, <1>3, <1>4, Zenon

(* One more item is left out or comes after the others.                    *)
LEMMA EncodableByItem ==
  ASSUME NEW s \in Seq(Items), NEW x \in Items
  PROVE  Encodable(Append(s, x)) =
           IF x \in Unencodable THEN Encodable(s) ELSE Append(Encodable(s), x)
<1> DEFINE t == Append(s, x)
           f == KeptOf(s)
           g == KeptOf(t)
           U == {m \in Nat : m <= Len(s) => g[m] = f[m]}
<1>1. /\ t \in Seq(Items) /\ Len(t) = Len(s) + 1 /\ t[Len(t)] = x
      /\ \A k \in 1 .. Len(s) : t[k] = s[k]
      OBVIOUS
<1> HIDE DEF t
<1>2. IsKept(f, s, Len(s)) /\ IsKept(g, t, Len(t))
      BY <1>1, KeptExists
<1>3. \A r : Encodable(r) = KeptOf(r)[Len(r)]
      BY Zenon DEF Encodable, KeptOf, Kept
<1> HIDE DEF f, g
<1>4. Nat \subseteq U
  <2>1. 0 \in U
        BY <1>1, <1>2 DEF Kept, IsKept
  <2>2. ASSUME NEW m \in Nat, m \in U PROVE m + 1 \in U
    <3>1. ASSUME m + 1 <= Len(s) PROVE g[m + 1] = f[m + 1]
      <4>1. /\ g[m] = f[m] /\ m + 1 # 0 /\ (m + 1) - 1 = m /\ s[m + 1] = t[m + 1]
            /\ m + 1 \in 0 .. Len(s) /\ m + 1 \in 0 .. Len(t)
            BY <1>1, <2>2, <3>1
      <4> QED  BY <1>2, <4>1 DEF Kept, IsKept
    <3> QED  BY <3>1
  <2> HIDE DEF U
  <2> QED  BY <2>1, <2>2, SetInduction
<1>5. g[Len(t)] = IF x \in Unencodable THEN f[Len(s)] ELSE Append(f[Len(s)], x)
  <2>1. g[Len(t)] = Kept(g, t, Len(t))
        BY <1>1, <1>2 DEF IsKept
  <2>2. g[Len(t) - 1] = f[Len(s)]
        BY <1>1, <1>4
  <2> QED  BY <1>1, <2>1, <2>2 DEF Kept
<1> QED  BY <1>3, <1>5 DEF t, f, g

OutputLines == Items \cup {NoItem}

(* A prefix, an element at a time.                                         *)
LEMMA PrefixByElement ==
  ASSUME NEW S, NEW s \in Seq(S), NEW t \in Seq(S)
  PROVE  IsPrefix(s, t) <=> Len(s) <= Len(t) /\ \A k \in 1 .. Len(s) : s[k] = t[k]
BY DEF IsPrefix

(* A prefix of a prefix.                                                   *)
LEMMA PrefixOfPrefix ==
  ASSUME NEW S, NEW s \in Seq(S), NEW t \in Seq(S), NEW u \in Seq(S),
         IsPrefix(s, t), IsPrefix(t, u)
  PROVE  IsPrefix(s, u)
<1>1. /\ Len(s) \in Nat /\ Len(t) \in Nat /\ Len(u) \in Nat
      /\ Len(s) <= Len(t) /\ \A k \in 1 .. Len(s) : s[k] = t[k]
      /\ Len(t) <= Len(u) /\ \A k \in 1 .. Len(t) : t[k] = u[k]
      BY PrefixByElement
<1>2. Len(s) <= Len(u) /\ \A k \in 1 .. Len(s) : s[k] = u[k]
      BY <1>1
<1> QED  BY <1>2, PrefixByElement

(* What is a prefix stays one as more is appended.                         *)
LEMMA PrefixOfConcat ==
  ASSUME NEW S, NEW s \in Seq(S), NEW t \in Seq(S), NEW u \in Seq(S), IsPrefix(s, t)
  PROVE  IsPrefix(s, t \o u)
<1>1. Len(s) <= Len(t) /\ \A k \in 1 .. Len(s) : s[k] = t[k]
      BY PrefixByElement
<1>2. t \o u \in Seq(S)
      OBVIOUS
<1>3. Len(s) <= Len(t \o u) /\ \A k \in 1 .. Len(s) : s[k] = (t \o u)[k]
      BY <1>1
<1> QED  BY <1>2, <1>3, PrefixByElement

(* What Lines returns, which is empty for no items.                        *)
LEMMA LinesType ==
  ASSUME NEW f
  PROVE  /\ Lines(f, <<>>) = <<>>
         /\ \A s \in Seq(Items) : Lines(f, s) \in Seq(OutputLines)
<1>1. CASE f = "csv"
      BY <1>1 DEF Lines, OutputLines
<1>2. CASE f # "csv"
  <2>1. \A s : Lines(f, s) = Encodable(s)
        BY <1>2 DEF Lines
  <2>2. ASSUME NEW s \in Seq(Items) PROVE Lines(f, s) \in Seq(OutputLines)
    <3>1. Encodable(s) \in Seq(Items)
          BY EncodableType
    <3> QED  BY <2>1, <3>1 DEF OutputLines
  <2>3. Lines(f, <<>>) = <<>>
        BY <2>1, EncodableType, Zenon
  <2> QED  BY <2>2, <2>3
<1> QED  BY <1>1, <1>2

(* The lines of the items so far are followed by those of the next one.    *)
LEMMA LinesByItem ==
  ASSUME NEW f, NEW s \in Seq(Items), NEW x \in Items
  PROVE  Lines(f, Append(s, x)) = Lines(f, s) \o Lines(f, <<x>>)
<1>1. CASE f = "csv"
  <2> DEFINE a == Lines(f, s)
             b == Lines(f, Append(s, x))
             y == IF x \in Rows THEN x ELSE NoItem
  <2>1. Append(s, x) \in Seq(Items)
        OBVIOUS
  <2>2. a \in Seq(OutputLines) /\ b \in Seq(OutputLines) /\ y \in OutputLines
        BY <2>1, LinesType DEF OutputLines
  <2>3. Len(b) = Len(a) + 1 /\ b[Len(b)] = y /\ \A k \in 1 .. Len(a) : b[k] = a[k]
        BY <1>1 DEF Lines
  <2>4. Lines(f, <<x>>) = <<y>>
        BY <1>1 DEF Lines
  <2> HIDE DEF a, b, y
  <2>5. b = a \o <<y>>
        BY <2>2, <2>3
  <2> QED  BY <2>4, <2>5 DEF a, b, y
<1>2. CASE f # "csv"
  <2> DEFINE a == Encodable(s)
  <2>1. a \in Seq(Items) /\ a \o <<>> = a /\ a \o <<x>> = Append(a, x)
        BY EncodableType, ConcatEmptySeq, AppendIsConcat
  <2>2. Append(<<>>, x) = <<x>> /\ <<>> \in Seq(Items) /\ Append(<<>>, x) = <<x>>
        OBVIOUS
  <2>3. Encodable(Append(<<>>, x)) =
          IF x \in Unencodable THEN Encodable(<<>>) ELSE Append(Encodable(<<>>), x)
        BY <2>2, EncodableByItem, Zenon
  <2>4. Encodable(<<x>>) = IF x \in Unencodable THEN <<>> ELSE <<x>>
        BY <2>2, <2>3, EncodableType, Zenon
  <2>5. Encodable(Append(s, x)) = a \o Encodable(<<x>>)
        BY <2>1, <2>4, EncodableByItem
  <2> QED  BY <1>2, <2>5 DEF Lines
<1> QED  BY <1>1, <1>2

(* The lines of the first items are the first lines of all items, by       *)
(* induction over the number of items that follow.                         *)
LEMMA LinesOfPrefix ==
  ASSUME NEW f, NEW s \in Seq(Items), NEW t \in Seq(Items), IsPrefix(s, t)
  PROVE  IsPrefix(Lines(f, s), Lines(f, t))
<1> DEFINE T == {m \in Nat : Len(s) + m <= Len(t) =>
                    IsPrefix(Lines(f, s), Lines(f, SubSeq(t, 1, Len(s) + m)))}
<1>1. Len(s) <= Len(t) /\ SubSeq(t, 1, Len(s)) = s
      BY DEF IsPrefix
<1>2. 0 \in T
  <2>1. Lines(f, s) \in Seq(OutputLines)
        BY LinesType
  <2>2. IsPrefix(Lines(f, s), Lines(f, s))
        BY <2>1, PrefixByElement
  <2>3. SubSeq(t, 1, Len(s) + 0) = s
        BY <1>1
  <2> QED  BY <2>2, <2>3, Zenon
<1>3. ASSUME NEW m \in Nat, m \in T PROVE m + 1 \in T
  <2>1. ASSUME Len(s) + (m + 1) <= Len(t)
        PROVE  IsPrefix(Lines(f, s), Lines(f, SubSeq(t, 1, Len(s) + (m + 1))))
    <3> DEFINE r == SubSeq(t, 1, Len(s) + m)
               x == t[Len(s) + m + 1]
    <3>1. r \in Seq(Items) /\ x \in Items
          BY <2>1
    <3>2. SubSeq(t, 1, Len(s) + (m + 1)) = Append(r, x)
          BY <2>1
    <3>3. IsPrefix(Lines(f, s), Lines(f, r))
          BY <1>3, <2>1
    <3> HIDE DEF r, x
    <3>4. <<x>> \in Seq(Items)
          BY <3>1
    <3>5. /\ Lines(f, s) \in Seq(OutputLines)
          /\ Lines(f, r) \in Seq(OutputLines)
          /\ Lines(f, <<x>>) \in Seq(OutputLines)
          BY <3>1, <3>4, LinesType, Zenon
    <3>6. Lines(f, Append(r, x)) = Lines(f, r) \o Lines(f, <<x>>)
          BY <3>1, LinesByItem
    <3> DEFINE a == Lines(f, s)
               b == Lines(f, r)
               c == Lines(f, <<x>>)
    <3> HIDE DEF a, b, c
    <3>7. IsPrefix(a, b \o c)
      <4>1. a \in Seq(OutputLines) /\ b \in Seq(OutputLines) /\ c \in Seq(OutputLines)
            BY <3>5 DEF a, b, c
      <4> QED  BY <3>3, <4>1, PrefixOfConcat DEF a, b
    <3> QED  BY <3>2, <3>6, <3>7 DEF a, b, c
  <2> QED  BY <2>1
<1>4. Nat \subseteq T
  <2> HIDE DEF T
  <2> QED  BY <1>2, <1>3, SetInduction
<1>5. PICK m \in Nat : Len(s) + m = Len(t)
  <2>1. Len(t) - Len(s) \in Nat /\ Len(s) + (Len(t) - Len(s)) = Len(t)
        BY <1>1
  <2> QED  BY <2>1
<1>6. SubSeq(t, 1, Len(s) + m) = t
      BY <1>5
<1>7. IsPrefix(Lines(f, s), Lines(f, SubSeq(t, 1, Len(s) + m)))
      BY <1>4, <1>5
<1> QED  BY <1>6, <1>7

(* The lines of items that every exporter can print are the items.         *)
LEMMA LinesOfPrintable ==
  ASSUME Unencodable = {}, Rows = Items, NEW f, NEW s \in Seq(Items)
  PROVE  Lines(f, s) = s
<1>1. CASE f = "csv"
  <2>1. \A k \in DOMAIN s : s[k] \in Rows
        OBVIOUS
  <2>2. [k \in DOMAIN s |-> IF s[k] \in Rows THEN s[k] ELSE NoItem] = [k \in DOMAIN s |-> s[k]]
        BY <2>1
  <2>3. [k \in DOMAIN s |-> s[k]] = s
        OBVIOUS
  <2> QED  BY <1>1, <2>2, <2>3 DEF Lines
<1>2. CASE f # "csv"
  <2> DEFINE T == {m \in Nat : m <= Len(s) => Encodable(SubSeq(s, 1, m)) = SubSeq(s, 1, m)}
  <2>1. 0 \in T
    <3>1. SubSeq(s, 1, 0) = <<>>
          OBVIOUS
    <3> QED  BY <3>1, EncodableType, Zenon
  <2>2. ASSUME NEW m \in Nat, m \in T PROVE m + 1 \in T
    <3>1. SUFFICES ASSUME m + 1 <= Len(s)
                   PROVE  Encodable(SubSeq(s, 1, m + 1)) = SubSeq(s, 1, m + 1)
          OBVIOUS
    <3> DEFINE r == SubSeq(s, 1, m)
               x == s[m + 1]
    <3>2. r \in Seq(Items) /\ x \in Items /\ SubSeq(s, 1, m + 1) = Append(r, x)
          BY <3>1
    <3>3. Encodable(r) = r
          BY <2>2, <3>1
    <3> HIDE DEF r, x
    <3>4. Encodable(Append(r, x)) = Append(Encodable(r), x)
          BY <3>2, EncodableByItem
    <3> QED  BY <3>2, <3>3, <3>4
  <2>3. Nat \subseteq T
    <3> HIDE DEF T
    <3> QED  BY <2>1, <2>2, SetInduction
  <2>4. Len(s) \in Nat /\ SubSeq(s, 1, Len(s)) = s
        OBVIOUS
  <2>5. Len(s) \in T /\ Len(s) <= Len(s)
    <3>1. Len(s) <= Len(s)
          BY <2>4
    <3> HIDE DEF T
    <3> QED  BY <2>3, <2>4, <3>1
  <2>6. Encodable(SubSeq(s, 1, Len(s))) = SubSeq(s, 1, Len(s))
        BY <2>5, Zenon
  <2>7. Encodable(s) = s
        BY <2>4, <2>6, Zenon
  <2> QED  BY <1>2, <2>7 DEF Lines
<1> QED  BY <1>1, <1>2
-----------------------------------------------------------------------------
(* The inductive invariant *)

Taken == Len(accepted) - Len(queue)

(* The distributing goroutine holds the last item it took, and the queue   *)
(* what has been sent since; each exporter has the items that were taken,  *)
(* from the first one, but for the one it has not been offered yet.        *)
DistributorInv ==
  /\ queue # <<>> => accepted # <<>> /\ queue = <<Last(accepted)>>
  /\ inHand # NoItem => next \in Exporters /\ Taken >= 1 /\ inHand = accepted[Taken]
  /\ \A e \in Exporters :
       /\ Len(exporter[e].got) = IF inHand # NoItem /\ next <= e THEN Taken - 1 ELSE Taken
       /\ IsPrefix(exporter[e].got, accepted)
  /\ exportsClosed => offered = {}
  /\ chansClosed => exportsClosed /\ queue = <<>> /\ inHand = NoItem

(* The items whose lines an exporter in state x has dealt with.            *)
Dealt(x) == IF x.at = "writing" THEN Front(x.got) ELSE x.got

(* The output, and the lines CSV still holds, are those of the items dealt *)
(* with, or only the first of them when a write failed.                    *)
OutputOK(x, f) ==
  /\ x.at = "writing" => x.got # <<>>
  /\ x.at = "ended" => x.buffer = <<>>
  /\ x.at = "failed" => x.fault
  /\ f # "csv" => x.buffer = <<>>
  /\ ~x.fault => x.out \o x.buffer = Lines(f, Dealt(x))
  /\ f # "pretty" => IsPrefix(x.out, Lines(f, Dealt(x)))

ExporterInv ==
  \A e \in Exporters :
    /\ OutputOK(exporter[e], format[e])
    /\ exporter[e].at = "ended" => chansClosed

(* The exporters that have not returned.                                   *)
Running == {e \in Exporters : exporter[e].at \notin {"ended", "failed"}}

(* g.wgExporters counts them, and Start waits for all of them.             *)
CountInv ==
  /\ IF n = 0 THEN wgExporters \in {0, 1} ELSE wgExporters = Cardinality(Running)
  /\ returned => exportsClosed /\ wgExporters = 0

PipelineInv == ExportTypeOK /\ DistributorInv /\ ExporterInv /\ CountInv
-----------------------------------------------------------------------------
(* One exporter *)

ExporterStates ==
  [at: {"open", "receiving", "writing", "ended", "failed"}, got: Seq(Items),
   buffer: Seq(OutputLines), out: Seq(OutputLines), fault: BOOLEAN]

(* The lines of what an exporter got end with those of the last item.      *)
LEMMA LinesOfLast ==
  ASSUME NEW f, NEW got \in Seq(Items), got # <<>>
  PROVE  /\ Front(got) \in Seq(Items)
         /\ IsPrefix(Front(got), got)
         /\ Lines(f, Front(got)) \in Seq(OutputLines)
         /\ Lines(f, <<Last(got)>>) \in Seq(OutputLines)
         /\ Lines(f, got) = Lines(f, Front(got)) \o Lines(f, <<Last(got)>>)
<1> DEFINE s == Front(got)
           x == Last(got)
<1>1. s \in Seq(Items) /\ x \in Items /\ <<x>> \in Seq(Items)
      BY DEF Front, Last
<1>2. got = Append(s, x)
      BY DEF Front, Last
<1>3. IsPrefix(s, got)
  <2>1. Len(s) <= Len(got) /\ \A k \in 1 .. Len(s) : s[k] = got[k]
        BY DEF Front
  <2> QED  BY <1>1, <2>1, PrefixByElement
<1> HIDE DEF s, x
<1>4. Lines(f, Append(s, x)) = Lines(f, s) \o Lines(f, <<x>>)
      BY <1>1, LinesByItem
<1>5. Lines(f, s) \in Seq(OutputLines) /\ Lines(f, <<x>>) \in Seq(OutputLines)
      BY <1>1, LinesType, Zenon
<1> QED  BY <1>1, <1>2, <1>3, <1>4, <1>5, Zenon DEF s, x

(* An exporter whose output stays what it is, with a fault or without, as  *)
(* it fails.                                                               *)
LEMMA FailKeepsOutput ==
  ASSUME NEW f, NEW x \in ExporterStates, OutputOK(x, f)
  PROVE  OutputOK([x EXCEPT !.at = "failed", !.fault = TRUE], f)
<1> DEFINE y == [x EXCEPT !.at = "failed", !.fault = TRUE]
<1>1. /\ y.at = "failed" /\ y.fault /\ y.out = x.out /\ y.buffer = x.buffer /\ y.got = x.got
      /\ x.got \in Seq(Items) /\ x.out \in Seq(OutputLines)
      BY DEF ExporterStates
<1> HIDE DEF y
<1>2. ASSUME f # "pretty" PROVE IsPrefix(x.out, Lines(f, x.got))
  <2>1. CASE x.at # "writing"
        BY <1>2, <2>1 DEF OutputOK, Dealt
  <2>2. CASE x.at = "writing"
    <3>1. /\ Lines(f, Front(x.got)) \in Seq(OutputLines)
          /\ Lines(f, <<Last(x.got)>>) \in Seq(OutputLines)
          /\ Lines(f, x.got) = Lines(f, Front(x.got)) \o Lines(f, <<Last(x.got)>>)
          BY <1>1, <2>2, LinesOfLast DEF OutputOK
    <3>2. IsPrefix(x.out, Lines(f, Front(x.got)))
          BY <1>2, <2>2 DEF OutputOK, Dealt
    <3> DEFINE a == x.out
               b == Lines(f, Front(x.got))
               c == Lines(f, <<Last(x.got)>>)
    <3> HIDE DEF a, b, c
    <3>3. a \in Seq(OutputLines) /\ b \in Seq(OutputLines) /\ c \in Seq(OutputLines)
          BY <1>1, <3>1 DEF a, b, c
    <3>4. IsPrefix(a, b \o c)
          BY <3>2, <3>3, PrefixOfConcat DEF a, b
    <3> QED  BY <3>1, <3>4 DEF a, b, c
  <2> QED  BY <2>1, <2>2
<1> QED  BY <1>1, <1>2 DEF OutputOK, Dealt, y

(* What an exporter may write of an item: with no fault the item's lines   *)
(* are added to the output or to the buffer, and with a fault the output   *)
(* does not go beyond what it was and the buffer.                          *)
LEMMA WriteKeepsOutput ==
  ASSUME NEW f, NEW x \in ExporterStates, OutputOK(x, f), x.at = "writing",
         NEW out \in Seq(OutputLines), NEW buffer \in Seq(OutputLines), NEW fault \in BOOLEAN,
         f # "csv" => buffer = <<>>,
         ~fault => ~x.fault /\ out \o buffer = (x.out \o x.buffer) \o Lines(f, <<Last(x.got)>>),
         fault /\ f # "pretty" => out = x.out
  PROVE  OutputOK([x EXCEPT !.at = "receiving", !.out = out,
                            !.buffer = buffer, !.fault = fault], f)
<1> DEFINE y == [x EXCEPT !.at = "receiving", !.out = out, !.buffer = buffer, !.fault = fault]
           a == Lines(f, Front(x.got))
           b == Lines(f, <<Last(x.got)>>)
<1>1. /\ y.at = "receiving" /\ y.got = x.got
      /\ y.out = out /\ y.buffer = buffer /\ y.fault = fault
      /\ x.got \in Seq(Items) /\ x.out \in Seq(OutputLines) /\ x.buffer \in Seq(OutputLines)
      BY DEF ExporterStates
<1> HIDE DEF y
<1>2. a \in Seq(OutputLines) /\ b \in Seq(OutputLines) /\ Lines(f, x.got) = a \o b
      BY <1>1, LinesOfLast DEF OutputOK
<1>3. /\ ~x.fault => x.out \o x.buffer = a
      /\ f # "pretty" => IsPrefix(x.out, a)
      BY DEF OutputOK, Dealt
<1>4. ~fault => out \o buffer = a \o b
      BY <1>3
<1> HIDE DEF a, b
<1>5. ASSUME f # "pretty" PROVE IsPrefix(out, a \o b)
  <2>1. CASE fault
        BY <1>1, <1>2, <1>3, <1>5, <2>1, PrefixOfConcat
  <2>2. CASE ~fault
    <3>1. IsPrefix(out, out)
          BY PrefixByElement
    <3>2. IsPrefix(out, out \o buffer)
          BY <3>1, PrefixOfConcat
    <3> QED  BY <1>4, <2>2, <3>2
  <2> QED  BY <2>1, <2>2
<1> QED  BY <1>1, <1>2, <1>4, <1>5 DEF OutputOK, Dealt, y

(* What becomes of an exporter when it is opened, deals with an item, fails*)
(* or ends: the state it goes to keeps its output in order, and            *)
(* wgExporters.Done() is called exactly when it returns.                   *)
ExporterGoes(e, y) ==
  /\ y \in ExporterStates
  /\ exporter' = [exporter EXCEPT ![e] = y]
  /\ y.got = exporter[e].got
  /\ OutputOK(y, format[e])
  /\ exporter[e].at \notin {"ended", "failed"}
  /\ y.at = "ended" => chansClosed
  /\ wgExporters' = IF y.at \in {"ended", "failed"} THEN wgExporters - 1 ELSE wgExporters
  /\ UNCHANGED <<others, returned>>

(* The types of the state an exporter is in.                               *)
LEMMA ExporterStateType ==
  ASSUME PipelineInv, NEW e \in Exporters
  PROVE  exporter[e] \in ExporterStates /\ format[e] \in Formats
<1>1. format \in Seq(Formats)
      BY ExportAssumption DEF PipelineInv, ExportTypeOK
<1>2. exporter \in [Exporters -> ExporterStates]
      BY DEF PipelineInv, ExportTypeOK, ExporterStates, OutputLines
<1> QED  BY <1>1, <1>2 DEF Exporters, n

(* Open: nothing is written.                                               *)
LEMMA OpenGoes ==
  ASSUME PipelineInv, NEW e \in Exporters, Open(e)
  PROVE  \E y : ExporterGoes(e, y)
<1> DEFINE x == exporter[e]
           y == [x EXCEPT !.at = "receiving"]
<1>1. x \in ExporterStates /\ OutputOK(x, format[e])
      BY ExporterStateType DEF PipelineInv, ExporterInv
<1>2. exporter' = [exporter EXCEPT ![e] = y] /\ x.at = "open"
      BY DEF Open
<1>3. UNCHANGED <<others, endVars>>
      BY DEF Open
<1> HIDE DEF x
<1>4. /\ y \in ExporterStates /\ y.at = "receiving" /\ y.got = x.got
      /\ y.out = x.out /\ y.buffer = x.buffer /\ y.fault = x.fault
      BY <1>1 DEF ExporterStates
<1> HIDE DEF y
<1>5. OutputOK(y, format[e])
      BY <1>1, <1>2, <1>4 DEF OutputOK, Dealt
<1>6. ExporterGoes(e, y)
      BY <1>2, <1>3, <1>4, <1>5 DEF ExporterGoes, x, endVars
<1> QED  BY <1>6

(* Write: the item an exporter is writing comes after those before it.     *)
LEMMA WriteGoes ==
  ASSUME PipelineInv, NEW e \in Exporters, Write(e)
  PROVE  \E y : ExporterGoes(e, y)
<1> DEFINE x == exporter[e]
           f == format[e]
           l == Lines(f, <<Last(x.got)>>)
<1>1. /\ x \in ExporterStates /\ OutputOK(x, f) /\ x.at = "writing" /\ Line(e) = l
      /\ f \in Formats
      BY ExporterStateType DEF PipelineInv, ExporterInv, Write, Line
<1>2. /\ x.out \in Seq(OutputLines) /\ x.buffer \in Seq(OutputLines) /\ x.got \in Seq(Items)
      /\ x.fault \in BOOLEAN
      BY <1>1 DEF ExporterStates
<1>3. l \in Seq(OutputLines) /\ <<>> \in Seq(OutputLines)
  <2>1. x.got # <<>>
        BY <1>1 DEF OutputOK
  <2>2. l \in Seq(OutputLines)
    <3> HIDE DEF x, f
    <3> QED  BY <1>2, <2>1, LinesOfLast
  <2> QED  BY <2>2
<1>4. ASSUME NEW out \in Seq(OutputLines), NEW buffer \in Seq(OutputLines),
             NEW fault \in BOOLEAN, Written(e, out, buffer, fault),
             f # "csv" => buffer = <<>>,
             ~fault => ~x.fault /\ out \o buffer = (x.out \o x.buffer) \o l,
             fault /\ f # "pretty" => out = x.out
      PROVE  \E y : ExporterGoes(e, y)
  <2> DEFINE y == [x EXCEPT !.at = "receiving", !.out = out, !.buffer = buffer,
                            !.fault = fault]
  <2>1. exporter' = [exporter EXCEPT ![e] = y] /\ UNCHANGED <<others, endVars>>
        BY <1>4 DEF Written
  <2> HIDE DEF x
  <2>2. OutputOK(y, f)
        BY <1>1, <1>4, WriteKeepsOutput
  <2>3. y \in ExporterStates /\ y.at = "receiving" /\ y.got = x.got
        BY <1>1, <1>4 DEF ExporterStates
  <2> HIDE DEF y
  <2>4. ExporterGoes(e, y)
        BY <1>1, <2>1, <2>2, <2>3 DEF ExporterGoes, x, endVars
  <2> QED  BY <2>4
<1>5. CASE WriteItem(e)
  <2>1. /\ f # "csv" /\ (x.fault /\ f # "pretty" => l = <<>>)
        /\ Written(e, x.out \o l, <<>>, x.fault)
        BY <1>1, <1>5 DEF WriteItem, Stuck
  <2>2. x.buffer = <<>>
        BY <1>1, <2>1 DEF OutputOK
  <2> HIDE DEF x, f, l
  <2>3. /\ x.out \o l \in Seq(OutputLines)
        /\ (x.out \o l) \o <<>> = (x.out \o x.buffer) \o l
        /\ x.out \o <<>> = x.out
        BY <1>2, <1>3, <2>2
  <2> QED  BY <1>2, <1>3, <1>4, <2>1, <2>3
<1>6. CASE LoseItem(e)
  <2>1. f # "csv" /\ Written(e, x.out, <<>>, TRUE)
        BY <1>6 DEF LoseItem
  <2> QED  BY <1>2, <1>3, <1>4, <2>1
<1>7. CASE BufferRow(e)
  <2>1. f = "csv" /\ (Stuck(e) <=> x.fault)
        BY <1>7 DEF BufferRow, Stuck
  <2>2. CASE ~x.fault /\ Written(e, x.out, x.buffer \o l, x.fault)
    <3> HIDE DEF x, f, l
    <3>1. x.buffer \o l \in Seq(OutputLines)
          BY <1>2, <1>3
    <3>2. (x.out \o x.buffer) \o l = x.out \o (x.buffer \o l)
      <4> DEFINE a == x.out
                 b == x.buffer
      <4>1. a \in Seq(OutputLines) /\ b \in Seq(OutputLines)
            BY <1>2
      <4> HIDE DEF a, b
      <4>2. l \in Seq(OutputLines)
            BY <1>3
      <4>3. (a \o b) \o l = a \o (b \o l)
            BY <4>1, <4>2, ConcatAssociative
      <4> QED  BY <4>3 DEF a, b
    <3> QED  BY <1>2, <1>4, <2>1, <2>2, <3>1, <3>2
  <2>3. CASE ~x.fault /\ Written(e, x.out \o x.buffer, l, x.fault)
    <3> HIDE DEF x, f, l
    <3>1. x.out \o x.buffer \in Seq(OutputLines)
          BY <1>2
    <3> QED  BY <1>2, <1>3, <1>4, <2>1, <2>3, <3>1
  <2>4. CASE Written(e, x.out, <<>>, TRUE)
        BY <1>2, <1>3, <1>4, <2>1, <2>4
  <2> QED  BY <1>1, <1>7, <2>1, <2>2, <2>3, <2>4 DEF BufferRow
<1> QED  BY <1>5, <1>6, <1>7 DEF Write

(* Fail: Export returns an error.                                          *)
LEMMA FailGoes ==
  ASSUME PipelineInv, NEW e \in Exporters, Fail(e)
  PROVE  \E y : ExporterGoes(e, y)
<1> DEFINE x == exporter[e]
           y == [x EXCEPT !.at = "failed", !.fault = TRUE]
<1>1. x \in ExporterStates /\ OutputOK(x, format[e]) /\ x.at \notin {"ended", "failed"}
      BY ExporterStateType DEF PipelineInv, ExporterInv, Fail
<1>2. /\ exporter' = [exporter EXCEPT ![e] = y] /\ wgExporters' = wgExporters - 1
      /\ UNCHANGED <<others, returned>>
      BY DEF Fail, Return
<1> HIDE DEF x
<1>3. OutputOK(y, format[e])
      BY <1>1, FailKeepsOutput
<1>4. y \in ExporterStates /\ y.at = "failed" /\ y.got = x.got
      BY <1>1 DEF ExporterStates
<1> HIDE DEF y
<1>5. ExporterGoes(e, y)
      BY <1>1, <1>2, <1>3, <1>4 DEF ExporterGoes, x
<1> QED  BY <1>5

(* Finish: the channel is closed, and CSV flushes what it holds or loses   *)
(* it.                                                                     *)
LEMMA FinishGoes ==
  ASSUME PipelineInv, NEW e \in Exporters, Finish(e)
  PROVE  \E y : ExporterGoes(e, y)
<1> DEFINE x == exporter[e]
           z == [x EXCEPT !.at = "ended", !.buffer = <<>>]
<1>1. x \in ExporterStates /\ OutputOK(x, format[e]) /\ x.at = "receiving" /\ chansClosed
      BY ExporterStateType DEF PipelineInv, ExporterInv, Finish, ChannelEnded
<1>2. PICK y \in Ended(e) : Return(e, y)
      BY DEF Finish
<1>3. /\ exporter' = [exporter EXCEPT ![e] = y] /\ wgExporters' = wgExporters - 1
      /\ UNCHANGED <<others, returned>>
      BY <1>2 DEF Return
<1>4. \/ y = z /\ (x.fault \/ x.buffer = <<>>)
      \/ y = [z EXCEPT !.out = @ \o x.buffer] /\ ~x.fault
      \/ y = [z EXCEPT !.fault = TRUE]
      BY <1>2 DEF Ended
<1> HIDE DEF x
<1>5. /\ x.out \in Seq(OutputLines) /\ x.buffer \in Seq(OutputLines) /\ x.got \in Seq(Items)
      /\ x.fault \in BOOLEAN
      BY <1>1 DEF ExporterStates
<1>6. /\ y \in ExporterStates /\ y.at = "ended" /\ y.got = x.got /\ y.buffer = <<>>
      /\ \/ y.out = x.out /\ y.fault = x.fault /\ (x.fault \/ x.buffer = <<>>)
         \/ y.out = x.out \o x.buffer /\ ~x.fault
         \/ y.out = x.out /\ y.fault
  <2>1. /\ z \in ExporterStates /\ z.at = "ended" /\ z.got = x.got /\ z.buffer = <<>>
        /\ z.out = x.out /\ z.fault = x.fault
    <3>1. <<>> \in Seq(OutputLines)
          OBVIOUS
    <3> QED  BY <1>1, <1>5, <3>1 DEF ExporterStates
  <2> HIDE DEF z
  <2>2. x.out \o x.buffer \in Seq(OutputLines)
        BY <1>5
  <2>3. CASE y = z /\ (x.fault \/ x.buffer = <<>>)
        BY <2>1, <2>3
  <2>4. CASE y = [z EXCEPT !.out = @ \o x.buffer] /\ ~x.fault
        BY <2>1, <2>2, <2>4 DEF ExporterStates
  <2>5. CASE y = [z EXCEPT !.fault = TRUE]
        BY <2>1, <2>5 DEF ExporterStates
  <2> QED  BY <1>4, <2>3, <2>4, <2>5
<1> HIDE DEF z
<1>7. OutputOK(y, format[e])
  <2> DEFINE f == format[e]
             a == Lines(f, x.got)
  <2> HIDE DEF a, f
  <2>1. /\ ~x.fault => x.out \o x.buffer = a
        /\ f # "pretty" => IsPrefix(x.out, a)
        BY <1>1 DEF OutputOK, Dealt, a, f
  <2>2. ASSUME ~y.fault PROVE y.out \o <<>> = a
    <3>1. CASE y.out = x.out /\ x.buffer = <<>>
          BY <1>5, <1>6, <2>1, <2>2, <3>1
    <3>2. CASE y.out = x.out \o x.buffer /\ ~x.fault
      <4>1. x.out \o x.buffer \in Seq(OutputLines)
            BY <1>5
      <4>2. y.out \o <<>> = y.out
            BY <3>2, <4>1, ConcatEmptySeq
      <4> QED  BY <2>1, <3>2, <4>2
    <3> QED  BY <1>6, <2>2, <3>1, <3>2
  <2>3. ASSUME f # "pretty" PROVE IsPrefix(y.out, a)
    <3>1. CASE y.out = x.out
          BY <2>1, <2>3, <3>1
    <3>2. CASE y.out # x.out
      <4>1. x.out \o x.buffer \in Seq(OutputLines)
            BY <1>5
      <4>2. y.out = a /\ y.out \in Seq(OutputLines)
            BY <1>6, <2>1, <3>2, <4>1
      <4> QED  BY <4>2, PrefixByElement
    <3> QED  BY <3>1, <3>2
  <2> QED  BY <1>6, <2>2, <2>3 DEF OutputOK, Dealt, a, f
<1>8. ExporterGoes(e, y)
      BY <1>1, <1>3, <1>6, <1>7 DEF ExporterGoes, x
<1> QED  BY <1>8

(* Every step of an exporter takes it to such a state.                     *)
LEMMA ExporterStep ==
  ASSUME PipelineInv, NEW e \in Exporters, Open(e) \/ Write(e) \/ Fail(e) \/ Finish(e)
  PROVE  \E y : ExporterGoes(e, y)
BY OpenGoes, WriteGoes, FailGoes, FinishGoes, Zenon

-----------------------------------------------------------------------------
(* The steps of the pipeline *)

(* The types but for the counter, which the invariant has the value of.    *)
TypesOK ==
  /\ format \in Configurations
  /\ offered \subseteq Items
  /\ accepted \in Seq(Items)
  /\ exportsClosed \in BOOLEAN
  /\ queue \in Seq(Items) /\ Len(queue) <= 1
  /\ inHand \in Items \cup {NoItem}
  /\ next \in 1 .. n + 1
  /\ chansClosed \in BOOLEAN
  /\ exporter \in [Exporters -> ExporterStates]
  /\ returned \in BOOLEAN

(* The counter of g.wgExporters stays within the number of goroutines.     *)
LEMMA CountType ==
  ASSUME TypesOK, CountInv
  PROVE  ExportTypeOK
<1>1. IsFiniteSet(Exporters) /\ Cardinality(Exporters) = n /\ n \in Nat
  <2>1. n \in Nat
        BY ExportAssumption DEF TypesOK, n
  <2> QED  BY <2>1, FS_Interval DEF Exporters
<1>2. Cardinality(Running) \in 0 .. n
  <2>1. Running \subseteq Exporters
        BY DEF Running
  <2> QED  BY <1>1, <2>1, FS_Subset, FS_CardinalityType
<1>3. wgExporters \in 0 .. n + 1
      BY <1>1, <1>2 DEF CountInv
<1> QED  BY <1>3 DEF TypesOK, ExportTypeOK, ExporterStates, OutputLines

(* The types of PipelineInv, and the parts of it which a step leaves as    *)
(* they are as long as the exporters and their counter stay.               *)
LEMMA InvTypes == PipelineInv => TypesOK
BY DEF PipelineInv, ExportTypeOK, TypesOK, ExporterStates, OutputLines

(* Running stays finite.                                                   *)
LEMMA RunningFinite ==
  ASSUME TypesOK
  PROVE  IsFiniteSet(Running) /\ Cardinality(Running) \in Nat /\ n \in Nat
<1>1. n \in Nat
      BY ExportAssumption DEF TypesOK, n
<1>2. IsFiniteSet(Exporters)
      BY <1>1, FS_Interval DEF Exporters
<1>3. Running \subseteq Exporters
      BY DEF Running
<1> QED  BY <1>1, <1>2, <1>3, FS_Subset, FS_CardinalityType

(* A step of an exporter.                                                  *)
LEMMA ExporterKeepsInv ==
  ASSUME PipelineInv, NEW e \in Exporters, NEW y, ExporterGoes(e, y)
  PROVE  PipelineInv'
<1>1. /\ TypesOK /\ exporter \in [Exporters -> ExporterStates]
      /\ exporter' = [exporter EXCEPT ![e] = y] /\ y \in ExporterStates
      BY InvTypes DEF ExporterGoes, TypesOK
<1>2. /\ UNCHANGED <<format, offered, accepted, exportsClosed, queue, inHand, next,
                     chansClosed, returned>>
      /\ n' = n /\ Exporters' = Exporters /\ Taken' = Taken
      BY DEF ExporterGoes, others, callbackVars, distributorVars, n, Exporters, Taken
<1>3. /\ exporter'[e] = y
      /\ \A d \in Exporters \ {e} : exporter'[d] = exporter[d]
      BY <1>1
<1>4. TypesOK'
      BY <1>1, <1>2 DEF TypesOK
<1>5. DistributorInv'
  <2>1. \A d \in Exporters : exporter'[d].got = exporter[d].got
        BY <1>3 DEF ExporterGoes
  <2> QED  BY <1>2, <2>1 DEF PipelineInv, DistributorInv
<1>6. ExporterInv'
      BY <1>2, <1>3 DEF PipelineInv, ExporterInv, ExporterGoes
<1>7. CountInv'
  <2>1. e \in Running
        BY DEF ExporterGoes, Running
  <2>2. Running' = IF y.at \in {"ended", "failed"} THEN Running \ {e} ELSE Running
        BY <1>2, <1>3, <2>1 DEF Running
  <2>3. IsFiniteSet(Running) /\ Cardinality(Running) \in Nat /\ n # 0
        BY <1>1, RunningFinite DEF Exporters
  <2>4. Cardinality(Running \ {e}) = Cardinality(Running) - 1 /\ Cardinality(Running) # 0
        BY <2>1, <2>3, FS_RemoveElement, FS_EmptySet
  <2>5. wgExporters = Cardinality(Running) /\ ~returned
        BY <2>3, <2>4 DEF PipelineInv, CountInv
  <2> QED  BY <1>2, <2>2, <2>3, <2>4, <2>5 DEF CountInv, ExporterGoes
<1> QED  BY <1>4, <1>5, <1>6, <1>7, CountType, PTL DEF PipelineInv

(* A step that is not one of the exporters' own leaves ExporterInv and     *)
(* CountInv as they are when it leaves the exporters, their counter and    *)
(* returned alone.                                                         *)
LEMMA OthersKeepExporters ==
  ASSUME PipelineInv, UNCHANGED <<format, exporter, endVars>>,
         chansClosed => chansClosed', exportsClosed => exportsClosed'
  PROVE  /\ n' = n /\ Exporters' = Exporters
         /\ ExporterInv' /\ CountInv'
<1>1. n' = n /\ Exporters' = Exporters
      BY DEF n, Exporters
<1>2. Running' = Running
      BY <1>1 DEF Running
<1> QED  BY <1>1, <1>2 DEF PipelineInv, ExporterInv, CountInv, endVars

(* A callback sends an item, or Start closes g.Exports or goes on.         *)
LEMMA SendersKeepInv ==
  ASSUME PipelineInv,
         \/ \E i \in Items : Offer(i) \/ Accept(i)
         \/ CloseExports \/ WaitExporters
  PROVE  PipelineInv'
<1>1. TypesOK
      BY InvTypes
<1>2. ASSUME NEW i \in Items, Offer(i) PROVE PipelineInv'
  <2>1. /\ UNCHANGED <<format, exporter, endVars, accepted, exportsClosed, queue,
                       inHand, next, chansClosed>>
        /\ offered' = offered \cup {i} /\ ~exportsClosed
        BY <1>2 DEF Offer, distributorVars
  <2>2. n' = n /\ Exporters' = Exporters /\ ExporterInv' /\ CountInv'
        BY <2>1, OthersKeepExporters
  <2>3. TypesOK'
        BY <1>1, <2>1, <2>2 DEF TypesOK, endVars
  <2>4. DistributorInv'
        BY <2>1, <2>2 DEF PipelineInv, DistributorInv, Taken
  <2> QED  BY <2>2, <2>3, <2>4, CountType, PTL DEF PipelineInv
<1>3. ASSUME NEW i \in Items, Accept(i) PROVE PipelineInv'
  <2>1. /\ UNCHANGED <<format, exporter, endVars, exportsClosed, inHand, next, chansClosed>>
        /\ offered' = offered \ {i} /\ i \in offered /\ Len(queue) < 1
        /\ accepted' = Append(accepted, i) /\ queue' = Append(queue, i)
        BY <1>3 DEF Accept, HasRoom, distributorVars
  <2>2. n' = n /\ Exporters' = Exporters /\ ExporterInv' /\ CountInv'
        BY <2>1, OthersKeepExporters
  <2>3. /\ queue = <<>> /\ queue' = <<i>> /\ accepted \in Seq(Items)
        /\ Len(accepted') = Len(accepted) + 1
        /\ \A k \in 1 .. Len(accepted) : accepted'[k] = accepted[k]
        /\ accepted'[Len(accepted')] = i
    <3>1. accepted \in Seq(Items) /\ queue \in Seq(Items)
          BY <1>1 DEF TypesOK
    <3>2. queue = <<>>
          BY <2>1, <3>1
    <3> QED  BY <2>1, <3>1, <3>2
  <2>4. TypesOK'
        BY <1>1, <2>1, <2>2, <2>3 DEF TypesOK, endVars
  <2>5. DistributorInv'
    <3>1. Taken' = Taken /\ Taken = Len(accepted)
          BY <2>3 DEF Taken
    <3>2. inHand' # NoItem => next' \in Exporters' /\ Taken' >= 1 /\ inHand' = accepted'[Taken']
          BY <2>1, <2>2, <2>3, <3>1 DEF PipelineInv, DistributorInv
    <3>3. queue' # <<>> => accepted' # <<>> /\ queue' = <<Last(accepted')>>
          BY <2>1, <2>3 DEF Last
    <3>4. ASSUME NEW e \in Exporters PROVE IsPrefix(exporter[e].got, accepted')
      <4>1. /\ exporter[e].got \in Seq(Items) /\ <<i>> \in Seq(Items)
            /\ accepted' = accepted \o <<i>>
        <5>1. exporter[e].got \in Seq(Items)
              BY <1>1 DEF TypesOK, ExporterStates
        <5> QED  BY <2>1, <2>3, <5>1, AppendIsConcat
      <4>2. IsPrefix(exporter[e].got, accepted)
            BY DEF PipelineInv, DistributorInv
      <4> HIDE DEF Accept
      <4> QED  BY <2>3, <4>1, <4>2, PrefixOfConcat
    <3>5. ~exportsClosed
          BY <2>1 DEF PipelineInv, DistributorInv
    <3> QED  BY <2>1, <2>2, <3>1, <3>2, <3>3, <3>4, <3>5 DEF PipelineInv, DistributorInv
  <2> QED  BY <2>2, <2>4, <2>5, CountType, PTL DEF PipelineInv
<1>4. CASE CloseExports
  <2>1. /\ UNCHANGED <<format, exporter, endVars, offered, accepted, queue,
                       inHand, next, chansClosed>>
        /\ exportsClosed' = TRUE /\ offered = {}
        BY <1>4 DEF CloseExports, distributorVars
  <2>2. n' = n /\ Exporters' = Exporters /\ ExporterInv' /\ CountInv'
        BY <2>1, OthersKeepExporters
  <2>3. TypesOK'
        BY <1>1, <2>1, <2>2 DEF TypesOK, endVars
  <2>4. DistributorInv'
        BY <2>1, <2>2 DEF PipelineInv, DistributorInv, Taken
  <2> QED  BY <2>2, <2>3, <2>4, CountType, PTL DEF PipelineInv
<1>5. CASE WaitExporters
  <2>1. /\ UNCHANGED <<format, exporter, offered, accepted, exportsClosed, queue,
                       inHand, next, chansClosed, wgExporters>>
        /\ returned' = TRUE /\ exportsClosed /\ wgExporters = 0
        BY <1>5 DEF WaitExporters, distributorVars, callbackVars, AllDone
  <2>2. n' = n /\ Exporters' = Exporters /\ Running' = Running
        BY <2>1 DEF n, Exporters, Running
  <2>3. TypesOK'
        BY <1>1, <2>1, <2>2 DEF TypesOK
  <2>4. DistributorInv' /\ ExporterInv'
        BY <2>1, <2>2 DEF PipelineInv, DistributorInv, ExporterInv, Taken
  <2>5. CountInv'
        BY <2>1, <2>2 DEF PipelineInv, CountInv
  <2> QED  BY <2>3, <2>4, <2>5, CountType, PTL DEF PipelineInv
<1> QED  BY <1>2, <1>3, <1>4, <1>5

(* The distributing goroutine takes an item, hands it to an exporter or    *)
(* closes the channels; or the items are drained.                          *)
LEMMA DistributeKeepsInv ==
  ASSUME PipelineInv, Distribute
  PROVE  PipelineInv'
<1>1. TypesOK /\ n \in Nat
      BY InvTypes, RunningFinite
<1>2. CASE Take
  <2>1. /\ UNCHANGED <<format, exporter, endVars, offered, accepted, exportsClosed, chansClosed>>
        /\ inHand' = Head(queue) /\ queue' = Tail(queue) /\ next' = 1
        /\ inHand = NoItem /\ queue # <<>> /\ n # 0
        BY <1>2 DEF Take, callbackVars
  <2>2. n' = n /\ Exporters' = Exporters /\ ExporterInv' /\ CountInv'
        BY <2>1, OthersKeepExporters
  <2>3. /\ accepted \in Seq(Items) /\ accepted # <<>> /\ queue = <<Last(accepted)>>
        /\ Len(accepted) >= 1 /\ Last(accepted) \in Items
        BY <1>1, <2>1 DEF TypesOK, PipelineInv, DistributorInv, Last
  <2>4. queue' = <<>> /\ inHand' = accepted[Len(accepted)] /\ inHand' \in Items
        BY <2>1, <2>3 DEF Last
  <2>5. TypesOK'
        BY <1>1, <2>1, <2>2, <2>4 DEF TypesOK, endVars
  <2>6. Taken' = Len(accepted) /\ Taken = Len(accepted) - 1 /\ Len(accepted) \in Nat
        BY <2>1, <2>3, <2>4 DEF Taken
  <2>7. /\ inHand' # NoItem
        /\ next' \in Exporters' /\ Taken' >= 1 /\ inHand' = accepted'[Taken']
        BY <1>1, <2>1, <2>2, <2>3, <2>4, <2>6, ExportAssumption DEF Exporters
  <2>8. DistributorInv'
    <3>1. ASSUME NEW e \in Exporters
          PROVE  /\ Len(exporter[e].got) = IF inHand' # NoItem /\ next' <= e THEN Taken' - 1 ELSE Taken'
                 /\ IsPrefix(exporter[e].got, accepted)
      <4>1. next' <= e
            BY <1>1, <2>1 DEF Exporters
      <4> QED  BY <2>1, <2>6, <2>7, <4>1 DEF PipelineInv, DistributorInv
    <3>2. ~chansClosed
          BY <2>1 DEF PipelineInv, DistributorInv
    <3> QED  BY <2>1, <2>2, <2>4, <2>7, <3>1, <3>2 DEF PipelineInv, DistributorInv
  <2> QED  BY <2>2, <2>5, <2>8, CountType, PTL DEF PipelineInv
<1>3. CASE CloseChans
  <2>1. /\ UNCHANGED <<format, exporter, endVars, offered, accepted, exportsClosed, queue,
                       inHand, next>>
        /\ inHand = NoItem /\ queue = <<>> /\ exportsClosed /\ chansClosed' = TRUE
        BY <1>3 DEF CloseChans, callbackVars
  <2>2. n' = n /\ Exporters' = Exporters /\ ExporterInv' /\ CountInv'
        BY <2>1, OthersKeepExporters
  <2>3. TypesOK'
        BY <1>1, <2>1, <2>2 DEF TypesOK, endVars
  <2>4. DistributorInv'
        BY <2>1, <2>2 DEF PipelineInv, DistributorInv, Taken
  <2> QED  BY <2>2, <2>3, <2>4, CountType, PTL DEF PipelineInv
<1>4. CASE Drain
  <2>1. /\ UNCHANGED <<format, exporter, endVars, offered, accepted, exportsClosed,
                       inHand, next, chansClosed>>
        /\ queue' = Tail(queue) /\ queue # <<>> /\ n = 0
        BY <1>4 DEF Drain, callbackVars, distributorVars
  <2>2. n' = n /\ Exporters' = Exporters /\ ExporterInv' /\ CountInv'
        BY <2>1, OthersKeepExporters
  <2>3. queue' = <<>>
        BY <2>1 DEF PipelineInv, DistributorInv
  <2>4. TypesOK'
        BY <1>1, <2>1, <2>2, <2>3 DEF TypesOK, endVars
  <2>5. Exporters = {}
        BY <2>1 DEF Exporters
  <2>6. inHand = NoItem
        BY <2>5 DEF PipelineInv, DistributorInv
  <2>7. DistributorInv'
        BY <2>1, <2>2, <2>3, <2>5, <2>6 DEF PipelineInv, DistributorInv
  <2> QED  BY <2>2, <2>4, <2>7, CountType, PTL DEF PipelineInv
<1>5. CASE DrainEnds
  <2>1. /\ UNCHANGED <<format, exporter, offered, accepted, exportsClosed, queue,
                       inHand, next, chansClosed, returned>>
        /\ wgExporters' = wgExporters - 1 /\ wgExporters > 0 /\ n = 0
        BY <1>5 DEF DrainEnds, callbackVars, distributorVars
  <2>2. n' = n /\ Exporters' = Exporters /\ Running' = Running
        BY <2>1 DEF n, Exporters, Running
  <2>3. TypesOK'
        BY <1>1, <2>1, <2>2 DEF TypesOK
  <2>4. DistributorInv' /\ ExporterInv'
        BY <2>1, <2>2 DEF PipelineInv, DistributorInv, ExporterInv, Taken
  <2>5. CountInv'
        BY <2>1, <2>2 DEF PipelineInv, CountInv
  <2> QED  BY <2>3, <2>4, <2>5, CountType, PTL DEF PipelineInv
<1>6. ASSUME NEW e \in Exporters, Hand(e) PROVE PipelineInv'
  <2> DEFINE x == exporter[e]
             y == [x EXCEPT !.at = "writing", !.got = Append(@, inHand)]
  <2>1. /\ UNCHANGED <<format, endVars, offered, accepted, exportsClosed, queue, chansClosed>>
        /\ exporter' = [exporter EXCEPT ![e] = y]
        /\ x.at = "receiving" /\ next = e /\ inHand # NoItem
        /\ next' = next + 1 /\ inHand' = IF e = n THEN NoItem ELSE inHand
        BY <1>6 DEF Hand, callbackVars
  <2>2. /\ x \in ExporterStates /\ inHand \in Items /\ Exporters = 1 .. n
        /\ exporter \in [Exporters -> ExporterStates]
        BY <1>1, <2>1 DEF TypesOK, Exporters
  <2>3. n' = n /\ Exporters' = Exporters /\ Taken' = Taken
        BY <2>1 DEF n, Exporters, Taken
  <2>4. /\ x.got \in Seq(Items) /\ Len(x.got) = Taken - 1 /\ Taken \in Nat /\ Taken >= 1
        /\ inHand = accepted[Taken] /\ IsPrefix(x.got, accepted) /\ Taken <= Len(accepted)
        /\ accepted \in Seq(Items) /\ next \in 1 .. n
        BY <1>1, <2>1, <2>2 DEF PipelineInv, DistributorInv, TypesOK, ExporterStates, Taken
  <2>5. /\ exporter'[e] = y
        /\ \A d \in Exporters \ {e} : exporter'[d] = exporter[d]
        BY <2>1, <2>2
  <2>6. OutputOK(x, format[e])
        BY DEF PipelineInv, ExporterInv
  <2>7. Running' = Running
    <3>1. y.at = "writing"
          BY <2>2 DEF ExporterStates
    <3> QED  BY <2>1, <2>3, <2>5, <3>1 DEF Running
  <2> HIDE DEF x
  <2>8. /\ y \in ExporterStates /\ y.at = "writing" /\ y.got = Append(x.got, inHand)
        /\ y.out = x.out /\ y.buffer = x.buffer /\ y.fault = x.fault
    <3>1. Append(x.got, inHand) \in Seq(Items)
          BY <2>2, <2>4
    <3> QED  BY <2>2, <3>1 DEF ExporterStates
  <2> HIDE DEF y
  <2>9. y.got \in Seq(Items) /\ y.got # <<>> /\ Front(y.got) = x.got
        BY <2>2, <2>4, <2>8 DEF Front
  <2>10. OutputOK(y, format[e])
        BY <2>1, <2>6, <2>8, <2>9 DEF OutputOK, Dealt, x
  <2>11. Len(y.got) = Taken /\ IsPrefix(y.got, accepted)
    <3>1. /\ Len(y.got) = Taken
          /\ \A k \in 1 .. Len(x.got) : y.got[k] = x.got[k]
          /\ y.got[Taken] = accepted[Taken]
          BY <2>2, <2>4, <2>8
    <3>2. \A k \in 1 .. Len(x.got) : x.got[k] = accepted[k]
          BY <2>4, PrefixByElement
    <3>3. \A k \in 1 .. Len(y.got) : y.got[k] = accepted[k]
          BY <2>4, <3>1, <3>2
    <3> QED  BY <2>4, <2>9, <3>1, <3>3, PrefixByElement
  <2>12. TypesOK'
        BY <1>1, <2>1, <2>2, <2>3, <2>4, <2>8 DEF TypesOK, endVars
  <2>13. ExporterInv' /\ CountInv'
    <3>1. ExporterInv'
          BY <2>1, <2>3, <2>5, <2>8, <2>10 DEF PipelineInv, ExporterInv
    <3>2. CountInv'
          BY <2>1, <2>3, <2>7 DEF PipelineInv, CountInv, endVars
    <3> QED  BY <3>1, <3>2
  <2>14. DistributorInv'
    <3>1. ASSUME NEW d \in Exporters
          PROVE  /\ Len(exporter'[d].got) =
                      IF inHand' # NoItem /\ next' <= d THEN Taken' - 1 ELSE Taken'
                 /\ IsPrefix(exporter'[d].got, accepted')
      <4>1. /\ Len(exporter[d].got) = IF next <= d THEN Taken - 1 ELSE Taken
            /\ IsPrefix(exporter[d].got, accepted)
            BY <2>1 DEF PipelineInv, DistributorInv
      <4>2. d \in 1 .. n /\ e \in 1 .. n
            BY <2>2
      <4>3. CASE d = e
            BY <1>1, <2>1, <2>3, <2>4, <2>5, <2>11, <4>2, <4>3
      <4>4. CASE d # e
        <5>1. exporter'[d] = exporter[d] /\ (next <= d <=> next' <= d)
              BY <1>1, <2>1, <2>5, <4>2, <4>4
        <5>2. inHand' # NoItem \/ ~(next <= d)
              BY <1>1, <2>1, <4>2, <4>4
        <5> QED  BY <2>1, <2>3, <4>1, <5>1, <5>2
      <4> QED  BY <4>3, <4>4
    <3>2. inHand' # NoItem => next' \in Exporters' /\ Taken' >= 1 /\ inHand' = accepted'[Taken']
          BY <1>1, <2>1, <2>2, <2>3, <2>4
    <3>3. ~chansClosed
          BY <2>1 DEF PipelineInv, DistributorInv
    <3> QED  BY <2>1, <2>3, <3>1, <3>2, <3>3 DEF PipelineInv, DistributorInv
  <2> QED  BY <2>12, <2>13, <2>14, CountType, PTL DEF PipelineInv
<1> QED  BY <1>2, <1>3, <1>4, <1>5, <1>6 DEF Distribute

(* PipelineInv holds at the start.                                         *)
LEMMA InitInv == Init => PipelineInv
<1> SUFFICES ASSUME Init PROVE PipelineInv
    OBVIOUS
<1>1. n \in Nat /\ <<>> \in Seq(Items) /\ <<>> \in Seq(OutputLines) /\ Len(<<>>) = 0
      BY ExportAssumption DEF Init, n
<1>2. TypesOK
  <2>1. Opening \in ExporterStates
        BY <1>1 DEF Opening, ExporterStates
  <2>2. exporter \in [Exporters -> ExporterStates]
        BY <2>1 DEF Init
  <2>3. next \in 1 .. n + 1
        BY <1>1 DEF Init
  <2>4. queue \in Seq(Items) /\ Len(queue) <= 1 /\ accepted \in Seq(Items)
        BY <1>1 DEF Init
  <2> QED  BY <2>2, <2>3, <2>4 DEF Init, TypesOK
<1>3. \A e \in Exporters : exporter[e] = Opening
      BY DEF Init
<1>4. DistributorInv
  <2>1. IsPrefix(<<>>, <<>>)
        BY DEF IsPrefix
  <2>2. Taken = 0
        BY DEF Init, Taken
  <2>3. \A e \in Exporters : exporter[e].got = <<>>
        BY <1>3 DEF Opening
  <2>4. ASSUME NEW e \in Exporters
        PROVE  Len(exporter[e].got) = 0 /\ IsPrefix(exporter[e].got, accepted)
        BY <2>1, <2>3 DEF Init
  <2> QED  BY <2>2, <2>4 DEF Init, DistributorInv
<1>5. ASSUME NEW f PROVE OutputOK(Opening, f)
  <2>1. /\ Opening.at = "open" /\ Opening.got = <<>> /\ Opening.out = <<>>
        /\ Opening.buffer = <<>> /\ Opening.fault = FALSE
        BY DEF Opening
  <2>2. <<>> \o <<>> = <<>> /\ IsPrefix(<<>>, <<>>)
        BY DEF IsPrefix
  <2>3. Lines(f, <<>>) = <<>>
        BY LinesType
  <2> QED  BY <2>1, <2>2, <2>3, Zenon DEF OutputOK, Dealt
<1>6. ExporterInv
      BY <1>3, <1>5 DEF ExporterInv, Opening
<1>7. CountInv
  <2>1. Running = Exporters
        BY <1>3 DEF Running, Opening
  <2>2. Cardinality(Exporters) = n
        BY <1>1, FS_Interval DEF Exporters
  <2> QED  BY <2>1, <2>2 DEF Init, CountInv
<1> QED  BY <1>2, <1>4, <1>6, <1>7, CountType DEF PipelineInv

(* Every step of the pipeline keeps it.                                    *)
LEMMA StepInv == PipelineInv /\ [Next]_exportVars => PipelineInv'
<1> SUFFICES ASSUME PipelineInv, [Next]_exportVars PROVE PipelineInv'
    OBVIOUS
<1>1. CASE UNCHANGED exportVars
  <2>1. UNCHANGED <<format, offered, accepted, exportsClosed, queue, inHand, next,
                    chansClosed, exporter, wgExporters, returned>>
        BY <1>1 DEF exportVars, callbackVars, distributorVars, endVars
  <2>2. n' = n /\ Exporters' = Exporters /\ Running' = Running /\ Taken' = Taken
        BY <2>1 DEF n, Exporters, Running, Taken
  <2>3. ExportTypeOK'
        BY <2>1, <2>2 DEF PipelineInv, ExportTypeOK
  <2>4. DistributorInv' /\ ExporterInv' /\ CountInv'
        BY <2>1, <2>2 DEF PipelineInv, DistributorInv, ExporterInv, CountInv
  <2> QED  BY <2>3, <2>4 DEF PipelineInv
<1>2. ASSUME NEW e \in Exporters, Open(e) \/ Write(e) \/ Fail(e) \/ Finish(e)
      PROVE  PipelineInv'
      BY <1>2, ExporterStep, ExporterKeepsInv
<1> QED  BY <1>1, <1>2, SendersKeepInv, DistributeKeepsInv DEF Next

(* PipelineInv is an invariant of the pipeline.                            *)
THEOREM PipelineInvariant == Spec => []PipelineInv
BY InitInv, StepInv, PTL DEF Spec

-----------------------------------------------------------------------------
(* What the invariant gives *)

(* g.Exports never holds more than one item, g.wgExporters never goes below*)
(* zero, and every other variable has its type.                            *)
THEOREM ExportTypeCorrect == Spec => []ExportTypeOK
BY PipelineInvariant, PTL DEF PipelineInv

(* What an exporter got, and its lines, are the first of all.              *)
LEMMA DealtIsPrefix ==
  ASSUME PipelineInv, NEW e \in Exporters
  PROVE  LET d == Dealt(exporter[e]) IN
         /\ d \in Seq(Items)
         /\ Len(d) + 3 >= Len(accepted)
         /\ IsPrefix(d, accepted)
         /\ IsPrefix(Lines(format[e], d), Lines(format[e], accepted))
<1> DEFINE x == exporter[e]
           d == Dealt(x)
<1>1. x \in ExporterStates /\ x.got \in Seq(Items) /\ TypesOK
      BY ExporterStateType, InvTypes DEF ExporterStates
<1>2. /\ accepted \in Seq(Items) /\ Len(queue) \in Nat /\ Len(queue) <= 1
      /\ IsPrefix(x.got, accepted) /\ Len(x.got) + 2 >= Len(accepted)
  <2>1. /\ accepted \in Seq(Items) /\ queue \in Seq(Items) /\ Len(queue) <= 1
        /\ Len(queue) \in Nat /\ Len(accepted) \in Nat
        BY <1>1 DEF TypesOK
  <2>2. IsPrefix(x.got, accepted) /\ (Len(x.got) = Taken - 1 \/ Len(x.got) = Taken)
        BY DEF PipelineInv, DistributorInv
  <2> QED  BY <2>1, <2>2 DEF Taken
<1>3. d \in Seq(Items) /\ IsPrefix(d, x.got) /\ Len(d) + 1 >= Len(x.got)
  <2>1. CASE x.at = "writing"
    <3>1. x.got # <<>>
          BY <2>1 DEF PipelineInv, ExporterInv, OutputOK
    <3> HIDE DEF x
    <3>2. Front(x.got) \in Seq(Items) /\ IsPrefix(Front(x.got), x.got)
          BY <1>1, <3>1, LinesOfLast
    <3>3. Len(Front(x.got)) + 1 >= Len(x.got)
          BY <1>1 DEF Front
    <3> QED  BY <2>1, <3>2, <3>3 DEF Dealt
  <2>2. CASE x.at # "writing"
        BY <1>1, <2>2, PrefixByElement DEF Dealt
  <2> QED  BY <2>1, <2>2
<1> HIDE DEF x, d
<1>4. IsPrefix(d, accepted)
      BY <1>1, <1>2, <1>3, PrefixOfPrefix
<1>5. Len(d) + 3 >= Len(accepted)
      BY <1>1, <1>2, <1>3
<1>6. IsPrefix(Lines(format[e], d), Lines(format[e], accepted))
      BY <1>2, <1>3, <1>4, LinesOfPrefix
<1> QED  BY <1>3, <1>4, <1>5, <1>6 DEF d, x

(* The lines of an output are the first of those of the items sent.        *)
THEOREM NoGap == Spec => []OutputHasNoGap
<1>1. PipelineInv => OutputHasNoGap
  <2> SUFFICES ASSUME PipelineInv, NEW e \in Exporters, format[e] # "pretty"
               PROVE  IsPrefix(exporter[e].out, Lines(format[e], accepted))
      BY DEF OutputHasNoGap
  <2> DEFINE a == exporter[e].out
             b == Lines(format[e], Dealt(exporter[e]))
             c == Lines(format[e], accepted)
  <2>1. accepted \in Seq(Items) /\ Dealt(exporter[e]) \in Seq(Items) /\ IsPrefix(b, c)
        BY InvTypes, DealtIsPrefix DEF TypesOK
  <2>2. b \in Seq(OutputLines) /\ c \in Seq(OutputLines)
        BY <2>1, LinesType
  <2>3. a \in Seq(OutputLines) /\ IsPrefix(a, b)
        BY ExporterStateType DEF PipelineInv, ExporterInv, OutputOK, ExporterStates
  <2> HIDE DEF a, b, c
  <2>4. IsPrefix(a, c)
        BY <2>1, <2>2, <2>3, PrefixOfPrefix
  <2> QED  BY <2>4 DEF a, c
<1> QED  BY <1>1, PipelineInvariant, PTL

(* An output of which no write failed has the lines of all but the last    *)
(* three items.                                                            *)
THEOREM LosesFew == Spec => []KillLosesFew
<1>1. PipelineInv => KillLosesFew
  <2> SUFFICES ASSUME PipelineInv, NEW e \in Exporters,
                      format[e] # "csv", ~exporter[e].fault
               PROVE  \E k \in 0 .. Len(accepted) :
                        /\ k + 3 >= Len(accepted)
                        /\ exporter[e].out = Lines(format[e], SubSeq(accepted, 1, k))
      BY DEF KillLosesFew
  <2> DEFINE x == exporter[e]
             d == Dealt(x)
  <2>1. /\ d \in Seq(Items) /\ Len(d) + 3 >= Len(accepted) /\ IsPrefix(d, accepted)
        /\ accepted \in Seq(Items)
        BY InvTypes, DealtIsPrefix DEF TypesOK
  <2>2. x.out \o x.buffer = Lines(format[e], d) /\ x.buffer = <<>> /\ x.out \in Seq(OutputLines)
        BY ExporterStateType DEF PipelineInv, ExporterInv, OutputOK, ExporterStates
  <2> HIDE DEF x, d
  <2>3. x.out = Lines(format[e], d)
        BY <2>2
  <2>4. Len(d) \in 0 .. Len(accepted) /\ d = SubSeq(accepted, 1, Len(d))
        BY <2>1 DEF IsPrefix
  <2> QED  BY <2>1, <2>3, <2>4 DEF x
<1> QED  BY <1>1, PipelineInvariant, PTL

(* When Start goes on, every output of which no write failed is complete.  *)
THEOREM Complete == Spec => []AllExported
<1>1. PipelineInv => AllExported
  <2> SUFFICES ASSUME PipelineInv, returned, NEW e \in Exporters, ~exporter[e].fault
               PROVE  exporter[e].out = Lines(format[e], accepted)
      BY DEF AllExported
  <2> DEFINE x == exporter[e]
  <2>1. TypesOK /\ IsFiniteSet(Running) /\ Cardinality(Running) \in Nat /\ n # 0
        BY InvTypes, RunningFinite DEF Exporters
  <2>2. Running = {}
        BY <2>1, FS_EmptySet DEF PipelineInv, CountInv
  <2>3. x.at = "ended" /\ chansClosed /\ x.buffer = <<>> /\ x.out \in Seq(OutputLines)
        BY <2>2, ExporterStateType DEF Running, PipelineInv, ExporterInv, OutputOK, ExporterStates
  <2>4. x.out = Lines(format[e], x.got)
    <3>1. x.out \o x.buffer = Lines(format[e], Dealt(x)) /\ Dealt(x) = x.got
          BY <2>3 DEF PipelineInv, ExporterInv, OutputOK, Dealt
    <3> HIDE DEF x
    <3>2. x.out \o <<>> = x.out
          BY <2>3
    <3> QED  BY <2>3, <3>1, <3>2
  <2>5. x.got = accepted
    <3>1. /\ Len(x.got) = Len(accepted) /\ IsPrefix(x.got, accepted)
          /\ x.got \in Seq(Items) /\ accepted \in Seq(Items)
          BY <2>1, <2>3, ExporterStateType
          DEF PipelineInv, DistributorInv, Taken, TypesOK, ExporterStates
    <3> HIDE DEF x
    <3>2. \A k \in 1 .. Len(x.got) : x.got[k] = accepted[k]
          BY <3>1, PrefixByElement
    <3> QED  BY <3>1, <3>2, SeqEqual
  <2> QED  BY <2>4, <2>5
<1> QED  BY <1>1, PipelineInvariant, PTL

-----------------------------------------------------------------------------
(* The pipeline is a broadcast *)

delivered == [e \in Exporters |-> Len(exporter[e].got)]
gaveUp == {e \in Exporters : exporter[e].at = "failed"}

(* A step of an exporter is a GiveUp, or is not seen.                      *)
LEMMA ExporterMaps ==
  ASSUME PipelineInv, NEW e \in Exporters, NEW y, ExporterGoes(e, y)
  PROVE  Abstract!Next \/ UNCHANGED <<accepted, delivered, gaveUp, returned>>
<1>1. /\ exporter \in [Exporters -> ExporterStates] /\ n # 0
      BY InvTypes, RunningFinite DEF TypesOK, Exporters
<1>2. /\ Exporters' = Exporters /\ UNCHANGED <<accepted, returned>>
      /\ exporter' = [exporter EXCEPT ![e] = y] /\ y.got = exporter[e].got
      /\ exporter[e].at \notin {"ended", "failed"}
      BY DEF ExporterGoes, others, callbackVars, Exporters, n
<1>3. delivered' = delivered
      BY <1>1, <1>2 DEF delivered
<1>4. gaveUp' = IF y.at = "failed" THEN gaveUp \cup {e} ELSE gaveUp
      BY <1>1, <1>2 DEF gaveUp
<1>5. ~returned
  <2>1. e \in Running
        BY <1>2 DEF Running
  <2>2. Cardinality(Running) # 0
        BY <2>1, InvTypes, RunningFinite, FS_EmptySet
  <2> QED  BY <1>1, <2>2 DEF PipelineInv, CountInv
<1>6. e \in DOMAIN delivered
      BY DEF delivered
<1>7. CASE y.at = "failed"
  <2>1. Abstract!GiveUp(e)
        BY <1>2, <1>3, <1>4, <1>5, <1>7 DEF Abstract!GiveUp, delivered, gaveUp
  <2> QED  BY <1>6, <2>1 DEF Abstract!Next, delivered
<1>8. CASE y.at # "failed"
      BY <1>2, <1>3, <1>4, <1>8
<1> QED  BY <1>7, <1>8

(* Handing an item to an exporter is a Deliver.                            *)
LEMMA HandMaps ==
  ASSUME PipelineInv, NEW e \in Exporters, Hand(e)
  PROVE  Abstract!Deliver(e)
<1>1. TypesOK /\ exporter \in [Exporters -> ExporterStates]
      BY InvTypes DEF TypesOK
<1>2. /\ Exporters' = Exporters /\ UNCHANGED <<accepted, returned>>
      /\ exporter' = [exporter EXCEPT ![e].at = "writing", ![e].got = Append(@, inHand)]
      /\ exporter[e].at = "receiving" /\ inHand # NoItem /\ next = e
      BY DEF Hand, endVars, callbackVars, Exporters, n
<1>3. exporter[e].got \in Seq(Items) /\ inHand \in Items
      BY <1>1, <1>2 DEF TypesOK, ExporterStates
<1>4. /\ exporter'[e].at = "writing"
      /\ Len(exporter'[e].got) = Len(exporter[e].got) + 1
      /\ \A d \in Exporters \ {e} : exporter'[d] = exporter[d]
      BY <1>1, <1>2, <1>3 DEF ExporterStates
<1>5. delivered' = [delivered EXCEPT ![e] = @ + 1]
  <2>1. delivered' = [d \in Exporters |-> Len(exporter'[d].got)]
        BY <1>2 DEF delivered
  <2>2. \A d \in Exporters : Len(exporter'[d].got) =
          IF d = e THEN Len(exporter[d].got) + 1 ELSE Len(exporter[d].got)
        BY <1>4
  <2>3. delivered = [d \in Exporters |-> Len(exporter[d].got)]
        BY DEF delivered
  <2> HIDE DEF delivered
  <2> QED  BY <2>1, <2>2, <2>3
<1>6. gaveUp' = gaveUp /\ e \notin gaveUp
      BY <1>2, <1>4 DEF gaveUp
<1>7. delivered[e] < Len(accepted)
  <2>1. Len(exporter[e].got) = Taken - 1
        BY <1>1, <1>2 DEF PipelineInv, DistributorInv, TypesOK, Exporters
  <2>2. Len(accepted) \in Nat /\ Len(queue) \in Nat
        BY <1>1 DEF TypesOK
  <2> QED  BY <2>1, <2>2 DEF delivered, Taken
<1> QED  BY <1>2, <1>5, <1>6, <1>7 DEF Abstract!Deliver, delivered, gaveUp

(* Start goes on when every exporter that has not given up has everything. *)
LEMMA WaitMaps ==
  ASSUME PipelineInv, WaitExporters
  PROVE  Abstract!Finish
<1>1. /\ UNCHANGED <<format, accepted, exporter>> /\ returned' = TRUE
      /\ wgExporters = 0
      BY DEF WaitExporters, callbackVars, AllDone
<1>2. ASSUME NEW e \in DOMAIN delivered \ gaveUp
      PROVE  delivered[e] = Len(accepted)
  <2>1. e \in Exporters /\ exporter[e].at # "failed"
        BY DEF delivered, gaveUp
  <2>2. IsFiniteSet(Running) /\ Cardinality(Running) = 0
        BY <1>1, <2>1, InvTypes, RunningFinite DEF PipelineInv, CountInv, Exporters
  <2>3. exporter[e].at = "ended"
        BY <2>1, <2>2, FS_EmptySet DEF Running
  <2>4. Len(exporter[e].got) = Taken /\ queue = <<>>
        BY <2>1, <2>3 DEF PipelineInv, DistributorInv, ExporterInv
  <2>5. Taken = Len(accepted)
        BY <2>4, InvTypes DEF Taken, TypesOK
  <2> QED  BY <2>1, <2>4, <2>5 DEF delivered
<1>3. UNCHANGED <<delivered, gaveUp>>
      BY <1>1 DEF delivered, gaveUp, Exporters, n
<1> QED  BY <1>1, <1>2, <1>3 DEF Abstract!Finish, delivered, gaveUp

(* Every step of the pipeline is one of a broadcast, or is not seen.       *)
LEMMA StepMaps ==
  ASSUME PipelineInv, [Next]_exportVars
  PROVE  Abstract!Next \/ UNCHANGED <<accepted, delivered, gaveUp, returned>>
<1> DEFINE Maps == Abstract!Next \/ UNCHANGED <<accepted, delivered, gaveUp, returned>>
<1>1. ASSUME UNCHANGED <<format, exporter, accepted, returned>> PROVE Maps
      BY <1>1 DEF delivered, gaveUp, Exporters, n
<1>2. CASE UNCHANGED exportVars
      BY <1>1, <1>2 DEF exportVars, callbackVars, endVars
<1>3. ASSUME NEW i \in Items, Offer(i) PROVE Maps
      BY <1>1, <1>3 DEF Offer, endVars
<1>4. ASSUME NEW i \in Items, Accept(i) PROVE Maps
  <2>1. UNCHANGED <<format, exporter, returned>> /\ accepted' = Append(accepted, i) /\ offered # {}
        BY <1>4 DEF Accept, endVars
  <2>2. UNCHANGED <<delivered, gaveUp>> /\ ~returned
        BY <2>1 DEF delivered, gaveUp, Exporters, n, PipelineInv, DistributorInv, CountInv
  <2>3. Abstract!Publish(i)
        BY <2>1, <2>2 DEF Abstract!Publish, delivered, gaveUp
  <2> QED  BY <2>3 DEF Abstract!Next
<1>5. CASE CloseExports
      BY <1>1, <1>5 DEF CloseExports, endVars
<1>6. CASE WaitExporters
      BY <1>6, WaitMaps DEF Abstract!Next
<1>7. CASE Take \/ CloseChans \/ Drain \/ DrainEnds
      BY <1>1, <1>7 DEF Take, CloseChans, Drain, DrainEnds, callbackVars, endVars
<1>8. ASSUME NEW e \in Exporters, Hand(e) PROVE Maps
  <2>1. Abstract!Deliver(e) /\ e \in DOMAIN delivered
        BY <1>8, HandMaps DEF delivered
  <2> QED  BY <2>1 DEF Abstract!Next, delivered
<1>9. ASSUME NEW e \in Exporters, Open(e) \/ Write(e) \/ Fail(e) \/ Finish(e) PROVE Maps
      BY <1>9, ExporterStep, ExporterMaps
<1> QED  BY <1>2, <1>3, <1>4, <1>5, <1>6, <1>7, <1>8, <1>9 DEF Next, Distribute

(* The refinement: every behaviour of the pipeline is one of a broadcast in*)
(* which each exporter gets all items in the order in which they were sent.*)
THEOREM RefinesBroadcast == Spec => ImplementsBroadcast
<1>1. Init => Abstract!Init
  <2> SUFFICES ASSUME Init PROVE Abstract!Init
      OBVIOUS
  <2>1. Exporters \in SUBSET MostExporters
        BY ExportAssumption DEF Init, Exporters, n, MostExporters
  <2>2. delivered = [e \in Exporters |-> 0] /\ gaveUp = {}
        BY DEF Init, delivered, gaveUp, Opening
  <2> QED  BY <2>1, <2>2 DEF Init, Abstract!Init, delivered, gaveUp
<1>2. PipelineInv /\ [Next]_exportVars => [Abstract!Next]_Abstract!broadcastVars
      BY StepMaps DEF Abstract!broadcastVars, delivered, gaveUp
<1> QED  BY <1>1, <1>2, PipelineInvariant, PTL DEF Spec, ImplementsBroadcast, Abstract!Spec
-----------------------------------------------------------------------------
(* What can hold up the pipeline *)

(* JSON returns the first error of a write, and does not go on after it.   *)
JSONStops ==
  \A e \in Exporters :
    format[e] = "json" /\ exporter[e].fault => exporter[e].at = "failed"

(* An exporter of JSON that takes a step is not past an error, and is past *)
(* one only if it returns it.                                              *)
LEMMA ExporterStops ==
  ASSUME PipelineInv, JSONStops, NEW e \in Exporters,
         Open(e) \/ Write(e) \/ Fail(e) \/ Finish(e)
  PROVE  JSONStops'
<1> DEFINE x == exporter[e]
<1>1. /\ x \in ExporterStates
      /\ (format[e] = "json" => x.buffer = <<>>)
      /\ x.at # "failed" /\ (format[e] = "json" => ~x.fault)
      BY ExporterStateType
      DEF PipelineInv, ExporterInv, OutputOK, JSONStops, Open, Write, Fail, Finish
<1>2. /\ exporter \in [Exporters -> ExporterStates]
      /\ Exporters' = Exporters /\ format' = format
  <2>1. UNCHANGED format
        BY DEF Open, Write, WriteItem, LoseItem, BufferRow, Written, Fail, Finish, Return, others
  <2> QED  BY <2>1, InvTypes DEF TypesOK, Exporters, n
<1>3. ASSUME NEW y, exporter' = [exporter EXCEPT ![e] = y],
             format[e] = "json" /\ y.fault => y.at = "failed"
      PROVE  JSONStops'
      BY <1>2, <1>3 DEF JSONStops
<1>4. CASE Open(e)
  <2> DEFINE y == [x EXCEPT !.at = "receiving"]
  <2>1. exporter' = [exporter EXCEPT ![e] = y]
        BY <1>4 DEF Open
  <2> HIDE DEF x
  <2>2. y.fault = x.fault
        BY <1>1 DEF ExporterStates
  <2> HIDE DEF y
  <2> QED  BY <1>1, <1>3, <2>1, <2>2
<1>5. ASSUME NEW out, NEW buffer, NEW fault, Written(e, out, buffer, fault),
             format[e] = "json" => ~fault
      PROVE  JSONStops'
  <2> DEFINE y == [x EXCEPT !.at = "receiving", !.out = out, !.buffer = buffer,
                            !.fault = fault]
  <2>1. exporter' = [exporter EXCEPT ![e] = y]
        BY <1>5 DEF Written
  <2> HIDE DEF x
  <2>2. y.fault = fault
        BY <1>1 DEF ExporterStates
  <2> HIDE DEF y
  <2> QED  BY <1>3, <1>5, <2>1, <2>2
<1>6. CASE Write(e)
  <2>1. ASSUME WriteItem(e) PROVE JSONStops'
    <3> DEFINE out == x.out \o Line(e)
    <3>1. Written(e, out, <<>>, x.fault)
          BY <2>1 DEF WriteItem
    <3> HIDE DEF x, out
    <3> QED  BY <1>1, <1>5, <3>1
  <2>2. ASSUME LoseItem(e) PROVE JSONStops'
    <3> DEFINE out == exporter[e].out
    <3>1. Written(e, out, <<>>, TRUE) /\ format[e] # "json"
          BY <2>2 DEF LoseItem
    <3> HIDE DEF x, out
    <3> QED  BY <1>5, <3>1
  <2>3. ASSUME BufferRow(e) PROVE JSONStops'
    <3>1. /\ format[e] # "json"
          /\ \E out, buffer, fault : Written(e, out, buffer, fault)
          BY <2>3 DEF BufferRow
    <3> HIDE DEF x
    <3> QED  BY <1>5, <3>1
  <2> QED  BY <1>6, <2>1, <2>2, <2>3 DEF Write
<1>7. CASE Fail(e)
  <2> DEFINE y == [x EXCEPT !.at = "failed", !.fault = TRUE]
  <2>1. exporter' = [exporter EXCEPT ![e] = y]
        BY <1>7 DEF Fail, Return
  <2> HIDE DEF x
  <2>2. y.at = "failed"
        BY <1>1 DEF ExporterStates
  <2> HIDE DEF y
  <2> QED  BY <1>3, <2>1, <2>2
<1>8. CASE Finish(e)
  <2> DEFINE z == [x EXCEPT !.at = "ended", !.buffer = <<>>]
  <2>1. PICK y \in Ended(e) : exporter' = [exporter EXCEPT ![e] = y]
        BY <1>8 DEF Finish, Return
  <2>2. x.buffer = <<>> => y = z
        BY <2>1 DEF Ended
  <2> HIDE DEF x
  <2>3. z.fault = x.fault
        BY <1>1 DEF ExporterStates
  <2> HIDE DEF z
  <2>4. format[e] = "json" => ~y.fault
        BY <1>1, <2>2, <2>3
  <2> QED  BY <1>3, <2>1, <2>4
<1> QED  BY <1>4, <1>6, <1>7, <1>8

(* Every other step leaves the faults alone.                               *)
LEMMA JSONStopsHolds == Spec => []JSONStops
<1>1. Init => JSONStops
      BY DEF Init, JSONStops, Opening, Exporters, n
<1>2. PipelineInv /\ JSONStops /\ [Next]_exportVars => JSONStops'
  <2> SUFFICES ASSUME PipelineInv, JSONStops, [Next]_exportVars
               PROVE  JSONStops'
      OBVIOUS
  <2>1. ASSUME UNCHANGED <<format, exporter>> PROVE JSONStops'
        BY <2>1 DEF JSONStops, Exporters, n
  <2>2. ASSUME NEW e \in Exporters, Hand(e) PROVE JSONStops'
    <3> DEFINE x == exporter[e]
               y == [x EXCEPT !.at = "writing", !.got = Append(@, inHand)]
    <3>1. /\ exporter' = [exporter EXCEPT ![e] = y] /\ format' = format
          /\ x.at = "receiving" /\ x \in ExporterStates
          BY <2>2, ExporterStateType DEF Hand
    <3>2. exporter \in [Exporters -> ExporterStates]
          BY InvTypes DEF TypesOK
    <3>3. format[e] = "json" => ~x.fault
          BY <3>1 DEF JSONStops
    <3> HIDE DEF x
    <3>4. y.fault = x.fault
          BY <3>1 DEF ExporterStates
    <3> HIDE DEF y
    <3> QED  BY <3>1, <3>2, <3>3, <3>4 DEF JSONStops, Exporters, n
  <2>3. CASE CloseExports \/ WaitExporters \/ Take \/ CloseChans \/ Drain \/ DrainEnds
        BY <2>1, <2>3 DEF CloseExports, WaitExporters, Take, CloseChans, Drain, DrainEnds
  <2>4. ASSUME NEW i \in Items, Offer(i) \/ Accept(i) PROVE JSONStops'
        BY <2>1, <2>4 DEF Offer, Accept
  <2>5. CASE UNCHANGED exportVars
        BY <2>1, <2>5 DEF exportVars
  <2> QED  BY <2>2, <2>3, <2>4, <2>5, ExporterStops DEF Next, Distribute
<1> QED  BY <1>1, <1>2, PipelineInvariant, PTL DEF Spec

(* The guard of a step of the distributing or the draining goroutine holds.*)
DistributorMoves ==
  \/ n # 0 /\ inHand = NoItem /\ queue # <<>>
  \/ inHand # NoItem /\ exporter[next].at = "receiving"
  \/ n # 0 /\ inHand = NoItem /\ queue = <<>> /\ exportsClosed /\ ~chansClosed
  \/ n = 0 /\ (queue # <<>> \/ (exportsClosed /\ wgExporters > 0))

(* That of a step of an exporter holds, other than one that fails.         *)
ExporterMoves(e) ==
  \/ exporter[e].at = "open"
  \/ exporter[e].at = "writing" /\ (format[e] = "json" => ~exporter[e].fault)
  \/ exporter[e].at = "receiving" /\ chansClosed

(* A callback gets its item into g.Exports.                                *)
SenderMoves == offered # {} /\ HasRoom

PipelineMoves ==
  DistributorMoves \/ SenderMoves \/ \E e \in Exporters : ExporterMoves(e)

(* The distributing goroutine offers an item to an exporter that has       *)
(* returned an error: nobody will receive it.                              *)
HeldUp == inHand # NoItem /\ next \in Exporters /\ exporter[next].at = "failed"

(* As long as a callback waits in its send, or Start for the exporters,    *)
(* the pipeline moves, unless it is held up.                               *)
OnlyFailureHoldsUp ==
  offered # {} \/ (exportsClosed /\ ~AllDone) => PipelineMoves \/ HeldUp

(* An exporter that does not move has returned, or waits for an item.      *)
LEMMA StillExporter ==
  ASSUME PipelineInv, JSONStops, NEW e \in Exporters, ~ExporterMoves(e)
  PROVE  \/ exporter[e].at = "ended" /\ chansClosed
         \/ exporter[e].at = "failed"
         \/ exporter[e].at = "receiving" /\ ~chansClosed
<1>1. exporter[e].at \in {"open", "receiving", "writing", "ended", "failed"}
      BY ExporterStateType DEF ExporterStates
<1>2. exporter[e].at = "ended" => chansClosed
      BY DEF PipelineInv, ExporterInv
<1>3. format[e] = "json" /\ exporter[e].fault => exporter[e].at = "failed"
      BY DEF JSONStops
<1> QED  BY <1>1, <1>2, <1>3 DEF ExporterMoves

(* startExporters of geziyor.go: whatever the formats and the speed of the *)
(* exporters, nothing but an exporter that has returned an error can block *)
(* a callback in its send, or Start in wgExporters.Wait.                   *)
THEOREM OnlyFailureHoldsUpHolds == Spec => []OnlyFailureHoldsUp
<1>1. PipelineInv /\ JSONStops => OnlyFailureHoldsUp
  <2> SUFFICES ASSUME PipelineInv, JSONStops, ~PipelineMoves, ~HeldUp,
                      offered # {} \/ (exportsClosed /\ ~AllDone)
               PROVE  FALSE
      BY DEF OnlyFailureHoldsUp
  <2>0. TypesOK /\ DistributorInv /\ CountInv
        BY InvTypes DEF PipelineInv
  <2>1. ~DistributorMoves /\ ~SenderMoves /\ \A e \in Exporters : ~ExporterMoves(e)
        BY DEF PipelineMoves
  <2>2. inHand = NoItem
    <3> SUFFICES ASSUME inHand # NoItem PROVE FALSE
        OBVIOUS
    <3>1. next \in Exporters /\ ~chansClosed
          BY <2>0 DEF DistributorInv
    <3>2. exporter[next].at = "failed" \/ exporter[next].at = "receiving"
          BY <2>1, <3>1, StillExporter
    <3> QED  BY <2>1, <3>1, <3>2 DEF DistributorMoves, HeldUp
  <2>3. queue = <<>>
        BY <2>1, <2>2 DEF DistributorMoves
  <2>4. offered = {} /\ exportsClosed /\ ~AllDone
    <3>1. HasRoom
          BY <2>3 DEF HasRoom
    <3> QED  BY <2>1, <3>1 DEF SenderMoves
  <2>5. CASE n = 0
        BY <2>0, <2>1, <2>4, <2>5 DEF DistributorMoves, CountInv, AllDone
  <2>6. CASE n # 0
    <3>1. chansClosed
          BY <2>1, <2>2, <2>3, <2>4, <2>6 DEF DistributorMoves
    <3>2. Running = {}
          BY <2>1, <3>1, StillExporter DEF Running
    <3>3. wgExporters = 0
          BY <2>0, <2>6, <3>2, FS_EmptySet DEF CountInv
    <3> QED  BY <2>4, <3>3 DEF AllDone
  <2> QED  BY <2>5, <2>6
<1> QED  BY <1>1, PipelineInvariant, JSONStopsHolds, PTL

(* Once it is held up, the pipeline delivers nothing more: no exporter,    *)
(* before or behind the failed one, gets another item.                     *)
StaysHeldUp ==
  [][HeldUp => HeldUp' /\ inHand' = inHand
               /\ \A e \in Exporters : exporter'[e].got = exporter[e].got]_exportVars

(* An exporter that has failed stays where it is, and so does the item     *)
(* nobody takes from the distributing goroutine: an error of one exporter  *)
(* ends the export to all of them as soon as its turn comes again.         *)
THEOREM StaysHeldUpHolds == Spec => StaysHeldUp
<1> DEFINE Held == HeldUp' /\ inHand' = inHand
                   /\ \A e \in Exporters : exporter'[e].got = exporter[e].got
<1>1. ASSUME PipelineInv, HeldUp, [Next]_exportVars PROVE Held
  <2>0. /\ inHand # NoItem /\ next \in Exporters /\ exporter[next].at = "failed"
        /\ exporter \in [Exporters -> ExporterStates]
        BY <1>1, InvTypes DEF HeldUp, TypesOK
  <2>1. ASSUME UNCHANGED <<format, inHand, next, exporter>> PROVE Held
        BY <1>1, <2>1 DEF HeldUp, Exporters, n
  <2>2. ASSUME NEW e \in Exporters, Hand(e) PROVE FALSE
        BY <2>0, <2>2 DEF Hand
  <2>3. ASSUME NEW e \in Exporters, Open(e) \/ Write(e) \/ Fail(e) \/ Finish(e)
        PROVE  Held
    <3>1. PICK y : ExporterGoes(e, y)
          BY <1>1, <2>3, ExporterStep
    <3>2. /\ exporter' = [exporter EXCEPT ![e] = y] /\ y.got = exporter[e].got
          /\ exporter[e].at # "failed" /\ UNCHANGED <<format, inHand, next>>
          BY <3>1 DEF ExporterGoes, others, distributorVars
    <3>3. \A d \in Exporters : exporter'[d].got = exporter[d].got
          BY <2>0, <3>2
    <3>4. exporter'[next] = exporter[next] /\ Exporters' = Exporters
          BY <2>0, <3>2 DEF Exporters, n
    <3> QED  BY <2>0, <3>2, <3>3, <3>4 DEF HeldUp
  <2>4. CASE CloseExports \/ WaitExporters \/ Take \/ CloseChans \/ Drain \/ DrainEnds
        BY <2>0, <2>1, <2>4
        DEF CloseExports, WaitExporters, Take, CloseChans, Drain, DrainEnds, distributorVars
  <2>5. ASSUME NEW i \in Items, Offer(i) \/ Accept(i) PROVE Held
        BY <2>1, <2>5 DEF Offer, Accept, distributorVars
  <2>6. CASE UNCHANGED exportVars
        BY <2>1, <2>6 DEF exportVars, distributorVars
  <2> QED  BY <1>1, <2>2, <2>3, <2>4, <2>5, <2>6 DEF Next, Distribute
<1>2. PipelineInv /\ [Next]_exportVars
        => [HeldUp => HeldUp' /\ inHand' = inHand
                      /\ \A e \in Exporters : exporter'[e].got = exporter[e].got]_exportVars
      BY <1>1
<1> QED  BY <1>2, PipelineInvariant, PTL DEF Spec, StaysHeldUp
=============================================================================
