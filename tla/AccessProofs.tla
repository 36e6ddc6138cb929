---------------------------- MODULE AccessProofs ---------------------------
(* First what the operators of Shares return, for every file system, every    *)
(* list of shares and patterns and every path; then the properties of Access,  *)
(* for every configuration, file system, request and number of Authorization   *)
(* lines.                                                                      *)
EXTENDS Access, SequenceFacts, SequenceTheorems, FiniteSetTheorems, TLAPS

\* Sequences of one and of two elements.
LEMMA OneOrTwo ==
  ASSUME NEW S, NEW e \in S, NEW f \in S
  PROVE  /\ <<e>> \in Seq(S) /\ Len(<<e>>) = 1 /\ <<e>>[1] = e
         /\ <<e, f>> \in Seq(S) /\ Len(<<e, f>>) = 2 /\ <<e, f>>[1] = e /\ <<e, f>>[2] = f
<1>1. /\ <<e>> \in Seq(S) /\ DOMAIN <<e>> = 1 .. 1 /\ <<e>>[1] = e
      /\ <<e, f>> \in Seq(S) /\ DOMAIN <<e, f>> = 1 .. 2
      /\ <<e, f>>[1] = e /\ <<e, f>>[2] = f
  OBVIOUS
<1> DEFINE one == <<e>>
           two == <<e, f>>
<1> HIDE DEF one, two
<1>2. /\ Len(one) \in Nat /\ DOMAIN one = 1 .. Len(one)
      /\ Len(two) \in Nat /\ DOMAIN two = 1 .. Len(two)
  BY <1>1, LenProperties DEF one, two
<1>3. Len(one) = 1 /\ Len(two) = 2 BY <1>1, <1>2 DEF one, two
<1> QED BY <1>1, <1>3 DEF one, two

\* The names of a file or folder, as they are in Tree.
RealName == STRING \ {Empty}

Real == Seq(RealName)

----------------------------------------------------------------------------
(* Names.                                                                  *)

NamesStep(href, names, k) == IF href[k] = Empty THEN names ELSE Append(names, href[k])

\* Names is what is held after the last name of a path.
LEMMA NamesRun ==
  ASSUME NEW href \in Seq(STRING)
  PROVE  \E g \in [0 .. Len(href) -> Real] :
           /\ g[0] = <<>> /\ g[Len(href)] = Names(href)
           /\ \A k \in 1 .. Len(href) : g[k] = NamesStep(href, g[k - 1], k)
<1> DEFINE n == Len(href)
           T == Real
           base == <<>>
           step == [p \in (1 .. n) \X T |-> NamesStep(href, p[2], p[1])]
           Fold(h) == [s \in SUBSET DOMAIN href |->
                         IF s = {} THEN base ELSE NamesStep(href, h[s \ {Max(s)}], Max(s))]
           h == CHOOSE h : h = Fold(h)
<1>1. Names(href) = h[DOMAIN href]
  BY DEF Names, FoldLeft, MapThenFoldSet, NamesStep
<1>2. n \in Nat /\ DOMAIN href = 1 .. n /\ base \in T /\ step \in [(1 .. n) \X T -> T]
  <2>1. n \in Nat /\ DOMAIN href = 1 .. n /\ base \in T BY LenProperties, EmptySeq DEF Real
  <2>2. \A i \in 1 .. n, x \in T : NamesStep(href, x, i) \in T
    <3> SUFFICES ASSUME NEW i \in 1 .. n, NEW x \in T, href[i] # Empty PROVE Append(x, href[i]) \in T
      BY DEF NamesStep
    <3>1. href[i] \in RealName BY ElementOfSeq DEF RealName
    <3> QED BY <3>1, AppendProperties DEF Real
  <2> QED
    <3> HIDE DEF T, n
    <3> QED BY <2>1, <2>2
<1>3. \A i \in 1 .. n, x \in T : step[<<i, x>>] = NamesStep(href, x, i)
  <2> HIDE DEF T, n
  <2> QED OBVIOUS
<1> HIDE DEF n, T, base, step
<1>4. PICK h0 \in [SUBSET (1 .. n) -> T] : IsFold(h0, n, base, step)
  BY <1>2, FoldExists
<1>5. h0 = Fold(h0)
  <2>1. ASSUME NEW s \in SUBSET (1 .. n), s # {}
        PROVE  step[<<Max(s), h0[s \ {Max(s)}]>>] = NamesStep(href, h0[s \ {Max(s)}], Max(s))
    BY <2>1, <1>2, <1>3, MaxIn
  <2>2. \A s \in SUBSET DOMAIN href : h0[s] = Fold(h0)[s] BY <1>2, <1>4, <2>1 DEF IsFold
  <2> QED BY <1>2, <2>2
<1>6. h = Fold(h)
  <2> HIDE DEF Fold
  <2> QED BY <1>5
<1>7. Follows(h, n, T, base, step)
  <2> HIDE DEF h
  <2>1. h[{}] = base BY <1>6
  <2>2. ASSUME NEW k \in 1 .. n, h[1 .. k - 1] \in T PROVE h[1 .. k] = step[<<k, h[1 .. k - 1]>>]
    <3>1. 1 .. k \in SUBSET DOMAIN href /\ k \in Nat /\ k > 0 BY <1>2
    <3>2. Max(1 .. k) = k /\ (1 .. k) \ {k} = 1 .. k - 1 /\ 1 .. k # {} BY <3>1, MaxOfFirst
    <3>3. h[1 .. k] = NamesStep(href, h[1 .. k - 1], k) BY <1>6, <3>1, <3>2
    <3> QED BY <1>3, <2>2, <3>3
  <2> QED BY <2>1, <2>2 DEF Follows
<1>8. PICK g \in [0 .. n -> T] : IsRun(g, n, base, step, h[1 .. n])
  <2> HIDE DEF h
  <2> QED BY <1>2, <1>7, FoldRuns
<1>9. \A k \in 1 .. n : g[k] = NamesStep(href, g[k - 1], k)
  <2>1. ASSUME NEW k \in 1 .. n PROVE g[k - 1] \in T BY <1>2
  <2> QED BY <1>3, <1>8, <2>1 DEF IsRun
<1>10. g[n] = Names(href) BY <1>1, <1>2, <1>8 DEF IsRun
<1> QED BY <1>8, <1>9, <1>10 DEF n, T, base, IsRun

\* No name is empty.
LEMMA NamesReal ==
  ASSUME NEW href \in Seq(STRING)
  PROVE  Names(href) \in Real
BY NamesRun

\* A slash at the end adds no name.
LEMMA NamesOfSlash ==
  ASSUME NEW href \in Seq(STRING)
  PROVE  Names(href \o <<Empty>>) = Names(href)
<1> DEFINE n == Len(href)
           longer == href \o <<Empty>>
<1>1. /\ n \in Nat /\ longer \in Seq(STRING) /\ Len(longer) = n + 1 /\ longer[n + 1] = Empty
      /\ \A k \in 1 .. n : longer[k] = href[k]
  <2>1. longer = Append(href, Empty) BY AppendIsConcat, EmptyAssumption
  <2>2. n \in Nat BY LenProperties
  <2> HIDE DEF longer
  <2>3. longer \in Seq(STRING) /\ Len(longer) = n + 1
    BY <2>1, AppendProperties, EmptyAssumption
  <2>4. longer[n + 1] = Empty /\ \A k \in 1 .. n : longer[k] = href[k]
    <3>1. Append(href, Empty)[Len(href) + 1] = Empty BY AppendProperties, EmptyAssumption
    <3>2. \A k \in 1 .. Len(href) : Append(href, Empty)[k] = href[k]
      BY AppendProperties, EmptyAssumption
    <3> QED BY <2>1, <3>1, <3>2
  <2> HIDE DEF n
  <2> QED BY <2>2, <2>3, <2>4
<1> HIDE DEF longer, n
<1>2. PICK g1 \in [0 .. n -> Real] :
           /\ g1[0] = <<>> /\ g1[n] = Names(href)
           /\ \A k \in 1 .. n : g1[k] = NamesStep(href, g1[k - 1], k)
  BY NamesRun DEF n
<1>3. PICK g2 \in [0 .. n + 1 -> Real] :
           /\ g2[0] = <<>> /\ g2[n + 1] = Names(longer)
           /\ \A k \in 1 .. n + 1 : g2[k] = NamesStep(longer, g2[k - 1], k)
  <2>1. \E g \in [0 .. Len(longer) -> Real] :
           /\ g[0] = <<>> /\ g[Len(longer)] = Names(longer)
           /\ \A k \in 1 .. Len(longer) : g[k] = NamesStep(longer, g[k - 1], k)
    BY <1>1, NamesRun
  <2> QED BY <1>1, <2>1
<1>4. Alike(g1, g2, n)
  <2> SUFFICES ASSUME NEW k \in 1 .. n, g1[k - 1] = g2[k - 1] PROVE g1[k] = g2[k]
    BY <1>2, <1>3 DEF Alike
  <2>1. k \in 1 .. n + 1 /\ longer[k] = href[k] BY <1>1
  <2>2. g1[k] = NamesStep(href, g1[k - 1], k) BY <1>2
  <2>3. g2[k] = NamesStep(longer, g1[k - 1], k) BY <1>3, <2>1
  <2> QED BY <2>1, <2>2, <2>3 DEF NamesStep
<1>5. g1[n] = g2[n] BY <1>1, <1>4, RunsAgree
<1>6. g2[n + 1] = g2[n]
  <2>1. n + 1 \in 1 .. n + 1 /\ (n + 1) - 1 = n BY <1>1
  <2>2. g2[n + 1] = NamesStep(longer, g2[(n + 1) - 1], n + 1) BY <1>3, <2>1
  <2> QED BY <1>1, <2>1, <2>2 DEF NamesStep
<1> QED BY <1>2, <1>3, <1>5, <1>6 DEF longer

\* What has no empty name is what it names.
LEMMA NamesOfReal ==
  ASSUME NEW names \in Real
  PROVE  Names(names) = names
<1> DEFINE n == Len(names)
<1>1. /\ n \in Nat /\ names \in Seq(STRING)
      /\ \A k \in 1 .. n : names[k] \in RealName /\ names[k] # Empty
  <2>1. \A k \in 1 .. n : names[k] \in RealName BY ElementOfSeq DEF Real
  <2>2. RealName \subseteq STRING /\ Empty \notin RealName BY DEF RealName
  <2>3. names \in Seq(STRING) BY <2>2, SeqMonotonic DEF Real
  <2>4. n \in Nat BY LenProperties DEF Real
  <2> QED BY <2>1, <2>2, <2>3, <2>4
<1>2. PICK g \in [0 .. n -> Real] :
           /\ g[0] = <<>> /\ g[n] = Names(names)
           /\ \A k \in 1 .. n : g[k] = NamesStep(names, g[k - 1], k)
  BY <1>1, NamesRun
<1> HIDE DEF n
<1> DEFINE S == {k \in Nat : g[k] = SubSeq(names, 1, k)}
<1>3. 0 \in S
  <2>1. SubSeq(names, 1, 0) = <<>> BY SubSeqEmpty
  <2> QED BY <1>2, <2>1
<1>4. ASSUME NEW k \in 1 .. n, k - 1 \in S PROVE k \in S
  <2>1. g[k] = Append(SubSeq(names, 1, k - 1), names[k])
    BY <1>1, <1>2, <1>4 DEF NamesStep
  <2>2. SubSeq(names, 1, k) = SubSeq(names, 1, k - 1) \o <<names[k]>>
    <3>1. 1 \in 1 .. Len(names) /\ k \in 1 .. Len(names) BY <1>1 DEF n
    <3> QED BY <3>1, SubSeqRecursiveSecond DEF Real
  <2>3. SubSeq(names, 1, k - 1) \in Real
    <3>1. \A i \in 1 .. k - 1 : names[i] \in RealName BY <1>1
    <3>2. 1 \in Int /\ k - 1 \in Int BY <1>1
    <3> QED BY <3>1, <3>2, SubSeqProperties DEF Real
  <2>4. Append(SubSeq(names, 1, k - 1), names[k]) = SubSeq(names, 1, k - 1) \o <<names[k]>>
    <3>1. names[k] \in RealName BY <1>1
    <3> QED BY <2>3, <3>1, AppendIsConcat DEF Real
  <2>5. g[k] = SubSeq(names, 1, k) BY <2>1, <2>2, <2>4
  <2>6. k \in 0 .. n BY <1>1
  <2> QED BY <2>5, <2>6
<1>5. n \in S
  <2> HIDE DEF S
  <2>1. \A k \in 0 .. n : k \in S BY <1>1, <1>3, <1>4, UpTo
  <2> QED BY <1>1, <2>1
<1>6. SubSeq(names, 1, n) = names BY SubSeqFull DEF Real, n
<1> QED BY <1>2, <1>5, <1>6

----------------------------------------------------------------------------
(* The best share.                                                         *)

\* A path without a slash at its end, other than the one it begins with.
Trimmed == {href \in Seq(STRING) \ {<<>>} : Len(href) = 1 \/ href[Len(href)] # Empty}

Share == [url : Trimmed, sys : Seq(STRING) \ {<<>>}]

BetterShare(best, share, urlPath) ==
  IF Covers(share, urlPath) /\ Len(share.url) > Len(best.url) THEN share ELSE best

\* BestShare is what is held after the last share.
LEMMA BestShareRun ==
  ASSUME NEW mounts \in Seq(Share), NEW urlPath
  PROVE  \E g \in [0 .. Len(mounts) -> Share \union {NoShare}] :
           /\ g[0] = NoShare /\ g[Len(mounts)] = BestShare(mounts, urlPath)
           /\ \A k \in 1 .. Len(mounts) : g[k] = BetterShare(g[k - 1], mounts[k], urlPath)
<1> DEFINE n == Len(mounts)
           T == Share \union {NoShare}
           base == NoShare
           step == [p \in (1 .. n) \X T |-> BetterShare(p[2], mounts[p[1]], urlPath)]
           Fold(h) == [s \in SUBSET DOMAIN mounts |->
                         IF s = {} THEN base ELSE BetterShare(h[s \ {Max(s)}], mounts[Max(s)], urlPath)]
           h == CHOOSE h : h = Fold(h)
<1>1. BestShare(mounts, urlPath) = h[DOMAIN mounts]
  BY DEF BestShare, FoldLeft, MapThenFoldSet, BetterShare
<1>2. n \in Nat /\ DOMAIN mounts = 1 .. n /\ base \in T /\ step \in [(1 .. n) \X T -> T]
  <2>1. n \in Nat /\ DOMAIN mounts = 1 .. n /\ base \in T BY LenProperties
  <2>2. \A i \in 1 .. n, x \in T : BetterShare(x, mounts[i], urlPath) \in T
    BY ElementOfSeq DEF BetterShare
  <2> QED
    <3> HIDE DEF T, n
    <3> QED BY <2>1, <2>2
<1>3. \A i \in 1 .. n, x \in T : step[<<i, x>>] = BetterShare(x, mounts[i], urlPath)
  <2> HIDE DEF T, n
  <2> QED OBVIOUS
<1> HIDE DEF n, T, base, step
<1>4. PICK h0 \in [SUBSET (1 .. n) -> T] : IsFold(h0, n, base, step)
  BY <1>2, FoldExists
<1>5. h0 = Fold(h0)
  <2>1. ASSUME NEW s \in SUBSET (1 .. n), s # {}
        PROVE  step[<<Max(s), h0[s \ {Max(s)}]>>] = BetterShare(h0[s \ {Max(s)}], mounts[Max(s)], urlPath)
    BY <2>1, <1>2, <1>3, MaxIn
  <2>2. \A s \in SUBSET DOMAIN mounts : h0[s] = Fold(h0)[s] BY <1>2, <1>4, <2>1 DEF IsFold
  <2> QED BY <1>2, <2>2
<1>6. h = Fold(h)
  <2> HIDE DEF Fold
  <2> QED BY <1>5
<1>7. Follows(h, n, T, base, step)
  <2> HIDE DEF h
  <2>1. h[{}] = base BY <1>6
  <2>2. ASSUME NEW k \in 1 .. n, h[1 .. k - 1] \in T PROVE h[1 .. k] = step[<<k, h[1 .. k - 1]>>]
    <3>1. 1 .. k \in SUBSET DOMAIN mounts /\ k \in Nat /\ k > 0 BY <1>2
    <3>2. Max(1 .. k) = k /\ (1 .. k) \ {k} = 1 .. k - 1 /\ 1 .. k # {} BY <3>1, MaxOfFirst
    <3>3. h[1 .. k] = BetterShare(h[1 .. k - 1], mounts[k], urlPath) BY <1>6, <3>1, <3>2
    <3> QED BY <1>3, <2>2, <3>3
  <2> QED BY <2>1, <2>2 DEF Follows
<1>8. PICK g \in [0 .. n -> T] : IsRun(g, n, base, step, h[1 .. n])
  <2> HIDE DEF h
  <2> QED BY <1>2, <1>7, FoldRuns
<1>9. \A k \in 1 .. n : g[k] = BetterShare(g[k - 1], mounts[k], urlPath)
  <2>1. ASSUME NEW k \in 1 .. n PROVE g[k - 1] \in T BY <1>2
  <2> QED BY <1>3, <1>8, <2>1 DEF IsRun
<1>10. g[n] = BestShare(mounts, urlPath) BY <1>1, <1>2, <1>8 DEF IsRun
<1> QED BY <1>8, <1>9, <1>10 DEF n, T, base, IsRun

\* i is the first among the longest of the shares that begin the path.
Best(mounts, url, i) ==
  /\ IsPrefix(mounts[i].url, url)
  /\ \A j \in DOMAIN mounts :
       IsPrefix(mounts[j].url, url) => \/ Len(mounts[j].url) < Len(mounts[i].url)
                                       \/ Len(mounts[j].url) = Len(mounts[i].url) /\ i <= j

\* The best share is the first among the longest, if any begins the path.
LEMMA BestShareIs ==
  ASSUME NEW mounts \in Seq(Share), NEW urlPath
  PROVE  \/ /\ BestShare(mounts, urlPath) = NoShare
            /\ \A j \in DOMAIN mounts : ~IsPrefix(mounts[j].url, urlPath)
         \/ \E i \in DOMAIN mounts :
              BestShare(mounts, urlPath) = mounts[i] /\ Best(mounts, urlPath, i)
<1> DEFINE n == Len(mounts)
           begins(j) == IsPrefix(mounts[j].url, urlPath)
           len(j) == Len(mounts[j].url)
<1>1. n \in Nat /\ DOMAIN mounts = 1 .. n BY LenProperties
<1>2. \A j \in 1 .. n : mounts[j] \in Share /\ len(j) \in Nat /\ len(j) > 0
  <2>1. \A j \in 1 .. n : mounts[j] \in Share BY ElementOfSeq
  <2>2. \A share \in Share : share.url \in Seq(STRING) \ {<<>>} BY DEF Share, Trimmed
  <2>3. \A url \in Seq(STRING) \ {<<>>} : Len(url) \in Nat /\ Len(url) > 0
    BY EmptySeq, LenProperties
  <2> HIDE DEF n
  <2> QED BY <2>1, <2>2, <2>3
<1>3. PICK g \in [0 .. n -> Share \union {NoShare}] :
           /\ g[0] = NoShare /\ g[n] = BestShare(mounts, urlPath)
           /\ \A k \in 1 .. n : g[k] = BetterShare(g[k - 1], mounts[k], urlPath)
  BY BestShareRun
<1> DEFINE FirstBest(k, i) ==
             /\ begins(i)
             /\ \A j \in 1 .. k : begins(j) => len(j) < len(i) \/ (len(j) = len(i) /\ i <= j)
           Held(k) == \/ g[k] = NoShare /\ \A j \in 1 .. k : ~begins(j)
                      \/ \E i \in 1 .. k : g[k] = mounts[i] /\ FirstBest(k, i)
           S == {k \in Nat : Held(k)}
<1>4. 0 \in S BY <1>3
<1>5. ASSUME NEW k \in 1 .. n, k - 1 \in S PROVE k \in S
  <2>1. g[k] = BetterShare(g[k - 1], mounts[k], urlPath) BY <1>3
  <2>2. Len(NoShare.url) = 0 BY EmptySeq DEF NoShare
  <2>3. k \in Nat /\ Held(k - 1) BY <1>5
  <2>4. CASE g[k - 1] = NoShare /\ \A j \in 1 .. k - 1 : ~begins(j)
    <3>1. CASE begins(k)
      <4>1. g[k] = mounts[k] BY <1>2, <2>1, <2>2, <2>4, <3>1 DEF BetterShare, Covers
      <4> QED BY <1>2, <2>3, <2>4, <3>1, <4>1
    <3>2. CASE ~begins(k)
      <4>1. g[k] = NoShare BY <2>1, <2>4, <3>2 DEF BetterShare, Covers
      <4> QED BY <2>3, <2>4, <3>2, <4>1
    <3> QED BY <3>1, <3>2
  <2>5. ASSUME NEW i \in 1 .. k - 1, g[k - 1] = mounts[i], FirstBest(k - 1, i) PROVE Held(k)
    <3>1. CASE begins(k) /\ len(k) > len(i)
      <4>1. g[k] = mounts[k] BY <2>1, <2>5, <3>1 DEF BetterShare, Covers
      <4>2. FirstBest(k, k) BY <1>2, <2>3, <2>5, <3>1
      <4> QED BY <2>3, <4>1, <4>2
    <3>2. CASE ~(begins(k) /\ len(k) > len(i))
      <4>1. g[k] = mounts[i] BY <2>1, <2>5, <3>2 DEF BetterShare, Covers
      <4>2. FirstBest(k, i) BY <1>2, <2>3, <2>5, <3>2
      <4> QED BY <2>3, <4>1, <4>2
    <3> QED BY <3>1, <3>2
  <2> QED BY <2>3, <2>4, <2>5
<1>6. n \in S
  <2> HIDE DEF S
  <2>1. \A k \in 0 .. n : k \in S BY <1>1, <1>4, <1>5, UpTo
  <2> QED BY <1>1, <2>1
<1> QED BY <1>1, <1>3, <1>6 DEF Best

\* What is left of a path when its slashes are trimmed.
LEMMA TrimmedPath ==
  ASSUME NEW href \in Seq(STRING) \ {<<>>}
  PROVE  TrimSlashes(href) \in Trimmed
<1> DEFINE n == Len(href)
           last == {1} \union {i \in 1 .. n : href[i] # Empty}
           m == Max(last)
<1>1. n \in Nat /\ n > 0 BY EmptySeq
<1>2. m \in last
  <2>1. last \in SUBSET (1 .. n) /\ last # {} BY <1>1
  <2> HIDE DEF last, n
  <2> QED BY <1>1, <2>1, MaxIn
<1>3. m \in 1 .. n /\ (m = 1 \/ href[m] # Empty)
  <2> HIDE DEF m
  <2> QED BY <1>1, <1>2
<1> HIDE DEF m
<1>4. \A i \in 1 .. m : href[i] \in STRING BY <1>3, ElementOfSeq
<1>5. /\ SubSeq(href, 1, m) \in Seq(STRING) /\ Len(SubSeq(href, 1, m)) = m
      /\ SubSeq(href, 1, m)[m] = href[m]
  <2>1. 1 \in Int /\ m \in Int BY <1>3
  <2>2. /\ SubSeq(href, 1, m) \in Seq(STRING)
        /\ Len(SubSeq(href, 1, m)) = IF 1 <= m THEN m - 1 + 1 ELSE 0
        /\ \A i \in 1 .. m - 1 + 1 : SubSeq(href, 1, m)[i] = href[1 + i - 1]
    BY <1>4, <2>1, SubSeqProperties
  <2>3. m - 1 + 1 = m /\ 1 <= m /\ 1 + m - 1 = m BY <1>3
  <2> QED BY <2>2, <2>3
<1>6. SubSeq(href, 1, m) # <<>> BY <1>3, <1>5, EmptySeq
<1> QED BY <1>3, <1>5, <1>6 DEF TrimSlashes, Trimmed, m

\* What is left of a sequence behind its first elements.
LEMMA RestOf ==
  ASSUME NEW T, NEW s \in Seq(T), NEW m \in Nat
  PROVE  /\ SubSeq(s, m + 1, Len(s)) \in Seq(T)
         /\ \A k \in DOMAIN SubSeq(s, m + 1, Len(s)) : /\ m + k \in 1 .. Len(s)
                                                      /\ SubSeq(s, m + 1, Len(s))[k] = s[m + k]
<1> DEFINE n == Len(s)
           rest == SubSeq(s, m + 1, n)
<1>1. n \in Nat BY LenProperties
<1>2. \A i \in m + 1 .. n : s[i] \in T
  <2>1. \A i \in m + 1 .. n : i \in 1 .. n BY <1>1
  <2> QED BY <2>1, ElementOfSeq
<1>3. /\ rest \in Seq(T) /\ Len(rest) = IF m + 1 <= n THEN n - (m + 1) + 1 ELSE 0
      /\ \A i \in 1 .. n - (m + 1) + 1 : rest[i] = s[(m + 1) + i - 1]
  <2>1. m + 1 \in Int /\ n \in Int BY <1>1
  <2> HIDE DEF n
  <2> QED BY <1>2, <2>1, SubSeqProperties
<1>4. DOMAIN rest = 1 .. Len(rest) BY <1>3, LenProperties
<1> HIDE DEF rest, n
<1>5. \A k \in DOMAIN rest : m + k \in 1 .. n /\ rest[k] = s[m + k]
  <2> SUFFICES ASSUME NEW k \in DOMAIN rest PROVE m + k \in 1 .. n /\ rest[k] = s[m + k]
    OBVIOUS
  <2>1. k \in 1 .. n - (m + 1) + 1 BY <1>1, <1>3, <1>4
  <2>2. (m + 1) + k - 1 = m + k BY <2>1
  <2> QED BY <1>1, <1>3, <2>1, <2>2
<1> QED BY <1>3, <1>5 DEF rest, n

\* What begins a sequence is no longer, and has its elements.
LEMMA PrefixIs ==
  ASSUME NEW T, NEW s \in Seq(T), NEW t \in Seq(T)
  PROVE  IsPrefix(s, t) <=> Len(s) <= Len(t) /\ \A k \in 1 .. Len(s) : s[k] = t[k]
<1> DEFINE n == Len(s)
<1>1. n \in Nat /\ Len(t) \in Nat /\ SubSeq(s, 1, n) = s BY LenProperties, SubSeqFull
<1> SUFFICES ASSUME n <= Len(t)
             PROVE  SubSeq(t, 1, n) = s <=> \A k \in 1 .. n : s[k] = t[k]
  BY <1>1 DEF IsPrefix
<1> DEFINE first == SubSeq(t, 1, n)
<1>2. first \in Seq(T) /\ Len(first) = n /\ \A k \in 1 .. n : first[k] = t[k]
  <2>1. \A i \in 1 .. n : i \in 1 .. Len(t) BY <1>1
  <2>2. \A i \in 1 .. n : t[i] \in T BY <2>1, ElementOfSeq
  <2>3. 1 \in Int /\ n \in Int BY <1>1
  <2> HIDE DEF n
  <2>4. /\ first \in Seq(T) /\ Len(first) = IF 1 <= n THEN n - 1 + 1 ELSE 0
        /\ \A i \in 1 .. n - 1 + 1 : first[i] = t[1 + i - 1]
    BY <2>2, <2>3, SubSeqProperties
  <2> HIDE DEF first
  <2>5. n - 1 + 1 = n /\ \A k \in 1 .. n : 1 + k - 1 = k BY <1>1
  <2> QED BY <1>1, <2>4, <2>5
<1>3. first = s <=> \A k \in 1 .. n : s[k] = first[k]
  <2> HIDE DEF first
  <2> QED BY <1>2, SeqEqual
<1> QED BY <1>2, <1>3

\* What begins "/" begins the empty path, too, if it has no slash at its end.
LEMMA BeginsRoot ==
  ASSUME NEW url \in Trimmed
  PROVE  IsPrefix(url, <<Empty, Empty>>) <=> IsPrefix(url, <<Empty>>)
<1>1. url \in Seq(STRING) /\ url # <<>> /\ Len(url) \in Nat /\ Len(url) > 0
  BY EmptySeq DEF Trimmed
<1> DEFINE one == <<Empty>>
           two == <<Empty, Empty>>
<1>2. /\ one \in Seq(STRING) /\ Len(one) = 1 /\ one[1] = Empty
      /\ two \in Seq(STRING) /\ Len(two) = 2 /\ two[1] = Empty /\ two[2] = Empty
  BY OneOrTwo, EmptyAssumption
<1>3. Len(url) = 2 => url[2] # Empty
  <2>1. Len(url) = 1 \/ url[Len(url)] # Empty BY DEF Trimmed
  <2> QED BY <2>1
<1> HIDE DEF one, two
<1>4. IsPrefix(url, two) <=> Len(url) = 1 /\ url[1] = Empty
  <2>1. IsPrefix(url, two) <=> Len(url) <= Len(two) /\ \A k \in 1 .. Len(url) : url[k] = two[k]
    BY <1>1, <1>2, PrefixIs
  <2> QED BY <1>1, <1>2, <1>3, <2>1
<1>5. IsPrefix(url, one) <=> Len(url) = 1 /\ url[1] = Empty
  <2>1. IsPrefix(url, one) <=> Len(url) <= Len(one) /\ \A k \in 1 .. Len(url) : url[k] = one[k]
    BY <1>1, <1>2, PrefixIs
  <2> QED BY <1>1, <1>2, <2>1
<1> QED BY <1>4, <1>5 DEF one, two

\* What is left of "/" and of the empty path behind the URL path of a share.
LEMMA RestOfRoot ==
  ASSUME NEW url \in Trimmed, IsPrefix(url, <<Empty>>)
  PROVE  /\ SubSeq(<<Empty>>, Len(url) + 1, Len(<<Empty>>)) = <<>>
         /\ SubSeq(<<Empty, Empty>>, Len(url) + 1, Len(<<Empty, Empty>>)) = <<Empty>>
<1> DEFINE one == <<Empty>>
           two == <<Empty, Empty>>
<1>1. /\ one \in Seq(STRING) /\ Len(one) = 1
      /\ two \in Seq(STRING) /\ Len(two) = 2 /\ two[2] = Empty
  BY OneOrTwo, EmptyAssumption
<1>2. Len(url) \in Nat /\ Len(url) > 0 BY EmptySeq DEF Trimmed
<1>3. Len(url) = 1
  <2>1. Len(url) <= Len(<<Empty>>) BY DEF IsPrefix
  <2>2. Len(<<Empty>>) = 1 BY <1>1
  <2> QED BY <1>2, <2>1, <2>2
<1> HIDE DEF one, two
<1>4. SubSeq(one, 2, 1) = <<>> /\ SubSeq(two, 3, 2) = <<>> BY SubSeqEmpty
<1>5. SubSeq(two, 2, 2) = <<two[2]>> \o SubSeq(two, 3, 2)
  <2>1. 2 \in 1 .. Len(two) /\ 2 \in 2 .. Len(two) BY <1>1
  <2> QED BY <1>1, <2>1, SubSeqRecursiveFirst
<1>6. SubSeq(two, 2, 2) = one
  <2>1. one \o <<>> = one BY <1>1, ConcatEmptySeq
  <2> QED BY <1>1, <1>4, <1>5, <2>1 DEF one
<1> QED BY <1>1, <1>3, <1>4, <1>6 DEF one, two

\* A path for the shares: the best share begins it, what is found is named by the path
\* of the share and the rest of the path, and it is not found when no share begins it.
THEOREM SysPathIs ==
  ASSUME NEW mounts \in Seq(Share), NEW href \in Seq(STRING) \ {<<>>}
  PROVE  LET sysPath == config_getSysPathForUrlPath(mounts, href)
         IN \/ sysPath = NoPath /\ \A j \in DOMAIN mounts : ~IsPrefix(mounts[j].url, href)
            \/ \E i \in DOMAIN mounts :
                 /\ Best(mounts, href, i)
                 /\ sysPath \in Seq(STRING) \ {<<>>}
                 /\ Names(sysPath) =
                      Names(mounts[i].sys \o SubSeq(href, Len(mounts[i].url) + 1, Len(href)))
                 /\ href # <<Empty, Empty>> =>
                      sysPath = mounts[i].sys \o SubSeq(href, Len(mounts[i].url) + 1, Len(href))
<1> DEFINE root == <<Empty>>
           urlPath == IF href = <<Empty, Empty>> THEN root ELSE href
           sysPath == config_getSysPathForUrlPath(mounts, href)
<1>1. urlPath \in Seq(STRING) /\ root \in Seq(STRING) /\ Len(root) = 1
  BY OneOrTwo, EmptyAssumption
<1>2. \A j \in DOMAIN mounts : /\ mounts[j] \in Share /\ mounts[j].url \in Trimmed
                              /\ mounts[j].url \in Seq(STRING) /\ Len(mounts[j].url) \in Nat
                              /\ Len(mounts[j].url) > 0
                              /\ mounts[j].sys \in Seq(STRING) /\ mounts[j].sys # <<>>
  <2> TAKE j \in DOMAIN mounts
  <2>1. mounts[j] \in Share
    <3>1. DOMAIN mounts = 1 .. Len(mounts) BY LenProperties
    <3> QED BY <3>1, ElementOfSeq
  <2>2. mounts[j].url \in Trimmed /\ mounts[j].sys \in Seq(STRING) \ {<<>>} BY <2>1 DEF Share
  <2>3. mounts[j].url \in Seq(STRING) /\ mounts[j].url # <<>> BY <2>2 DEF Trimmed
  <2> QED BY <2>1, <2>2, <2>3, EmptySeq
<1>3. \A j \in DOMAIN mounts : IsPrefix(mounts[j].url, urlPath) <=> IsPrefix(mounts[j].url, href)
  BY <1>2, BeginsRoot
<1>4. sysPath = IF BestShare(mounts, urlPath) = NoShare THEN NoPath
                ELSE BestShare(mounts, urlPath).sys
                       \o SubSeq(urlPath, Len(BestShare(mounts, urlPath).url) + 1, Len(urlPath))
  BY DEF config_getSysPathForUrlPath
<1> HIDE DEF sysPath
<1>5. CASE /\ BestShare(mounts, urlPath) = NoShare
           /\ \A j \in DOMAIN mounts : ~IsPrefix(mounts[j].url, urlPath)
  BY <1>3, <1>4, <1>5 DEF sysPath
<1>6. ASSUME NEW i \in DOMAIN mounts, BestShare(mounts, urlPath) = mounts[i],
             Best(mounts, urlPath, i)
      PROVE  /\ Best(mounts, href, i)
             /\ sysPath \in Seq(STRING) \ {<<>>}
             /\ Names(sysPath) =
                  Names(mounts[i].sys \o SubSeq(href, Len(mounts[i].url) + 1, Len(href)))
             /\ href # <<Empty, Empty>> =>
                  sysPath = mounts[i].sys \o SubSeq(href, Len(mounts[i].url) + 1, Len(href))
  <2> DEFINE url == mounts[i].url
             sys == mounts[i].sys
             rest == SubSeq(urlPath, Len(url) + 1, Len(urlPath))
  <2>1. Best(mounts, href, i) BY <1>3, <1>6 DEF Best
  <2>2. NoShare.url = <<>> BY DEF NoShare
  <2>3. sysPath = sys \o rest
    <3>1. mounts[i].url # <<>> BY <1>2, EmptySeq
    <3> QED BY <1>4, <1>6, <2>2, <3>1
  <2>4. url \in Seq(STRING) /\ Len(url) \in Nat /\ Len(url) > 0 BY <1>2
  <2>5. sys \in Seq(STRING) /\ sys # <<>> BY <1>2
  <2>6. rest \in Seq(STRING)
    <3> HIDE DEF urlPath, url
    <3> QED BY <1>1, <2>4, RestOf
  <2>7. sysPath \in Seq(STRING) /\ sysPath # <<>>
    <3> HIDE DEF sys, rest
    <3> QED BY <2>3, <2>5, <2>6, ConcatProperties, ConcatEqualIffEmpty
  <2>8. CASE href # <<Empty, Empty>>
    BY <2>1, <2>3, <2>7, <2>8
  <2>9. CASE href = <<Empty, Empty>>
    <3>1. IsPrefix(url, root)
      <4>1. urlPath = root BY <2>9
      <4> QED BY <1>6, <4>1 DEF Best
    <3>2. url \in Trimmed BY <1>2
    <3>3. rest = <<>> /\ SubSeq(href, Len(url) + 1, Len(href)) = <<Empty>>
      <4> HIDE DEF url
      <4> QED BY <2>9, <3>1, <3>2, RestOfRoot
    <3>5. sysPath = sys BY <2>3, <2>5, <3>3, ConcatEmptySeq
    <3>6. Names(sys \o <<Empty>>) = Names(sys) BY <2>5, NamesOfSlash
    <3> QED BY <2>1, <2>7, <2>9, <3>3, <3>5, <3>6
  <2> QED BY <2>8, <2>9
<1>7. \/ /\ BestShare(mounts, urlPath) = NoShare
         /\ \A j \in DOMAIN mounts : ~IsPrefix(mounts[j].url, urlPath)
      \/ \E i \in DOMAIN mounts :
           BestShare(mounts, urlPath) = mounts[i] /\ Best(mounts, urlPath, i)
  <2> HIDE DEF urlPath
  <2> QED BY BestShareIs
<1> QED BY <1>5, <1>6, <1>7 DEF sysPath

----------------------------------------------------------------------------
(* Index files.                                                            *)

\* the step of config_getIndexFile
IndexStep(masks, dir, best, name) ==
  LET matching == BetterMatches(masks, best, name)
  IN IF matching # {} /\ stat(Names(dir) \o <<name>>) = "file"
     THEN [rank |-> Min(matching), file |-> Names(dir) \o <<name>>]
     ELSE best

NoIndex(masks) == [rank |-> Len(masks) + 1, file |-> NoPath]

\* config_getIndexFile is the file that is held after the last entry.
LEMMA IndexRun ==
  ASSUME NEW masks \in Seq(SUBSET STRING), NEW dir \in Seq(STRING), NEW entries \in Seq(RealName)
  PROVE  \E g \in [0 .. Len(entries) -> [rank : 1 .. Len(masks) + 1, file : Real \union {NoPath}]] :
           /\ g[0] = NoIndex(masks)
           /\ g[Len(entries)].file = config_getIndexFile(masks, dir, entries)
           /\ \A k \in 1 .. Len(entries) : g[k] = IndexStep(masks, dir, g[k - 1], entries[k])
<1> DEFINE n == Len(entries)
           T == [rank : 1 .. Len(masks) + 1, file : Real \union {NoPath}]
           base == NoIndex(masks)
           step == [p \in (1 .. n) \X T |-> IndexStep(masks, dir, p[2], entries[p[1]])]
           Fold(h) == [s \in SUBSET DOMAIN entries |->
                         IF s = {} THEN base ELSE IndexStep(masks, dir, h[s \ {Max(s)}], entries[Max(s)])]
           h == CHOOSE h : h = Fold(h)
<1>1. config_getIndexFile(masks, dir, entries) = h[DOMAIN entries].file
  BY DEF config_getIndexFile, NoIndex, FoldLeft, MapThenFoldSet, IndexStep
<1>2. n \in Nat /\ DOMAIN entries = 1 .. n /\ base \in T /\ step \in [(1 .. n) \X T -> T]
  <2>1. Len(masks) \in Nat /\ n \in Nat /\ DOMAIN entries = 1 .. n /\ Names(dir) \in Real
    BY LenProperties, NamesReal
  <2>2. base \in T BY <2>1 DEF NoIndex
  <2>3. \A i \in 1 .. n, x \in T : IndexStep(masks, dir, x, entries[i]) \in T
    <3> SUFFICES ASSUME NEW i \in 1 .. n, NEW x \in T,
                        BetterMatches(masks, x, entries[i]) # {}
                 PROVE  [rank |-> Min(BetterMatches(masks, x, entries[i])),
                         file |-> Names(dir) \o <<entries[i]>>] \in T
      BY DEF IndexStep
    <3>1. entries[i] \in RealName BY ElementOfSeq
    <3>2. Names(dir) \o <<entries[i]>> \in Real
      BY <2>1, <3>1, AppendProperties, AppendIsConcat DEF Real
    <3>3. x.rank - 1 \in Nat /\ x.rank - 1 <= Len(masks) BY <2>1
    <3>4. BetterMatches(masks, x, entries[i]) \in SUBSET (1 .. x.rank - 1) BY DEF BetterMatches
    <3>5. Min(BetterMatches(masks, x, entries[i])) \in 1 .. x.rank - 1
      <4> HIDE DEF T
      <4> QED BY <3>3, <3>4, MinIn
    <3> QED BY <2>1, <3>2, <3>3, <3>5
  <2> QED
    <3> HIDE DEF T, n
    <3> QED BY <2>1, <2>2, <2>3
<1>3. \A i \in 1 .. n, x \in T : step[<<i, x>>] = IndexStep(masks, dir, x, entries[i])
  <2> HIDE DEF T, n
  <2> QED OBVIOUS
<1> HIDE DEF n, T, base, step
<1>4. PICK h0 \in [SUBSET (1 .. n) -> T] : IsFold(h0, n, base, step)
  BY <1>2, FoldExists
<1>5. h0 = Fold(h0)
  <2>1. ASSUME NEW s \in SUBSET (1 .. n), s # {}
        PROVE  step[<<Max(s), h0[s \ {Max(s)}]>>] =
                 IndexStep(masks, dir, h0[s \ {Max(s)}], entries[Max(s)])
    BY <2>1, <1>2, <1>3, MaxIn
  <2>2. \A s \in SUBSET DOMAIN entries : h0[s] = Fold(h0)[s] BY <1>2, <1>4, <2>1 DEF IsFold
  <2> QED BY <1>2, <2>2
<1>6. h = Fold(h)
  <2> HIDE DEF Fold
  <2> QED BY <1>5
<1>7. Follows(h, n, T, base, step)
  <2> HIDE DEF h
  <2>1. h[{}] = base BY <1>6
  <2>2. ASSUME NEW k \in 1 .. n, h[1 .. k - 1] \in T PROVE h[1 .. k] = step[<<k, h[1 .. k - 1]>>]
    <3>1. 1 .. k \in SUBSET DOMAIN entries /\ k \in Nat /\ k > 0 BY <1>2
    <3>2. Max(1 .. k) = k /\ (1 .. k) \ {k} = 1 .. k - 1 /\ 1 .. k # {} BY <3>1, MaxOfFirst
    <3>3. h[1 .. k] = IndexStep(masks, dir, h[1 .. k - 1], entries[k]) BY <1>6, <3>1, <3>2
    <3> QED BY <1>3, <2>2, <3>3
  <2> QED BY <2>1, <2>2 DEF Follows
<1>8. PICK g \in [0 .. n -> T] : IsRun(g, n, base, step, h[1 .. n])
  <2> HIDE DEF h
  <2> QED BY <1>2, <1>7, FoldRuns
<1>9. \A k \in 1 .. n : g[k] = IndexStep(masks, dir, g[k - 1], entries[k])
  <2>1. ASSUME NEW k \in 1 .. n PROVE g[k - 1] \in T BY <1>2
  <2> QED BY <1>3, <1>8, <2>1 DEF IsRun
<1>10. g[n].file = config_getIndexFile(masks, dir, entries) BY <1>1, <1>2, <1>8 DEF IsRun
<1> QED BY <1>8, <1>9, <1>10 DEF n, T, base, IsRun

\* The first of the patterns that a name matches, or the number behind the last.
IndexRank(masks, name) == Min({Len(masks) + 1} \union {i \in DOMAIN masks : name \in masks[i]})

\* What the rank of a name is.
LEMMA RankIs ==
  ASSUME NEW masks \in Seq(SUBSET STRING), NEW name
  PROVE  /\ IndexRank(masks, name) \in 1 .. Len(masks) + 1
         /\ IndexRank(masks, name) <= Len(masks) => name \in masks[IndexRank(masks, name)]
         /\ \A i \in 1 .. Len(masks) : name \in masks[i] => IndexRank(masks, name) <= i
<1> DEFINE n == Len(masks)
           s == {n + 1} \union {i \in 1 .. n : name \in masks[i]}
<1>1. n \in Nat /\ DOMAIN masks = 1 .. n BY LenProperties
<1>2. Min(s) \in s /\ \A y \in s : Min(s) <= y
  <2>1. n + 1 \in Nat /\ s \in SUBSET (1 .. n + 1) /\ s # {} BY <1>1
  <2> HIDE DEF s, n
  <2> QED BY <2>1, MinIn
<1>3. IndexRank(masks, name) = Min(s) BY <1>1 DEF IndexRank
<1>4. Min(s) \in 1 .. n + 1 /\ (Min(s) <= n => name \in masks[Min(s)])
  <2> DEFINE m == Min(s)
  <2>1. m = n + 1 \/ (m \in 1 .. n /\ name \in masks[m]) BY <1>2
  <2> HIDE DEF m, n
  <2>2. m \in 1 .. n + 1 /\ (m <= n => name \in masks[m]) BY <1>1, <2>1
  <2> QED BY <2>2 DEF m
<1>5. \A i \in 1 .. n : name \in masks[i] => Min(s) <= i BY <1>2
<1> QED BY <1>3, <1>4, <1>5

\* When an entry is taken, it is because its rank is less, and that is held.
LEMMA MatchIs ==
  ASSUME NEW masks \in Seq(SUBSET STRING), NEW best, best.rank \in 1 .. Len(masks) + 1, NEW name
  PROVE  /\ BetterMatches(masks, best, name) # {} <=> IndexRank(masks, name) < best.rank
         /\ BetterMatches(masks, best, name) # {} =>
              Min(BetterMatches(masks, best, name)) = IndexRank(masks, name)
<1> DEFINE n == Len(masks)
           rank == IndexRank(masks, name)
           matching == BetterMatches(masks, best, name)
<1>1. n \in Nat BY LenProperties
<1>2. /\ rank \in 1 .. n + 1 /\ (rank <= n => name \in masks[rank])
      /\ \A i \in 1 .. n : name \in masks[i] => rank <= i
  BY RankIs
<1>3. matching = {i \in 1 .. best.rank - 1 : name \in masks[i]} BY DEF BetterMatches
<1> HIDE DEF n, rank, matching
<1>4. best.rank \in 1 .. n + 1 BY DEF n
<1>5. rank < best.rank => rank \in matching BY <1>1, <1>2, <1>3, <1>4
<1>6. \A i \in matching : rank <= i /\ i \in 1 .. n /\ i < best.rank BY <1>1, <1>2, <1>3, <1>4
<1>7. matching # {} => rank < best.rank BY <1>2, <1>4, <1>6
<1>8. ASSUME matching # {} PROVE Min(matching) = rank
  <2>1. rank \in matching BY <1>5, <1>7, <1>8
  <2>2. matching \in SUBSET Int /\ \A y \in matching : rank <= y BY <1>6
  <2> QED BY <2>1, <2>2, MinIs
<1> QED BY <1>5, <1>7, <1>8 DEF rank, matching

\* A folder is in Tree, and no file is on the way to it.
LEMMA FolderIs ==
  ASSUME NEW href, Names(href) \in Real, stat(href) = "dir"
  PROVE  /\ Names(href) \in DOMAIN Tree /\ Tree[Names(href)].type = "dir"
         /\ \A n \in 1 .. Len(Names(href)) : ~IsFile(SubSeq(Names(href), 1, n))
<1> DEFINE names == Names(href)
<1>1. /\ \A n \in 1 .. Len(names) - 1 : ~IsFile(SubSeq(names, 1, n))
      /\ names \in DOMAIN Tree /\ Tree[names].type = "dir"
  BY DEF stat
<1>2. Len(names) \in Nat /\ SubSeq(names, 1, Len(names)) = names
  BY LenProperties, SubSeqFull DEF Real
<1> HIDE DEF names
<1>3. ~IsFile(names) BY <1>1 DEF IsFile
<1>4. \A n \in 1 .. Len(names) : n \in 1 .. Len(names) - 1 \/ n = Len(names)
  <2>1. Len(names) \in Nat BY <1>2
  <2> QED BY <2>1
<1>5. \A n \in 1 .. Len(names) : ~IsFile(SubSeq(names, 1, n)) BY <1>1, <1>2, <1>3, <1>4
<1> QED BY <1>1, <1>5 DEF names

\* An entry of such a folder is a file when it is one in Tree.
LEMMA EntryIs ==
  ASSUME NEW names \in Real, \A n \in 1 .. Len(names) : ~IsFile(SubSeq(names, 1, n)),
         NEW name \in RealName
  PROVE  /\ names \o <<name>> = Append(names, name)
         /\ stat(names \o <<name>>) = "file" <=> IsFile(Append(names, name))
<1> DEFINE file == Append(names, name)
           n == Len(names)
<1>1. file = names \o <<name>> BY AppendIsConcat DEF Real
<1>2. file \in Real /\ file # <<>> /\ n \in Nat /\ Len(file) = n + 1 /\ file[n + 1] = name
  BY AppendProperties, LenProperties DEF Real
<1>3. Names(file) = file BY <1>2, NamesOfReal
<1>4. \A m \in 1 .. n : SubSeq(file, 1, m) = SubSeq(names, 1, m)
  <2>1. <<name>> \in Seq(RealName) BY OneOrTwo
  <2> SUFFICES ASSUME NEW m \in 1 .. n PROVE SubSeq(file, 1, m) = SubSeq(names, 1, m)
    OBVIOUS
  <2>2. 1 \in 1 .. Len(names) /\ m \in 1 .. Len(names) BY <1>2
  <2> QED BY <1>1, <2>1, <2>2, SubSeqOfConcat1 DEF Real
<1>5. Last(file) # Empty
  <2> HIDE DEF file
  <2> QED BY <1>2 DEF Last, RealName
<1> HIDE DEF file
<1>6. Len(file) - 1 = n BY <1>2
<1>7. \A m \in 1 .. Len(file) - 1 : ~IsFile(SubSeq(file, 1, m)) BY <1>4, <1>6
<1>8. stat(file) = IF file \in DOMAIN Tree THEN Tree[file].type ELSE "ENOENT"
  BY <1>3, <1>5, <1>7 DEF stat
<1>9. stat(file) = "file" <=> IsFile(file) BY <1>8 DEF IsFile
<1> QED BY <1>1, <1>9 DEF file

\* The entries of a folder are names, and finitely many.
LEMMA EntriesAre ==
  ASSUME NEW names
  PROVE  Entries(names) \subseteq RealName /\ IsFiniteSet(Entries(names))
<1> DEFINE within == {q \in DOMAIN Tree : q # <<>> /\ Front(q) = names}
<1>1. \A p \in within : Last(p) \in RealName
  <2> SUFFICES ASSUME NEW p \in within PROVE Last(p) \in RealName
    OBVIOUS
  <2>1. p \in Seq(RealName) /\ p # <<>> BY TreeAssumption DEF RealName
  <2>2. Len(p) \in 1 .. Len(p) BY <2>1, EmptySeq
  <2> QED BY <2>1, <2>2, ElementOfSeq DEF Last
<1>2. IsFiniteSet(within)
  <2>1. within \subseteq DOMAIN Tree OBVIOUS
  <2> HIDE DEF within
  <2> QED BY <2>1, TreeAssumption, FS_Subset
<1>3. Entries(names) = {Last(p) : p \in within} BY DEF Entries
<1> DEFINE f == [p \in within |-> Last(p)]
<1>4. Entries(names) = {f[p] : p \in within} BY <1>3
<1>5. f \in Surjection(within, Entries(names))
  <2> HIDE DEF within
  <2> QED BY <1>4 DEF Surjection
<1>6. IsFiniteSet(Entries(names))
  <2> HIDE DEF within, f
  <2> QED BY <1>2, <1>5, FS_Surjection
<1> QED BY <1>1, <1>3, <1>6

\* A listing of the entries has names, only entries, and all of them.
LEMMA ListingIs ==
  ASSUME NEW names, NEW entries \in SetToSeqs(Entries(names))
  PROVE  /\ entries \in Seq(RealName)
         /\ \A k \in 1 .. Len(entries) : entries[k] \in Entries(names)
         /\ \A name \in Entries(names) : \E k \in 1 .. Len(entries) : entries[k] = name
<1> DEFINE S == Entries(names)
           n == Cardinality(S)
<1>1. S \subseteq RealName /\ IsFiniteSet(S) BY EntriesAre
<1>2. n \in Nat BY <1>1, FS_CardinalityType
<1>3. entries \in [1 .. n -> S] /\ \A i, j \in 1 .. n : i # j => entries[i] # entries[j]
  BY DEF SetToSeqs
<1> HIDE DEF S, n
<1>4. entries \in Injection(1 .. n, S) BY <1>3 DEF Injection, IsInjective
<1>5. Cardinality(1 .. n) = n
  <2>1. 1 \in Int /\ n \in Int BY <1>2
  <2>2. Cardinality(1 .. n) = IF 1 > n THEN 0 ELSE n - 1 + 1 BY <2>1, FS_Interval
  <2> QED BY <1>2, <2>2
<1>6. entries \in Surjection(1 .. n, S)
  <2>1. Cardinality(S) = n BY DEF n
  <2> QED BY <1>1, <1>4, <1>5, <2>1, FS_Injection
<1>7. entries \in Seq(S) BY <1>2, <1>3
<1>8. entries \in Seq(RealName) /\ Len(entries) = n
  <2>1. entries \in Seq(RealName) BY <1>1, <1>7, SeqMonotonic
  <2>2. Len(entries) \in Nat /\ DOMAIN entries = 1 .. Len(entries) BY <1>7, LenProperties
  <2> QED BY <1>2, <1>3, <2>1, <2>2
<1> QED BY <1>3, <1>6, <1>8 DEF Surjection, S

\* The index file is one of least rank among the files of the folder, however the
\* folder is listed; there is none when none of the files matches a pattern.
THEOREM IndexFileIs ==
  ASSUME NEW masks \in Seq(SUBSET STRING), NEW names \in Real,
         \A n \in 1 .. Len(names) : ~IsFile(SubSeq(names, 1, n)),
         NEW entries \in SetToSeqs(Entries(names))
  PROVE  LET file == config_getIndexFile(masks, names, entries)
             isFile(name) == IsFile(Append(names, name))
         IN \/ /\ file = NoPath
               /\ \A name \in Entries(names) :
                    isFile(name) => IndexRank(masks, name) = Len(masks) + 1
            \/ \E best \in Entries(names) :
                 /\ file = Append(names, best) /\ isFile(best)
                 /\ IndexRank(masks, best) <= Len(masks)
                 /\ \A name \in Entries(names) :
                      isFile(name) => IndexRank(masks, best) <= IndexRank(masks, name)
<1> DEFINE n == Len(entries)
           top == Len(masks) + 1
           file == config_getIndexFile(masks, names, entries)
           isFile(k) == IsFile(Append(names, entries[k]))
           rank(k) == IndexRank(masks, entries[k])
           Holder == [rank : 1 .. top, file : Real \union {NoPath}]
<1>1. /\ entries \in Seq(RealName) /\ \A k \in 1 .. n : entries[k] \in Entries(names)
      /\ \A name \in Entries(names) : \E k \in 1 .. n : entries[k] = name
  BY ListingIs
<1>2. n \in Nat /\ \A k \in 1 .. n : entries[k] \in RealName BY <1>1, LenProperties, ElementOfSeq
<1>3. names \in Seq(STRING) /\ Names(names) = names
  <2>1. RealName \subseteq STRING BY DEF RealName
  <2> QED BY <2>1, SeqMonotonic, NamesOfReal DEF Real
<1>4. PICK g \in [0 .. n -> Holder] :
           /\ g[0] = NoIndex(masks) /\ g[n].file = file
           /\ \A k \in 1 .. n : g[k] = IndexStep(masks, names, g[k - 1], entries[k])
  BY <1>1, <1>3, IndexRun
<1>5. top \in Nat /\ \A k \in 1 .. n : rank(k) \in 1 .. top BY RankIs, LenProperties
<1> DEFINE IsHit(k, i) ==
             /\ g[k] = [rank |-> rank(i), file |-> Append(names, entries[i])]
             /\ isFile(i) /\ rank(i) < top
             /\ \A j \in 1 .. k : isFile(j) => rank(i) <= rank(j)
           Held(k) == \/ g[k] = NoIndex(masks) /\ \A j \in 1 .. k : isFile(j) => rank(j) = top
                      \/ \E i \in 1 .. k : IsHit(k, i)
           S == {k \in Nat : Held(k)}
<1>6. 0 \in S BY <1>4
<1>7. ASSUME NEW k \in 1 .. n, k - 1 \in S PROVE k \in S
  <2>1. k \in Nat /\ k - 1 \in 0 .. n /\ k \in 1 .. k /\ Held(k - 1)
    <3>1. Held(k - 1) BY <1>7
    <3> HIDE DEF Held, n
    <3> QED BY <1>2, <3>1
  <2>2. g[k - 1].rank \in 1 .. top BY <1>4, <2>1
  <2>3. g[k] = IF rank(k) < g[k - 1].rank /\ isFile(k)
               THEN [rank |-> rank(k), file |-> Append(names, entries[k])] ELSE g[k - 1]
    <3>1. /\ names \o <<entries[k]>> = Append(names, entries[k])
          /\ stat(names \o <<entries[k]>>) = "file" <=> isFile(k)
      BY <1>2, EntryIs
    <3>2. /\ BetterMatches(masks, g[k - 1], entries[k]) # {} <=> rank(k) < g[k - 1].rank
          /\ BetterMatches(masks, g[k - 1], entries[k]) # {} =>
               Min(BetterMatches(masks, g[k - 1], entries[k])) = rank(k)
      BY <2>2, MatchIs
    <3>3. g[k] = IndexStep(masks, names, g[k - 1], entries[k]) BY <1>4
    <3> HIDE DEF rank, isFile
    <3> QED BY <1>3, <3>1, <3>2, <3>3 DEF IndexStep
  <2> HIDE DEF rank, isFile, top
  <2>4. CASE g[k - 1] = NoIndex(masks) /\ \A j \in 1 .. k - 1 : isFile(j) => rank(j) = top
    <3>1. g[k - 1].rank = top BY <2>4 DEF NoIndex, top
    <3>2. CASE rank(k) < top /\ isFile(k)
      <4>1. IsHit(k, k)
        <5>1. \A j \in 1 .. k : isFile(j) => rank(k) <= rank(j)
          BY <1>5, <2>1, <2>4, <3>2
        <5> QED BY <2>3, <3>1, <3>2, <5>1
      <4> QED BY <2>1, <4>1
    <3>3. CASE ~(rank(k) < top /\ isFile(k))
      <4>1. \A j \in 1 .. k : isFile(j) => rank(j) = top BY <1>5, <2>1, <2>4, <3>3
      <4> QED BY <2>1, <2>3, <2>4, <3>1, <3>3, <4>1
    <3> QED BY <3>2, <3>3
  <2>5. ASSUME NEW i \in 1 .. k - 1, IsHit(k - 1, i) PROVE Held(k)
    <3>1. g[k - 1].rank = rank(i) BY <2>5
    <3>2. i \in 1 .. k /\ i \in 1 .. n BY <2>1
    <3>3. CASE rank(k) < rank(i) /\ isFile(k)
      <4>1. \A j \in 1 .. k : isFile(j) => rank(k) <= rank(j)
        <5> SUFFICES ASSUME NEW j \in 1 .. k, isFile(j) PROVE rank(k) <= rank(j)
          OBVIOUS
        <5>1. CASE j = k BY <1>5, <5>1
        <5>2. CASE j \in 1 .. k - 1
          <6>1. rank(i) <= rank(j) BY <2>5, <5>2
          <6>2. rank(i) \in 1 .. top /\ rank(j) \in 1 .. top /\ rank(k) \in 1 .. top
            BY <1>5, <2>1, <3>2
          <6> QED BY <1>5, <3>3, <6>1, <6>2
        <5> QED BY <2>1, <5>1, <5>2
      <4>2. rank(k) < top
        <5>1. rank(k) \in 1 .. top /\ rank(i) \in 1 .. top BY <1>5, <2>1, <3>2
        <5>2. rank(i) < top BY <2>5
        <5> QED BY <1>5, <3>3, <5>1, <5>2
      <4>3. IsHit(k, k) BY <2>3, <3>1, <3>3, <4>1, <4>2
      <4> QED BY <2>1, <4>3
    <3>4. CASE ~(rank(k) < rank(i) /\ isFile(k))
      <4>1. \A j \in 1 .. k : isFile(j) => rank(i) <= rank(j)
        BY <1>5, <2>1, <2>5, <3>2, <3>4
      <4>2. IsHit(k, i) BY <2>3, <2>5, <3>1, <3>4, <4>1
      <4> QED BY <3>2, <4>2
    <3> QED BY <3>3, <3>4
  <2> QED BY <2>1, <2>4, <2>5
<1>8. Held(n)
  <2> HIDE DEF Held
  <2>1. \A k \in 1 .. n : k - 1 \in S => k \in S BY <1>7
  <2>2. 0 \in S BY <1>6
  <2> HIDE DEF S
  <2>3. \A k \in 0 .. n : k \in S BY <1>2, <2>1, <2>2, UpTo
  <2>4. n \in S BY <1>2, <2>3
  <2> QED BY <2>4 DEF S
<1>9. CASE g[n] = NoIndex(masks) /\ \A j \in 1 .. n : isFile(j) => rank(j) = top
  <2>1. file = NoPath BY <1>4, <1>9 DEF NoIndex
  <2> QED BY <1>1, <1>9, <2>1
<1>10. ASSUME NEW i \in 1 .. n, IsHit(n, i)
       PROVE  /\ entries[i] \in Entries(names) /\ file = Append(names, entries[i]) /\ isFile(i)
              /\ rank(i) <= Len(masks)
              /\ \A name \in Entries(names) : IsFile(Append(names, name)) =>
                   rank(i) <= IndexRank(masks, name)
  <2>1. file = Append(names, entries[i]) BY <1>4, <1>10
  <2>2. rank(i) <= Len(masks)
    <3>1. rank(i) \in 1 .. top /\ Len(masks) \in Nat /\ rank(i) < top
      BY <1>5, <1>10, LenProperties
    <3> HIDE DEF rank
    <3> QED BY <3>1
  <2> QED BY <1>1, <1>10, <2>1, <2>2
<1> QED BY <1>8, <1>9, <1>10

----------------------------------------------------------------------------
(* CGI programs.                                                           *)

\* Where a path is cut, its beginning names a program.
LEMMA CutIs ==
  ASSUME NEW mounts, NEW exe, NEW urlPath \in Seq(STRING) \ {<<>>}
  PROVE  LET cut == config_findCGI(mounts, exe, urlPath)
         IN /\ cut \in 0 .. Len(urlPath) - 1
            /\ cut > 0 => IsScript(mounts, exe, SubSeq(urlPath, 1, cut))
<1> DEFINE n == Len(urlPath) - 1
           scripts == {i \in 1 .. n : IsScript(mounts, exe, SubSeq(urlPath, 1, i))}
           cut == Max({0} \union scripts)
<1>1. n \in Nat BY EmptySeq
<1>2. scripts \in SUBSET (1 .. n) OBVIOUS
<1>3. cut \in {0} \union scripts /\ cut \in 0 .. n
  <2> HIDE DEF scripts, n
  <2> QED BY <1>1, <1>2, MaxOr0
<1>4. cut > 0 => cut \in scripts
  <2> HIDE DEF cut, scripts
  <2> QED BY <1>3
<1>5. config_findCGI(mounts, exe, urlPath) = cut BY DEF config_findCGI
<1>6. cut > 0 => IsScript(mounts, exe, SubSeq(urlPath, 1, cut)) BY <1>4
<1> QED BY <1>3, <1>5, <1>6

----------------------------------------------------------------------------
(* The shares below a path.                                                *)

\* What is left of a path when its slashes are trimmed begins it.
LEMMA TrimBegins ==
  ASSUME NEW href \in Seq(STRING) \ {<<>>}
  PROVE  /\ TrimSlashes(href) \in Seq(STRING) /\ Len(TrimSlashes(href)) \in 1 .. Len(href)
         /\ \A k \in 1 .. Len(TrimSlashes(href)) : TrimSlashes(href)[k] = href[k]
<1> DEFINE n == Len(href)
           last == {i \in 1 .. n : href[i] # Empty}
           m == Max({1} \union last)
           trimmed == SubSeq(href, 1, m)
<1>1. n \in Nat /\ n > 0 BY EmptySeq
<1>2. m \in 1 .. n
  <2>1. {1} \union last \in SUBSET (1 .. n) /\ {1} \union last # {} BY <1>1
  <2> HIDE DEF last, n
  <2> QED BY <1>1, <2>1, MaxIn
<1> HIDE DEF m
<1>3. \A i \in 1 .. m : href[i] \in STRING
  <2>1. \A i \in 1 .. m : i \in 1 .. n BY <1>1, <1>2
  <2> QED BY <2>1, ElementOfSeq
<1>4. /\ trimmed \in Seq(STRING) /\ Len(trimmed) = IF 1 <= m THEN m - 1 + 1 ELSE 0
      /\ \A i \in 1 .. m - 1 + 1 : trimmed[i] = href[1 + i - 1]
  <2>1. 1 \in Int /\ m \in Int BY <1>2
  <2> QED BY <1>3, <2>1, SubSeqProperties
<1> HIDE DEF trimmed, n
<1>5. m - 1 + 1 = m /\ 1 <= m /\ \A i \in 1 .. m : 1 + i - 1 = i BY <1>1, <1>2
<1>6. Len(trimmed) = m /\ \A i \in 1 .. m : trimmed[i] = href[i] BY <1>4, <1>5
<1>7. TrimSlashes(href) = trimmed BY DEF TrimSlashes, trimmed, m, n
<1> QED BY <1>1, <1>2, <1>4, <1>6, <1>7 DEF n

\* What begins another sequence strictly is shorter.
LEMMA StrictIs ==
  ASSUME NEW T, NEW s \in Seq(T), NEW t \in Seq(T)
  PROVE  IsStrictPrefix(s, t) <=> Len(s) < Len(t) /\ \A k \in 1 .. Len(s) : s[k] = t[k]
<1>1. IsPrefix(s, t) <=> Len(s) <= Len(t) /\ \A k \in 1 .. Len(s) : s[k] = t[k] BY PrefixIs
<1>2. Len(s) \in Nat /\ Len(t) \in Nat BY LenProperties
<1>3. (Len(s) = Len(t) /\ \A k \in 1 .. Len(s) : s[k] = t[k]) => s = t BY SeqEqual
<1> QED BY <1>1, <1>2, <1>3 DEF IsStrictPrefix

\* A name behind a path, with and without a slash at its end.
LEMMA LinkIs ==
  ASSUME NEW s \in Seq(STRING) \ {<<>>}, NEW name \in RealName
  PROVE  /\ s \o <<name>> \in Seq(STRING) /\ Len(s \o <<name>>) = Len(s) + 1
         /\ (s \o <<name>>)[Len(s) + 1] = name
         /\ \A k \in 1 .. Len(s) : (s \o <<name>>)[k] = s[k]
         /\ s \o <<name, Empty>> \in Seq(STRING) /\ Len(s \o <<name, Empty>>) = Len(s) + 2
         /\ (s \o <<name, Empty>>)[Len(s) + 2] = Empty
         /\ \A k \in 1 .. Len(s) + 1 : (s \o <<name, Empty>>)[k] = (s \o <<name>>)[k]
<1> DEFINE one == <<name>>
           two == <<name, Empty>>
           n == Len(s)
<1>1. /\ one \in Seq(STRING) /\ Len(one) = 1 /\ one[1] = name
      /\ two \in Seq(STRING) /\ Len(two) = 2 /\ two[1] = name /\ two[2] = Empty
  BY OneOrTwo, EmptyAssumption DEF RealName
<1>2. n \in Nat BY LenProperties
<1> HIDE DEF one, two
<1>3. /\ s \o one \in Seq(STRING) /\ Len(s \o one) = n + 1
      /\ \A i \in 1 .. n + 1 : (s \o one)[i] = IF i <= n THEN s[i] ELSE one[i - n]
  <2>1. /\ s \o one \in Seq(STRING) /\ Len(s \o one) = Len(s) + Len(one)
        /\ \A i \in 1 .. Len(s) + Len(one) :
             (s \o one)[i] = IF i <= Len(s) THEN s[i] ELSE one[i - Len(s)]
    BY <1>1, ConcatProperties
  <2> QED BY <1>1, <2>1
<1>4. /\ s \o two \in Seq(STRING) /\ Len(s \o two) = n + 2
      /\ \A i \in 1 .. n + 2 : (s \o two)[i] = IF i <= n THEN s[i] ELSE two[i - n]
  <2>1. /\ s \o two \in Seq(STRING) /\ Len(s \o two) = Len(s) + Len(two)
        /\ \A i \in 1 .. Len(s) + Len(two) :
             (s \o two)[i] = IF i <= Len(s) THEN s[i] ELSE two[i - Len(s)]
    BY <1>1, ConcatProperties
  <2> QED BY <1>1, <2>1
<1> DEFINE long == s \o one
           longer == s \o two
<1> HIDE DEF long, longer
<1>5. long[n + 1] = name /\ \A k \in 1 .. n : long[k] = s[k]
  <2>1. (n + 1) - n = 1 /\ n + 1 \in 1 .. n + 1 /\ ~(n + 1 <= n) BY <1>2
  <2>2. long[n + 1] = one[(n + 1) - n] BY <1>3, <2>1 DEF long
  <2>3. \A k \in 1 .. n : k \in 1 .. n + 1 /\ k <= n BY <1>2
  <2> QED BY <1>1, <1>3, <2>1, <2>2, <2>3 DEF long
<1>6. longer[n + 2] = Empty /\ longer[n + 1] = name /\ \A k \in 1 .. n : longer[k] = s[k]
  <2>1. /\ (n + 1) - n = 1 /\ n + 1 \in 1 .. n + 2 /\ ~(n + 1 <= n)
        /\ (n + 2) - n = 2 /\ n + 2 \in 1 .. n + 2 /\ ~(n + 2 <= n)
    BY <1>2
  <2>2. longer[n + 1] = two[(n + 1) - n] /\ longer[n + 2] = two[(n + 2) - n]
    BY <1>4, <2>1 DEF longer
  <2>3. \A k \in 1 .. n : k \in 1 .. n + 2 /\ k <= n BY <1>2
  <2> QED BY <1>1, <1>4, <2>1, <2>2, <2>3 DEF longer
<1>7. \A k \in 1 .. n + 1 : longer[k] = long[k] BY <1>2, <1>5, <1>6
<1>8. longer \in Seq(STRING) /\ Len(longer) = n + 2 BY <1>4 DEF longer
<1>9. long \in Seq(STRING) /\ Len(long) = n + 1 BY <1>3 DEF long
<1> QED BY <1>5, <1>6, <1>7, <1>8, <1>9 DEF one, two, long, longer

\* Trimmed of its slash, the link to an entry ends with the name of the entry.
LEMMA TrimLink ==
  ASSUME NEW s \in Seq(STRING) \ {<<>>}, NEW name \in RealName
  PROVE  /\ TrimSlashes(s \o <<name>>) = s \o <<name>>
         /\ TrimSlashes(s \o <<name, Empty>>) = s \o <<name>>
<1> DEFINE n == Len(s)
           long == s \o <<name>>
           longer == s \o <<name, Empty>>
<1>1. /\ long \in Seq(STRING) /\ Len(long) = n + 1 /\ long[n + 1] = name
      /\ longer \in Seq(STRING) /\ Len(longer) = n + 2 /\ longer[n + 2] = Empty
      /\ \A k \in 1 .. n + 1 : longer[k] = long[k]
  BY LinkIs
<1>2. n \in Nat /\ n > 0 BY EmptySeq
<1>3. name # Empty BY DEF RealName
<1> HIDE DEF n, long, longer
<1> DEFINE some == {1} \union {i \in 1 .. n + 1 : long[i] # Empty}
           more == {1} \union {i \in 1 .. n + 2 : longer[i] # Empty}
<1>4. Max(some) = n + 1
  <2>1. n + 1 \in some /\ some \in SUBSET Int /\ \A y \in some : n + 1 >= y BY <1>1, <1>2, <1>3
  <2> HIDE DEF some
  <2> QED BY <2>1, MaxIs
<1>5. Max(more) = n + 1
  <2>1. n + 1 \in more
    <3>1. n + 1 \in 1 .. n + 1 /\ n + 1 \in 1 .. n + 2 BY <1>2
    <3>2. longer[n + 1] = name BY <1>1, <3>1
    <3> QED BY <1>3, <3>1, <3>2
  <2>2. \A y \in more : y \in Int /\ n + 1 >= y
    <3> SUFFICES ASSUME NEW y \in more PROVE y \in Int /\ n + 1 >= y
      OBVIOUS
    <3>1. y = 1 \/ (y \in 1 .. n + 2 /\ y # n + 2) BY <1>1
    <3> QED BY <1>2, <3>1
  <2> HIDE DEF more
  <2> QED BY <2>1, <2>2, MaxIs
<1>6. TrimSlashes(long) = SubSeq(long, 1, n + 1) BY <1>1, <1>4 DEF TrimSlashes
<1>7. TrimSlashes(longer) = SubSeq(longer, 1, n + 1) BY <1>1, <1>5 DEF TrimSlashes
<1>8. SubSeq(long, 1, n + 1) = long BY <1>1, SubSeqFull
<1>9. SubSeq(longer, 1, n + 1) = long
  <2> DEFINE first == SubSeq(longer, 1, n + 1)
  <2>1. \A i \in 1 .. n + 1 : longer[i] \in STRING
    <3>1. \A i \in 1 .. n + 1 : i \in 1 .. Len(longer) BY <1>1, <1>2
    <3> QED BY <1>1, <3>1, ElementOfSeq
  <2>2. 1 \in Int /\ n + 1 \in Int BY <1>2
  <2>3. /\ first \in Seq(STRING)
        /\ Len(first) = IF 1 <= n + 1 THEN (n + 1) - 1 + 1 ELSE 0
        /\ \A i \in 1 .. (n + 1) - 1 + 1 : first[i] = longer[1 + i - 1]
    BY <2>1, <2>2, SubSeqProperties
  <2> HIDE DEF first
  <2>4. (n + 1) - 1 + 1 = n + 1 /\ 1 <= n + 1 /\ \A i \in 1 .. n + 1 : 1 + i - 1 = i BY <1>2
  <2>5. Len(first) = Len(long) /\ \A i \in 1 .. Len(first) : first[i] = long[i]
    BY <1>1, <2>3, <2>4
  <2>6. first = long BY <1>1, <2>3, <2>5, SeqEqual
  <2> QED BY <2>6 DEF first
<1> QED BY <1>6, <1>7, <1>8, <1>9 DEF long, longer

\* The names of a share below a path, when its URL path has no two slashes in a row.
LEMMA BeyondIs ==
  ASSUME NEW url \in Trimmed, Empty \notin ToSet(Tail(url)), NEW href \in Seq(STRING) \ {<<>>}
  PROVE  LET n == Len(TrimSlashes(href))
         IN /\ Beyond(url, href) # <<>> <=> IsStrictPrefix(TrimSlashes(href), url)
            /\ Beyond(url, href) # <<>> =>
                 /\ Len(Beyond(url, href)) = Len(url) - n
                 /\ Head(Beyond(url, href)) = url[n + 1]
                 /\ url[n + 1] \in RealName
<1> DEFINE trimmed == TrimSlashes(href)
           n == Len(trimmed)
           below == SubSeq(url, n + 1, Len(url))
<1>1. trimmed \in Seq(STRING) /\ n \in Nat /\ n > 0
  <2>1. Len(href) \in Nat BY LenProperties
  <2> HIDE DEF trimmed
  <2>2. trimmed \in Seq(STRING) /\ Len(trimmed) \in 1 .. Len(href) BY TrimBegins DEF trimmed
  <2> QED BY <2>1, <2>2
<1>2. url \in Seq(STRING) /\ url # <<>> /\ Len(url) \in Nat /\ Len(url) > 0
  BY EmptySeq DEF Trimmed
<1>3. \A k \in 2 .. Len(url) : url[k] \in RealName
  <2> SUFFICES ASSUME NEW k \in 2 .. Len(url) PROVE url[k] \in STRING /\ url[k] # Empty
    BY DEF RealName
  <2>1. /\ Tail(url) \in Seq(STRING) /\ Len(Tail(url)) = Len(url) - 1
        /\ \A i \in 1 .. Len(Tail(url)) : Tail(url)[i] = url[i + 1]
    BY <1>2, HeadTailProperties
  <2>2. k - 1 \in 1 .. Len(Tail(url)) /\ (k - 1) + 1 = k BY <1>2, <2>1
  <2>3. Tail(url)[k - 1] = url[k] BY <2>1, <2>2
  <2>4. DOMAIN Tail(url) = 1 .. Len(Tail(url)) BY <2>1, LenProperties
  <2>5. Tail(url)[k - 1] \in ToSet(Tail(url)) BY <2>2, <2>4 DEF ToSet
  <2>6. url[k] \in STRING
    <3>1. k \in 1 .. Len(url) OBVIOUS
    <3> QED BY <1>2, <3>1, ElementOfSeq
  <2> QED BY <2>3, <2>5, <2>6
<1>4. IsStrictPrefix(trimmed, url) => n < Len(url)
  <2> HIDE DEF trimmed
  <2> QED BY <1>1, <1>2, StrictIs
<1>5. CASE ~IsStrictPrefix(trimmed, url)
  BY <1>5 DEF Beyond
<1>6. CASE IsStrictPrefix(trimmed, url)
  <2> HIDE DEF trimmed
  <2>1. n < Len(url) BY <1>4, <1>6
  <2> HIDE DEF n
  <2>2. \A i \in n + 1 .. Len(url) : url[i] \in RealName
    <3>1. \A i \in n + 1 .. Len(url) : i \in 2 .. Len(url) BY <1>1, <1>2
    <3> QED BY <1>3, <3>1
  <2>3. /\ below \in Seq(RealName)
        /\ Len(below) = IF n + 1 <= Len(url) THEN Len(url) - (n + 1) + 1 ELSE 0
        /\ \A i \in 1 .. Len(url) - (n + 1) + 1 : below[i] = url[(n + 1) + i - 1]
    <3>1. n + 1 \in Int /\ Len(url) \in Int BY <1>1, <1>2
    <3> QED BY <2>2, <3>1, SubSeqProperties
  <2> HIDE DEF below
  <2>4. Len(below) = Len(url) - n /\ Len(below) > 0 /\ below[1] = url[n + 1]
    <3>1. 1 \in 1 .. Len(url) - (n + 1) + 1 /\ (n + 1) + 1 - 1 = n + 1 BY <1>1, <1>2, <2>1
    <3>2. below[1] = url[(n + 1) + 1 - 1] BY <2>3, <3>1
    <3> QED BY <1>1, <1>2, <2>1, <2>3, <3>1, <3>2
  <2>5. below # <<>> BY <2>4, EmptySeq
  <2>6. Beyond(url, href) = below
    <3>1. Names(below) = below BY <2>3, NamesOfReal DEF Real
    <3> QED BY <1>6, <3>1 DEF Beyond, below, n, trimmed
  <2>7. Head(below) = url[n + 1] BY <2>3, <2>4, <2>5
  <2>8. url[n + 1] \in RealName
    <3>1. n + 1 \in 2 .. Len(url) BY <1>1, <1>2, <2>1
    <3> QED BY <1>3, <3>1
  <2> QED BY <1>6, <2>4, <2>5, <2>6, <2>7, <2>8 DEF n, trimmed
<1> QED BY <1>5, <1>6

\* The shares are there, none lies below one that is a file, and none has two slashes in
\* a row in its URL path.
Plain(mounts) ==
  \A s, t \in DOMAIN mounts :
    /\ stat(mounts[s].sys) \in {"file", "dir"}
    /\ IsStrictPrefix(mounts[s].url, mounts[t].url) => stat(mounts[s].sys) = "dir"
    /\ Empty \notin ToSet(Tail(mounts[s].url))

Link(href, entry) ==
  TrimSlashes(href) \o (IF entry.isDir THEN <<entry.name, Empty>> ELSE <<entry.name>>)

\* What is known of a list of shares.
LEMMA SharesAre ==
  ASSUME NEW mounts \in Seq(Share)
  PROVE  \A j \in DOMAIN mounts :
           /\ j \in Int /\ mounts[j].url \in Trimmed /\ mounts[j].url \in Seq(STRING)
           /\ mounts[j].url # <<>> /\ Len(mounts[j].url) \in Nat /\ Len(mounts[j].url) > 0
           /\ mounts[j].sys \in Seq(STRING)
<1> TAKE j \in DOMAIN mounts
<1>1. j \in 1 .. Len(mounts) BY LenProperties
<1>2. mounts[j] \in Share BY <1>1, ElementOfSeq
<1>3. mounts[j].url \in Trimmed /\ mounts[j].sys \in Seq(STRING) BY <1>2 DEF Share
<1>4. mounts[j].url \in Seq(STRING) /\ mounts[j].url # <<>> BY <1>3 DEF Trimmed
<1> QED BY <1>1, <1>3, <1>4, EmptySeq

\* The shares that make an entry of the list below a path: those whose URL path goes on
\* with its name behind the path.
LEMMA EntryMadeBy ==
  ASSUME NEW mounts \in Seq(Share), Plain(mounts), NEW href \in Seq(STRING) \ {<<>>},
         NEW entry \in config_getSubSharesForPath(mounts, href)
  PROVE  LET trimmed == TrimSlashes(href)
             makes(i) == /\ IsStrictPrefix(trimmed, mounts[i].url)
                         /\ mounts[i].url[Len(trimmed) + 1] = entry.name
         IN /\ entry.name \in RealName
            /\ \E f \in DOMAIN mounts :
                 /\ makes(f) /\ \A i \in DOMAIN mounts : makes(i) => f <= i
                 /\ entry.isDir <=> \/ Len(mounts[f].url) > Len(trimmed) + 1
                                    \/ stat(mounts[f].sys) # "file"
<1> DEFINE trimmed == TrimSlashes(href)
           n == Len(trimmed)
           url(i) == mounts[i].url
           beyond(i) == Beyond(mounts[i].url, href)
           makes(i) == IsStrictPrefix(trimmed, url(i)) /\ url(i)[n + 1] = entry.name
           isDir(i) == Len(beyond(i)) > 1 \/ stat(mounts[i].sys) # "file"
           makers == {i \in DOMAIN mounts : beyond(i) # <<>> /\ Head(beyond(i)) = entry.name}
<1>1. /\ entry.name \in {Head(beyond(i)) : i \in {i \in DOMAIN mounts : beyond(i) # <<>>}}
      /\ entry.isDir = isDir(Min(makers))
  <2>1. PICK name \in {Head(beyond(i)) : i \in {i \in DOMAIN mounts : beyond(i) # <<>>}} :
          entry = [name |-> name, isDir |-> isDir(FirstDecidesEntry(mounts, href, name))]
    BY DEF config_getSubSharesForPath
  <2>2. entry.name = name /\ entry.isDir = isDir(FirstDecidesEntry(mounts, href, name))
    <3> HIDE DEF isDir
    <3> QED BY <2>1
  <2>3. FirstDecidesEntry(mounts, href, name) = Min(makers) BY <2>2 DEF FirstDecidesEntry
  <2> QED BY <2>1, <2>2, <2>3
<1>2. \A i \in DOMAIN mounts :
         /\ beyond(i) # <<>> <=> IsStrictPrefix(trimmed, url(i))
         /\ beyond(i) # <<>> => /\ Len(beyond(i)) = Len(url(i)) - n
                               /\ Head(beyond(i)) = url(i)[n + 1]
                               /\ url(i)[n + 1] \in RealName
  <2> TAKE i \in DOMAIN mounts
  <2>1. url(i) \in Trimmed /\ Empty \notin ToSet(Tail(url(i))) BY SharesAre DEF Plain
  <2> QED BY <2>1, BeyondIs
<1>3. n \in Nat
  <2>1. Len(href) \in Nat BY LenProperties
  <2>2. n \in 1 .. Len(href) BY TrimBegins
  <2> HIDE DEF n
  <2> QED BY <2>1, <2>2
<1>4. \A i \in DOMAIN mounts : i \in makers <=> makes(i)
  <2> HIDE DEF trimmed, n, url, beyond
  <2> QED BY <1>2
<1>5. PICK some \in DOMAIN mounts : beyond(some) # <<>> /\ Head(beyond(some)) = entry.name
  BY <1>1
<1>6. Min(makers) \in makers /\ \A y \in makers : Min(makers) <= y
  <2>1. Len(mounts) \in Nat /\ DOMAIN mounts = 1 .. Len(mounts) BY LenProperties
  <2>2. makers \in SUBSET (1 .. Len(mounts)) /\ makers # {} BY <1>5, <2>1
  <2> HIDE DEF makers
  <2> QED BY <2>1, <2>2, MinIn
<1> DEFINE f == Min(makers)
<1>7. f \in DOMAIN mounts /\ f \in makers /\ \A i \in DOMAIN mounts : makes(i) => f <= i
  <2>1. makers \subseteq DOMAIN mounts OBVIOUS
  <2> HIDE DEF makers, makes
  <2> QED BY <1>4, <1>6, <2>1
<1>8. entry.name \in RealName
  <2> HIDE DEF trimmed, n, url, beyond
  <2> QED BY <1>2, <1>5
<1> HIDE DEF f
<1>9. makes(f) BY <1>4, <1>7
<1>10. entry.isDir <=> \/ Len(url(f)) > n + 1
                       \/ stat(mounts[f].sys) # "file"
  <2>1. entry.isDir = isDir(f) BY <1>1 DEF f
  <2>2. Len(beyond(f)) = Len(url(f)) - n
    <3>1. beyond(f) # <<>>
      <4> HIDE DEF beyond
      <4> QED BY <1>7
    <3> HIDE DEF beyond, n, url
    <3> QED BY <1>2, <1>7, <3>1
  <2>3. Len(url(f)) \in Nat BY <1>7, SharesAre
  <2> HIDE DEF beyond, n, url
  <2>4. Len(beyond(f)) > 1 <=> Len(url(f)) > n + 1 BY <1>3, <2>2, <2>3
  <2> QED BY <2>1, <2>4
<1> HIDE DEF makers
<1> QED BY <1>7, <1>8, <1>9, <1>10

\* Under three conditions (Plain): every share is there, none lies below a share that is a
\* file, and no URL path of a share has two slashes in a row.  The link of an entry leads
\* then to the file or folder of a share, or to a list of shares.  Without the last one it
\* may not: the code names an entry without the second slash, and its link finds nothing.
THEOREM EntryLeads ==
  ASSUME NEW mounts \in Seq(Share), Plain(mounts), NEW href \in Seq(STRING) \ {<<>>},
         \A i \in DOMAIN mounts : ~IsPrefix(mounts[i].url, href),
         NEW entry \in config_getSubSharesForPath(mounts, href)
  PROVE  LET sysPath == config_getSysPathForUrlPath(mounts, Link(href, entry))
         IN IF sysPath = NoPath THEN config_getSubSharesForPath(mounts, Link(href, entry)) # {}
            ELSE stat(sysPath) \in {"dir", "file"}
<1> DEFINE trimmed == TrimSlashes(href)
           n == Len(trimmed)
           url(i) == mounts[i].url
           makes(i) == IsStrictPrefix(trimmed, url(i)) /\ url(i)[n + 1] = entry.name
           long == trimmed \o <<entry.name>>
           longer == trimmed \o <<entry.name, Empty>>
           link == Link(href, entry)
           sysPath == config_getSysPathForUrlPath(mounts, link)
<1>1. /\ entry.name \in RealName
      /\ \E f \in DOMAIN mounts :
           /\ makes(f) /\ \A i \in DOMAIN mounts : makes(i) => f <= i
           /\ entry.isDir <=> Len(url(f)) > n + 1 \/ stat(mounts[f].sys) # "file"
  BY EntryMadeBy
<1>2. PICK f \in DOMAIN mounts :
        /\ makes(f) /\ \A i \in DOMAIN mounts : makes(i) => f <= i
        /\ entry.isDir <=> Len(url(f)) > n + 1 \/ stat(mounts[f].sys) # "file"
  BY <1>1
<1>3. /\ trimmed \in Seq(STRING) /\ n \in Nat /\ n > 0 /\ trimmed # <<>> /\ n <= Len(href)
      /\ \A k \in 1 .. n : trimmed[k] = href[k]
  <2>1. Len(href) \in Nat BY LenProperties
  <2>2. /\ trimmed \in Seq(STRING) /\ n \in 1 .. Len(href)
        /\ \A k \in 1 .. n : trimmed[k] = href[k]
    BY TrimBegins
  <2> HIDE DEF trimmed
  <2> QED BY <2>1, <2>2, EmptySeq
<1>4. link = IF entry.isDir THEN longer ELSE long BY DEF Link
<1>5. /\ long \in Seq(STRING) /\ Len(long) = n + 1 /\ long[n + 1] = entry.name
      /\ \A k \in 1 .. n : long[k] = trimmed[k]
      /\ longer \in Seq(STRING) /\ Len(longer) = n + 2 /\ longer[n + 2] = Empty
      /\ \A k \in 1 .. n + 1 : longer[k] = long[k]
      /\ TrimSlashes(long) = long /\ TrimSlashes(longer) = long
  <2> HIDE DEF trimmed
  <2>1. trimmed \in Seq(STRING) \ {<<>>} /\ entry.name \in RealName BY <1>1, <1>3
  <2>2. TrimSlashes(long) = long /\ TrimSlashes(longer) = long
    BY <2>1, TrimLink
  <2>3. /\ long \in Seq(STRING) /\ Len(long) = n + 1 /\ long[n + 1] = entry.name
        /\ \A k \in 1 .. n : long[k] = trimmed[k]
    BY <2>1, LinkIs
  <2>4. /\ longer \in Seq(STRING) /\ Len(longer) = n + 2 /\ longer[n + 2] = Empty
        /\ \A k \in 1 .. n + 1 : longer[k] = long[k]
    BY <2>1, LinkIs
  <2> QED BY <2>2, <2>3, <2>4
<1>6. \A i \in DOMAIN mounts :
        /\ i \in Int /\ url(i) \in Trimmed /\ url(i) \in Seq(STRING)
        /\ Len(url(i)) \in Nat /\ Len(url(i)) > 0 /\ mounts[i].sys \in Seq(STRING)
        /\ Empty \notin ToSet(Tail(url(i)))
  BY SharesAre DEF Plain
<1>7. \A i \in DOMAIN mounts : stat(mounts[i].sys) \in {"file", "dir"}
  BY DEF Plain
<1>8. \A i, j \in DOMAIN mounts :
         IsStrictPrefix(url(i), url(j)) => stat(mounts[i].sys) = "dir"
  BY DEF Plain
<1>9. entry.name # Empty BY <1>1 DEF RealName
<1> HIDE DEF trimmed, long, longer, link
<1>10. \/ entry.isDir /\ link = longer /\ Len(link) = n + 2
       \/ ~entry.isDir /\ link = long /\ Len(link) = n + 1
  BY <1>4, <1>5
<1>11. link \in Seq(STRING) \ {<<>>} /\ link # <<Empty, Empty>> /\ TrimSlashes(link) = long
  <2>1. Len(link) > 0 /\ link \in Seq(STRING) /\ TrimSlashes(link) = long BY <1>3, <1>4, <1>5
  <2>2. link # <<>> BY <2>1, EmptySeq
  <2>3. link # <<Empty, Empty>>
    <3>1. Len(<<Empty, Empty>>) = 2 /\ <<Empty, Empty>>[2] = Empty
      BY OneOrTwo, EmptyAssumption
    <3>2. n + 2 # 2 /\ (n + 1 = 2 => n = 1)
      <4>1. n \in Nat /\ n > 0 BY <1>3
      <4> HIDE DEF n
      <4> QED BY <4>1
    <3>3. Len(link) = 2 => link[2] = entry.name
      <4> SUFFICES ASSUME Len(link) = 2 PROVE link[2] = entry.name
        OBVIOUS
      <4>1. link = long /\ n + 1 = 2 BY <1>10, <3>2
      <4> QED BY <1>5, <4>1
    <3> QED BY <1>9, <3>1, <3>3
  <2> QED BY <2>1, <2>2, <2>3
<1>12. /\ \A k \in 1 .. n : url(f)[k] = long[k]
       /\ url(f)[n + 1] = long[n + 1] /\ n < Len(url(f))
  <2>1. n < Len(url(f)) /\ \A k \in 1 .. n : trimmed[k] = url(f)[k]
    BY <1>2, <1>3, <1>6, StrictIs
  <2> QED BY <1>2, <1>5, <2>1
<1>13. CASE sysPath = NoPath /\ \A i \in DOMAIN mounts : ~IsPrefix(url(i), link)
  <2>1. ~IsPrefix(url(f), long)
    <3> SUFFICES ASSUME IsPrefix(url(f), long) PROVE FALSE
      OBVIOUS
    <3>1. Len(url(f)) <= n + 1 /\ \A k \in 1 .. Len(url(f)) : url(f)[k] = long[k]
      BY <1>5, <1>6, PrefixIs
    <3>2. \A k \in 1 .. Len(url(f)) : k \in 1 .. n + 1 BY <1>3, <1>6, <3>1
    <3>3. \A k \in 1 .. Len(url(f)) : url(f)[k] = link[k] BY <1>4, <1>5, <3>1, <3>2
    <3>4. Len(url(f)) <= Len(link) BY <1>3, <1>4, <1>5, <1>6, <3>1
    <3>5. IsPrefix(url(f), link) BY <1>6, <1>11, <3>3, <3>4, PrefixIs
    <3> QED BY <1>13, <3>5
  <2>2. IsStrictPrefix(long, url(f))
    <3>1. \A k \in 1 .. n + 1 : url(f)[k] = long[k]
      <4>1. \A k \in 1 .. n + 1 : k \in 1 .. n \/ k = n + 1 BY <1>3
      <4> QED BY <1>12, <4>1
    <3>2. n + 1 < Len(url(f))
      <4>1. n \in Nat /\ n < Len(url(f)) /\ url(f) \in Seq(STRING) BY <1>3, <1>6, <1>12
      <4>2. Len(url(f)) \in Nat BY <4>1, LenProperties
      <4>3. ASSUME Len(url(f)) = n + 1 PROVE FALSE
        <5>1. IsPrefix(url(f), long) BY <1>5, <4>1, <4>3, <3>1, PrefixIs
        <5> QED BY <2>1, <5>1
      <4> HIDE DEF n, url
      <4> QED BY <4>1, <4>2, <4>3
    <3> QED BY <1>5, <1>6, <3>1, <3>2, StrictIs
  <2>3. Beyond(url(f), link) # <<>> BY <1>6, <1>11, <2>2, BeyondIs
  <2>4. config_getSubSharesForPath(mounts, link) # {}
    <3> DEFINE name == Head(Beyond(url(f), link))
               below == {i \in DOMAIN mounts : Beyond(mounts[i].url, link) # <<>>}
               heads == {Head(Beyond(mounts[i].url, link)) : i \in below}
               isDir(m) == \/ Len(Beyond(mounts[FirstDecidesEntry(mounts, link, m)].url, link)) > 1
                           \/ stat(mounts[FirstDecidesEntry(mounts, link, m)].sys) # "file"
    <3>1. f \in below BY <2>3
    <3>2. name \in heads
      <4> HIDE DEF below
      <4> QED BY <3>1
    <3>3. config_getSubSharesForPath(mounts, link) =
            {[name |-> m, isDir |-> isDir(m)] : m \in heads}
      BY DEF config_getSubSharesForPath
    <3> HIDE DEF isDir, name, heads
    <3> QED BY <3>2, <3>3
  <2> QED BY <1>13, <2>4 DEF link
<1>14. ASSUME NEW i \in DOMAIN mounts, Best(mounts, link, i), sysPath \in Seq(STRING) \ {<<>>},
              Names(sysPath) = Names(mounts[i].sys \o SubSeq(link, Len(url(i)) + 1, Len(link))),
              sysPath = mounts[i].sys \o SubSeq(link, Len(url(i)) + 1, Len(link))
       PROVE  stat(sysPath) \in {"dir", "file"}
  <2>1. Len(url(i)) <= Len(link) /\ \A k \in 1 .. Len(url(i)) : url(i)[k] = link[k]
    <3>1. IsPrefix(url(i), link) BY <1>14 DEF Best
    <3> QED BY <1>6, <1>11, <3>1, PrefixIs
  <2>2. Len(url(i)) > n
    <3> SUFFICES ASSUME Len(url(i)) <= n PROVE FALSE
      BY <1>3, <1>6
    <3>1. \A k \in 1 .. Len(url(i)) : k \in 1 .. n /\ k \in 1 .. n + 1 BY <1>3, <1>6
    <3>2. \A k \in 1 .. n : k \in 1 .. n + 1 BY <1>3
    <3>3. \A k \in 1 .. n : link[k] = href[k] BY <1>3, <1>4, <1>5, <3>2
    <3>4. Len(url(i)) <= Len(href) /\ \A k \in 1 .. Len(url(i)) : url(i)[k] = href[k]
      <4>1. Len(href) \in Nat BY LenProperties
      <4> QED BY <1>3, <1>6, <2>1, <3>1, <3>3, <4>1
    <3>5. IsPrefix(url(i), href) BY <1>6, <3>4, PrefixIs
    <3> QED BY <3>5
  <2>3. Len(url(i)) = n + 1
    <3> SUFFICES ASSUME Len(url(i)) # n + 1 PROVE FALSE
      OBVIOUS
    <3>1. Len(url(i)) = n + 2 /\ link = longer
      <4> DEFINE len == Len(url(i))
      <4>1. len \in Nat /\ n \in Nat /\ len > n /\ len # n + 1 /\ len <= Len(link) BY <1>3, <1>6, <2>1, <2>2
      <4> HIDE DEF len
      <4>2. Len(link) # n + 1 BY <4>1
      <4>3. link = longer /\ Len(link) = n + 2 BY <1>10, <4>2
      <4>4. len = n + 2 BY <4>1, <4>3
      <4> QED BY <4>3, <4>4 DEF len
    <3>2. n + 2 \in 1 .. n + 2 BY <1>3
    <3>3. url(i)[n + 2] = Empty BY <1>5, <2>1, <3>1, <3>2
    <3>4. Len(url(i)) = 1 \/ url(i)[Len(url(i))] # Empty BY <1>6 DEF Trimmed
    <3> QED BY <1>3, <3>1, <3>3, <3>4
  <2>4. \A k \in 1 .. n + 1 : url(i)[k] = long[k] BY <1>4, <1>5, <2>1, <2>3
  <2>5. makes(i)
    <3>1. n + 1 \in 1 .. n + 1 /\ \A k \in 1 .. n : k \in 1 .. n + 1 BY <1>3
    <3>2. url(i)[n + 1] = entry.name BY <1>5, <2>4, <3>1
    <3>3. \A k \in 1 .. n : trimmed[k] = url(i)[k] BY <1>5, <2>4, <3>1
    <3>4. n < Len(url(i)) BY <1>3, <2>3
    <3>5. IsStrictPrefix(trimmed, url(i)) BY <1>3, <1>6, <3>3, <3>4, StrictIs
    <3> QED BY <3>2, <3>5
  <2>6. f <= i BY <1>2, <2>5
  <2>7. SubSeq(link, n + 2, Len(link)) = IF entry.isDir THEN <<Empty>> ELSE <<>>
    <3>1. CASE entry.isDir
      <4>1. link = longer /\ Len(link) = n + 2 BY <1>4, <1>5, <3>1
      <4>2. SubSeq(longer, n + 2, n + 2) = <<longer[n + 2]>> \o SubSeq(longer, n + 3, n + 2)
        <5>1. n + 2 \in 1 .. Len(longer) /\ n + 2 \in n + 2 .. Len(longer) /\ (n + 2) + 1 = n + 3
          BY <1>3, <1>5
        <5> QED BY <1>5, <5>1, SubSeqRecursiveFirst
      <4>3. SubSeq(longer, n + 3, n + 2) = <<>>
        <5>1. n + 3 \in Int /\ n + 2 \in Int /\ n + 2 < n + 3 BY <1>3
        <5> QED BY <5>1, SubSeqEmpty
      <4>4. <<Empty>> \o <<>> = <<Empty>>
        <5>1. <<Empty>> \in Seq(STRING) BY OneOrTwo, EmptyAssumption
        <5> QED BY <5>1, ConcatEmptySeq
      <4> QED BY <1>5, <3>1, <4>1, <4>2, <4>3, <4>4
    <3>2. CASE ~entry.isDir
      <4>1. Len(link) = n + 1 BY <1>4, <1>5, <3>2
      <4>2. n + 2 \in Int /\ n + 1 \in Int /\ n + 1 < n + 2 BY <1>3
      <4>3. SubSeq(link, n + 2, n + 1) = <<>> BY <4>2, SubSeqEmpty
      <4> QED BY <3>2, <4>1, <4>3
    <3> QED BY <3>1, <3>2
  <2>8. sysPath = mounts[i].sys \o (IF entry.isDir THEN <<Empty>> ELSE <<>>)
    <3>1. Len(url(i)) + 1 = n + 2 BY <1>3, <2>3
    <3> QED BY <1>14, <2>7, <3>1
  <2>9. CASE stat(mounts[i].sys) = "dir"
    <3>1. Names(sysPath) = Names(mounts[i].sys)
      <4>1. mounts[i].sys \o <<>> = mounts[i].sys BY <1>6, ConcatEmptySeq
      <4>2. Names(mounts[i].sys \o <<Empty>>) = Names(mounts[i].sys) BY <1>6, NamesOfSlash
      <4> QED BY <2>8, <4>1, <4>2
    <3>2. stat(sysPath) = "dir"
      BY <2>9, <3>1 DEF stat, IsFile
    <3> QED BY <3>2
  <2>10. CASE stat(mounts[i].sys) = "file"
    <3>1. Len(url(f)) = n + 1
      <4> SUFFICES ASSUME Len(url(f)) # n + 1 PROVE FALSE
        OBVIOUS
      <4>1. n + 1 < Len(url(f)) BY <1>3, <1>6, <1>12
      <4>2. \A k \in 1 .. n + 1 : url(i)[k] = url(f)[k]
        <5>1. \A k \in 1 .. n + 1 : k \in 1 .. n \/ k = n + 1 BY <1>3
        <5> QED BY <1>12, <2>4, <5>1
      <4>3. IsStrictPrefix(url(i), url(f)) BY <1>6, <2>3, <4>1, <4>2, StrictIs
      <4> QED BY <1>8, <2>10, <4>3
    <3>2. IsPrefix(url(f), link)
      <4>1. \A k \in 1 .. n + 1 : k \in 1 .. n \/ k = n + 1 BY <1>3
      <4>2. \A k \in 1 .. n + 1 : url(f)[k] = link[k] BY <1>4, <1>5, <1>12, <4>1
      <4>3. Len(url(f)) <= Len(link) BY <2>1, <2>3, <3>1
      <4> QED BY <1>6, <1>11, <3>1, <4>2, <4>3, PrefixIs
    <3>3. i <= f
      <4>1. Len(url(f)) < Len(url(i)) \/ (Len(url(f)) = Len(url(i)) /\ i <= f)
        BY <1>14, <3>2 DEF Best
      <4> QED BY <1>3, <2>3, <3>1, <4>1
    <3>4. i = f BY <1>6, <2>6, <3>3
    <3>5. ~entry.isDir BY <1>2, <1>3, <2>10, <3>1, <3>4
    <3>6. sysPath = mounts[i].sys BY <1>6, <2>8, <3>5, ConcatEmptySeq
    <3> QED BY <2>10, <3>6
  <2> QED BY <1>7, <2>9, <2>10
<1>15. sysPath \in Seq(STRING) => sysPath # NoPath BY TreeAssumption
<1>16. \/ sysPath = NoPath /\ \A i \in DOMAIN mounts : ~IsPrefix(url(i), link)
       \/ \E i \in DOMAIN mounts :
            /\ Best(mounts, link, i)
            /\ sysPath \in Seq(STRING) \ {<<>>}
            /\ Names(sysPath) = Names(mounts[i].sys \o SubSeq(link, Len(url(i)) + 1, Len(link)))
            /\ sysPath = mounts[i].sys \o SubSeq(link, Len(url(i)) + 1, Len(link))
  BY <1>11, SysPathIs
<1> HIDE DEF sysPath
<1> QED BY <1>13, <1>14, <1>15, <1>16 DEF sysPath, link

----------------------------------------------------------------------------
(* What a request may do.                                                   *)

\* The code accepts the first line: the first credentials of the user match.
Accepted == auths # <<>> /\ auth_isClientAuthorized(Head(auths))

\* Then a line of the configuration matches.
LEMMA AcceptedIs == Accepted => LoggedIn
  BY DEF Accepted, LoggedIn, auth_isClientAuthorized, config_getDigestAuthCredential, ToSet

\* The state of the login is what the first line says.
Login ==
  /\ section = "config" => auths = <<>>
  /\ loginState = "LOGGED_IN" => Accepted
  /\ loginState = "LOGIN_FAIL" => auths # <<>> /\ ~Accepted

\* What the sections leave behind: no page of a folder before the request is
\* finished, and no parser that writes files without the right to.
Decided ==
  /\ section \in {"config", "head"} => /\ handler = "none" /\ page = Page("none")
                                       /\ destDir = "none" /\ served = NoPath
  /\ section \in {"body", "finished"} => handler # "none"
  /\ handler = "response" =>
       /\ page = Page(page.kind) /\ destDir = "none"
       /\ page.kind \in {"unauthorized", "not_allowed", "forbidden", "missing", "moved", "file"}
  /\ handler = "cgiexe" => page = Page("program") /\ destDir = "none"
  /\ handler = "filemgr" => page.kind \notin {"file", "program"}
  /\ page.kind \in {"listing", "not_found"} => section = "finished"
  /\ section # "finished" => folder = "unchanged" /\ page.shows = {}
  /\ section = "body" /\ handler = "filemgr" => page.kind = "none"
  /\ destDir = "folder" => availOps = "all" /\ (Accepted \/ guestOps = "all")

\* RightsAsConfigured, of the clients that the code accepts.
Rights ==
  /\ page.kind = "listing" => /\ availOps \in {"listing", "all"}
                              /\ Accepted \/ guestOps \in {"listing", "all"}
  /\ folder = "changed" \/ "controls" \in page.shows =>
       availOps = "all" /\ (Accepted \/ guestOps = "all")
  /\ page.kind \in {"file", "program"} => Accepted \/ guestOps # "none"

Inv == /\ TypeOK /\ Login /\ Decided
       /\ Rights /\ UploadStillAllowed /\ ButtonIsUseful

\* The first line stays the first.
LEMMA FirstStays ==
  ASSUME NEW s \in Seq(Given), NEW x \in Given
  PROVE  /\ Append(s, x) \in Seq(Given) /\ Append(s, x) # <<>>
         /\ Len(Append(s, x)) = Len(s) + 1
         /\ s # <<>> => Head(Append(s, x)) = Head(s)
         /\ s = <<>> => Head(Append(s, x)) = x
  OBVIOUS

\* Before the configuration is read.
LEMMA InitInv == Init => Inv
  BY CasesAssumption DEF Init, Inv, TypeOK, Login, Decided, Rights,
     UploadStillAllowed, ButtonIsUseful, Page, Accepted

\* ParseLine keeps the invariant: a value outside the list of an option becomes "none".
LEMMA ParseInv == ASSUME Inv, ParseLine PROVE Inv'
<1>1. /\ section = "config" /\ section' = "config"
      /\ UNCHANGED <<request, auths, loginState, handler, served, destDir, page, folder>>
      /\ auths = <<>> /\ ~Accepted'
  BY DEF ParseLine, Inv, Login, Accepted
<1>2. /\ availOps' \in {"none", "listing", "all"}
      /\ guestOps' \in {"none", "file", "listing", "all"}
  BY DEF ParseLine, Inv, TypeOK, OneOf
<1>3. TypeOK' BY <1>1, <1>2 DEF Inv, TypeOK, request
<1>4. Login' BY <1>1 DEF Inv, TypeOK, Login
<1>5. Decided' BY <1>1 DEF Inv, Decided, Page
<1>6. page'.kind = "none" /\ page'.shows = {} /\ folder' = "unchanged"
  BY <1>1 DEF Inv, Decided, Page
<1>7. Rights' /\ UploadStillAllowed' /\ ButtonIsUseful'
  BY <1>6 DEF Rights, UploadStillAllowed, ButtonIsUseful
<1> QED BY <1>3, <1>4, <1>5, <1>7 DEF Inv

\* EndConfig keeps it: nothing is decided yet.
LEMMA EndConfigInv == ASSUME Inv, EndConfig PROVE Inv'
<1>1. /\ section = "config" /\ section' = "head"
      /\ UNCHANGED <<availOps, guestOps, request, auths, loginState, handler, served, destDir,
                     page, folder>>
      /\ auths = <<>> /\ ~Accepted'
  BY DEF EndConfig, Inv, Login, Accepted
<1>2. TypeOK' BY <1>1 DEF Inv, TypeOK, request
<1>3. Login' BY <1>1 DEF Inv, TypeOK, Login
<1>4. Decided' BY <1>1 DEF Inv, Decided, Page
<1>5. page'.kind = "none" /\ page'.shows = {} /\ folder' = "unchanged"
  BY <1>1 DEF Inv, Decided, Page
<1>6. Rights' /\ UploadStillAllowed' /\ ButtonIsUseful'
  BY <1>5 DEF Rights, UploadStillAllowed, ButtonIsUseful
<1> QED BY <1>2, <1>3, <1>4, <1>6 DEF Inv

\* AuthorizationLine keeps it: only the first line decides, and it cannot take a right away
\* that a parser was opened with.
LEMMA LineInv == ASSUME Inv, AuthorizationLine PROVE Inv'
<1>1. PICK given \in Given : /\ auths' = Append(auths, given)
                             /\ loginState' = checkAuthorization(given)
  BY DEF AuthorizationLine
<1>2. /\ section \in {"head", "body"} /\ Len(auths) < lines
      /\ UNCHANGED <<options, request, section, handler, served, destDir, page, folder>>
  BY DEF AuthorizationLine
<1>3. auths \in Seq(Given) BY DEF Inv, TypeOK
<1>5. /\ auths' \in Seq(Given) /\ auths' # <<>> /\ Len(auths') = Len(auths) + 1
      /\ auths = <<>> => (Accepted' <=> auth_isClientAuthorized(given))
      /\ auths # <<>> => (Accepted' <=> Accepted)
  <2>1. /\ auths = <<>> => Head(auths') = given
        /\ auths # <<>> => Head(auths') = Head(auths)
        /\ auths' \in Seq(Given) /\ auths' # <<>> /\ Len(auths') = Len(auths) + 1
    BY <1>1, <1>3, FirstStays
  <2>2. Accepted' <=> auth_isClientAuthorized(Head(auths'))
    BY <1>2, <2>1 DEF Accepted, options, auth_isClientAuthorized, config_getDigestAuthCredential
  <2> QED BY <2>1, <2>2 DEF Accepted
<1>6. Accepted => Accepted' BY <1>5 DEF Accepted
<1>7. TypeOK'
  BY <1>1, <1>2, <1>3, <1>5, CasesAssumption
  DEF Inv, TypeOK, checkAuthorization, request, options
<1>8. Login'
  BY <1>1, <1>2, <1>5 DEF Inv, Login, TypeOK, checkAuthorization
<1>9. Decided' BY <1>2, <1>6 DEF Inv, Decided, Page, options
<1>10. Rights' BY <1>2, <1>6 DEF Inv, Rights, options
<1>11. UploadStillAllowed' BY <1>2 DEF Inv, UploadStillAllowed, request
<1>12. ButtonIsUseful' BY <1>2 DEF Inv, Decided, ButtonIsUseful
<1> QED BY <1>7, <1>8, <1>9, <1>10, <1>11, <1>12 DEF Inv

\* EndHead keeps it, whichever answer it begins.
LEMMA HeadInv == ASSUME Inv, EndHead PROVE Inv'
<1>1. /\ section = "head" /\ section' = "body"
      /\ UNCHANGED <<options, request, auths, loginState, folder>>
      /\ (Accepted' <=> Accepted)
  BY DEF EndHead, Accepted, options, auth_isClientAuthorized, config_getDigestAuthCredential
<1>2. \A names : Opens(names) => availOps = "all" /\ (Accepted \/ guestOps = "all")
  BY DEF Inv, Login, Opens, isActionAllowed, isActionAvailable
<1>3. \/ \E kind \in {"unauthorized", "not_allowed", "forbidden", "missing", "moved"} : Answer(kind)
      \/ MayServe /\ \E names : AnswerFile(names)
      \/ MayServe /\ \E found : RunProgram(found)
      \/ \E names : ManageFolder(names)
  BY DEF EndHead, Process, OpenFolder, AnswerFile
<1>4. /\ page.kind = "none" /\ page.shows = {} /\ folder' = "unchanged" /\ destDir = "none"
      /\ page = Page("none")
  BY <1>1 DEF Inv, Decided, Page
<1>5. CASE \E kind \in {"unauthorized", "not_allowed", "forbidden", "missing", "moved"} :
             Answer(kind)
  <2>1. PICK kind \in {"unauthorized", "not_allowed", "forbidden", "missing", "moved"} :
          /\ handler' = "response" /\ page' = Page(kind) /\ destDir' = "none"
    BY <1>4, <1>5 DEF Answer
  <2>2. page'.kind = kind /\ page'.shows = {} BY <2>1 DEF Page
  <2>3. TypeOK' BY <1>1, <1>4, <2>1, <2>2 DEF Inv, TypeOK, Page, options, request
  <2>4. Login' BY <1>1 DEF Inv, Login
  <2>5. Decided' BY <1>1, <1>4, <2>1, <2>2 DEF Decided, Page
  <2>6. Rights' /\ UploadStillAllowed' /\ ButtonIsUseful'
    BY <1>1, <1>4, <2>1, <2>2 DEF Rights, UploadStillAllowed, ButtonIsUseful
  <2> QED BY <2>3, <2>4, <2>5, <2>6 DEF Inv
<1>6. CASE MayServe /\ ((\E names : AnswerFile(names)) \/ (\E found : RunProgram(found)))
  <2>1. Accepted \/ guestOps # "none"
    BY <1>6 DEF Inv, Login, MayServe, isActionAllowed
  <2>2. CASE handler' = "response" /\ page' \in {Page("file"), Page("forbidden")} /\ destDir' = "none"
    <3>1. page'.kind \in {"file", "forbidden"} /\ page'.shows = {} BY <2>2 DEF Page
    <3>2. TypeOK' BY <1>1, <1>4, <2>2, <3>1 DEF Inv, TypeOK, Page, options, request
    <3>3. Login' BY <1>1 DEF Inv, Login
    <3>4. Decided' BY <1>1, <1>4, <2>2, <3>1 DEF Decided, Page
    <3>5. Rights' /\ UploadStillAllowed' /\ ButtonIsUseful'
      BY <1>1, <1>4, <2>1, <2>2, <3>1 DEF Rights, UploadStillAllowed,
         ButtonIsUseful, options
    <3> QED BY <3>2, <3>3, <3>4, <3>5 DEF Inv
  <2>3. CASE handler' = "cgiexe" /\ page' = Page("program") /\ destDir' = "none"
    <3>1. page'.kind = "program" /\ page'.shows = {} BY <2>3 DEF Page
    <3>2. TypeOK' BY <1>1, <1>4, <2>3, <3>1 DEF Inv, TypeOK, Page, options, request
    <3>3. Login' BY <1>1 DEF Inv, Login
    <3>4. Decided' BY <1>1, <1>4, <2>3, <3>1 DEF Decided, Page
    <3>5. Rights' /\ UploadStillAllowed' /\ ButtonIsUseful'
      BY <1>1, <1>4, <2>1, <2>3, <3>1 DEF Rights, UploadStillAllowed,
         ButtonIsUseful, options
    <3> QED BY <3>2, <3>3, <3>4, <3>5 DEF Inv
  <2> QED BY <1>4, <1>6, <2>2, <2>3 DEF AnswerFile, Answer, RunProgram
<1>7. CASE \E names : ManageFolder(names)
  <2>1. PICK names : ManageFolder(names) BY <1>7
  <2>2. /\ handler' = "filemgr" /\ page' = page
        /\ destDir' \in {"folder", "none"}
        /\ destDir' = "folder" => availOps = "all" /\ (Accepted \/ guestOps = "all")
    BY <1>2, <2>1 DEF ManageFolder
  <2>3. TypeOK' BY <1>1, <1>4, <2>2 DEF Inv, TypeOK, Page, options, request
  <2>4. Login' BY <1>1 DEF Inv, Login
  <2>5. Decided' BY <1>1, <1>4, <2>2 DEF Inv, Decided, Page, options
  <2>6. Rights' /\ UploadStillAllowed' /\ ButtonIsUseful'
    BY <1>1, <1>4, <2>2 DEF Rights, UploadStillAllowed, ButtonIsUseful
  <2> QED BY <2>3, <2>4, <2>5, <2>6 DEF Inv
<1> QED BY <1>3, <1>5, <1>6, <1>7

\* Complete keeps it, whichever page it makes.
LEMMA CompleteInv == ASSUME Inv, Complete PROVE Inv'
<1>1. /\ section = "body" /\ section' = "finished"
      /\ UNCHANGED <<options, request, auths, loginState, handler, served, destDir>>
      /\ (Accepted' <=> Accepted)
  BY DEF Complete, Accepted, options, auth_isClientAuthorized, config_getDigestAuthCredential
<1>2. Login' BY <1>1 DEF Inv, Login
<1>3. CASE handler \in {"response", "cgiexe"} /\ page' = page /\ folder' = folder
  BY <1>1, <1>2, <1>3 DEF Inv, TypeOK, Decided, Rights, UploadStillAllowed,
     ButtonIsUseful, MoreWithLogin, request, options
<1>4. CASE handler = "filemgr" /\ method = "POST" /\ RequiresAuth
  <2>1. page' = Page("unauthorized") /\ folder' = folder
    BY <1>4 DEF Complete
  <2>2. page'.kind = "unauthorized" /\ page'.shows = {} /\ folder' = "unchanged"
    BY <1>1, <2>1 DEF Page, Inv, Decided
  <2>3. destDir = "folder" => form = "do_login"
    BY <1>4 DEF Inv, Login, Accepted, TypeOK, Decided, RequiresAuth, isActionAllowed,
       isActionAvailable
  <2>4. TypeOK' BY <1>1, <1>4, <2>1, <2>2 DEF Inv, TypeOK, Page, request, options
  <2>5. Decided' BY <1>1, <1>4, <2>1, <2>2 DEF Inv, Decided, Page, options
  <2>6. Rights' /\ UploadStillAllowed' /\ ButtonIsUseful'
    BY <1>1, <2>2, <2>3 DEF Rights, UploadStillAllowed, ButtonIsUseful, request
  <2> QED BY <1>2, <2>4, <2>5, <2>6 DEF Inv
<1>5. CASE /\ handler = "filemgr" /\ method = "POST" /\ ~RequiresAuth /\ Crashes
  <2>1. page' = Page("crash") /\ folder' = folder
    BY <1>5 DEF Complete
  <2>2. page'.kind = "crash" /\ page'.shows = {} /\ folder' = "unchanged"
    BY <1>1, <2>1 DEF Page, Inv, Decided
  <2>3. TypeOK' BY <1>1, <1>5, <2>1, <2>2 DEF Inv, TypeOK, Page, request, options
  <2>4. Decided' BY <1>1, <1>5, <2>1, <2>2 DEF Inv, Decided, Page, options
  <2>5. Rights' /\ UploadStillAllowed' /\ ButtonIsUseful'
    BY <1>1, <2>2 DEF Rights, UploadStillAllowed, ButtonIsUseful
  <2> QED BY <1>2, <2>3, <2>4, <2>5 DEF Inv
<1>6. CASE handler = "filemgr" /\ ~(method = "POST" /\ (RequiresAuth \/ Crashes))
  <2>1. page' = FolderPage /\ folder' = IF method = "POST" /\ Modifies THEN "changed" ELSE folder
    BY <1>6 DEF Complete
  <2>2. /\ page' \in [kind : {"not_found", "missing", "listing"}, shows : SUBSET {"login", "controls"}]
        /\ page'.kind = "listing" => isActionAllowed("LIST_FOLDER")
        /\ "controls" \in page'.shows => isActionAllowed("MODIFY")
        /\ page'.kind \in {"listing", "not_found"} /\ method # "HEAD" =>
             ("login" \in page'.shows <=> isWorthPuttingLogOnButton)
    BY <2>1 DEF FolderPage, LoginButton, Shown, Controls, Page
  <2>3. folder' \in {"unchanged", "changed"} /\ (folder' = "changed" => isActionAllowed("MODIFY"))
    BY <1>1, <2>1 DEF Inv, Decided, Modifies
  <2>4. TypeOK' BY <1>1, <1>6, <2>2, <2>3 DEF Inv, TypeOK, request, options
  <2>5. Decided' BY <1>1, <1>6, <2>2 DEF Inv, Decided, options
  <2>6. Rights'
    BY <1>1, <2>2, <2>3 DEF Inv, TypeOK, Login, Rights, isActionAllowed,
       isActionAvailable, options
  <2>7. UploadStillAllowed' BY <2>2 DEF UploadStillAllowed
  <2>8. ButtonIsUseful'
    BY <1>1, <2>2 DEF Inv, TypeOK, ButtonIsUseful, MoreWithLogin, isWorthPuttingLogOnButton,
       givesLoginMorePrivileges, request, options
  <2> QED BY <1>2, <2>4, <2>5, <2>6, <2>7, <2>8 DEF Inv
<1> QED BY <1>3, <1>4, <1>5, <1>6 DEF Complete

\* UseForm keeps it: the second request begins with nothing decided.
LEMMA FormInv == ASSUME Inv, UseForm PROVE Inv'
<1>1. /\ section' = "head" /\ handler' = "none" /\ served' = NoPath /\ destDir' = "none"
      /\ page' = Page("none") /\ folder' = "unchanged" /\ shown' = page.shows
      /\ UNCHANGED <<options, path, mode, lines, auths, loginState, scriptName>>
      /\ (Accepted' <=> Accepted)
  BY DEF UseForm, Accepted, options, auth_isClientAuthorized, config_getDigestAuthCredential
<1>2. page'.kind = "none" /\ page'.shows = {} BY <1>1 DEF Page
<1>3. TypeOK' BY <1>1, <1>2 DEF Inv, TypeOK, Page, options
<1>4. Login' BY <1>1 DEF Inv, Login
<1>5. Decided' BY <1>1, <1>2 DEF Decided, Page
<1>6. Rights' /\ UploadStillAllowed' /\ ButtonIsUseful'
  BY <1>1, <1>2 DEF Rights, UploadStillAllowed, ButtonIsUseful
<1> QED BY <1>3, <1>4, <1>5, <1>6 DEF Inv

\* So does a step of something else.
LEMMA StutterInv == ASSUME Inv, UNCHANGED vars PROVE Inv'
<1>1. UNCHANGED <<options, request, auths, loginState, section, handler, served, scriptName,
                  destDir, page, folder>>
  BY DEF vars
<1>2. (Accepted' <=> Accepted)
  BY <1>1 DEF Accepted, options, auth_isClientAuthorized, config_getDigestAuthCredential
<1>3. TypeOK' /\ Login' BY <1>1, <1>2 DEF Inv, TypeOK, Login, options, request
<1>4. Decided' /\ UploadStillAllowed'
  BY <1>1, <1>2 DEF Inv, Decided, UploadStillAllowed, options, request
<1>5. Rights' /\ ButtonIsUseful'
  BY <1>1, <1>2 DEF Inv, Rights, ButtonIsUseful, MoreWithLogin, options, request
<1> QED BY <1>3, <1>4, <1>5 DEF Inv

\* The invariant holds in every state that the server reaches.
LEMMA Invariance == Spec => []Inv
<1>1. Inv /\ [Next]_vars => Inv'
  BY ParseInv, EndConfigInv, LineInv, HeadInv, CompleteInv, FormInv, StutterInv DEF Next
<1> QED BY <1>1, InitInv, PTL DEF Spec

\* Type correctness; the state of the login says whether credentials came.
THEOREM AccessTypeCorrect == Spec => []TypeOK
<1>1. Inv => TypeOK BY DEF Inv
<1> QED BY <1>1, Invariance, PTL

\* What is listed, changed, served and run is what dirops, guestops and the lines of
\* credentials give, for every configuration.
THEOREM ConfigurationRules == Spec => []RightsAsConfigured
<1>1. Inv => RightsAsConfigured BY AcceptedIs DEF Inv, Rights, RightsAsConfigured
<1> QED BY <1>1, Invariance, PTL

\* The right an upload was begun with holds when its form is processed.
THEOREM UploadRightHolds == Spec => []UploadStillAllowed
<1>1. Inv => UploadStillAllowed BY DEF Inv
<1> QED BY <1>1, Invariance, PTL

\* The login button is shown to those it gives something.
THEOREM ButtonCorrect == Spec => []ButtonIsUseful
<1>1. Inv => ButtonIsUseful BY DEF Inv
<1> QED BY <1>1, Invariance, PTL

----------------------------------------------------------------------------
(* The values that the lines say, one line after the other.                 *)

\* What a line of each name says.
LEMMA LineIs ==
  ASSUME NEW line \in Line
  PROVE  /\ line.name = "/" => line.value \in [url : Path, sys : Path]
         /\ line.name = "index" => line.value \in Seq(SUBSET STRING)
         /\ line.name = "cgi" => line.value \in Seq(Seq(SUBSET STRING))
  BY DEF Line

\* The values that lines of a name may have.
Said(name) == {line.value : line \in {l \in Line : l.name = name}}

ValuesStep(values, line, name) == IF line.name = name THEN Append(values, line.value) ELSE values

\* The values are what is held after the last line.
LEMMA ValuesRun ==
  ASSUME NEW some \in Seq(Line), NEW name
  PROVE  \E g \in [0 .. Len(some) -> Seq(Said(name))] :
           /\ g[0] = <<>> /\ g[Len(some)] = ValuesOf(some, name)
           /\ \A k \in 1 .. Len(some) : g[k] = ValuesStep(g[k - 1], some[k], name)
<1> DEFINE n == Len(some)
           T == Seq(Said(name))
           base == <<>>
           step == [p \in (1 .. n) \X T |-> ValuesStep(p[2], some[p[1]], name)]
           Fold(h) == [s \in SUBSET DOMAIN some |->
                         IF s = {} THEN base ELSE ValuesStep(h[s \ {Max(s)}], some[Max(s)], name)]
           h == CHOOSE h : h = Fold(h)
<1>1. ValuesOf(some, name) = h[DOMAIN some]
  BY DEF ValuesOf, FoldLeft, MapThenFoldSet, ValuesStep
<1>2. n \in Nat /\ DOMAIN some = 1 .. n /\ base \in T /\ step \in [(1 .. n) \X T -> T]
  <2>1. n \in Nat /\ DOMAIN some = 1 .. n /\ base \in T BY LenProperties, EmptySeq
  <2>2. \A i \in 1 .. n, x \in T : ValuesStep(x, some[i], name) \in T
    <3> SUFFICES ASSUME NEW i \in 1 .. n, NEW x \in T, some[i].name = name
                 PROVE  Append(x, some[i].value) \in T
      BY DEF ValuesStep
    <3>1. some[i] \in Line BY ElementOfSeq
    <3>2. some[i].value \in Said(name) BY <3>1 DEF Said
    <3> QED BY <3>2, AppendProperties
  <2> QED
    <3> HIDE DEF T, n
    <3> QED BY <2>1, <2>2
<1>3. \A i \in 1 .. n, x \in T : step[<<i, x>>] = ValuesStep(x, some[i], name)
  <2> HIDE DEF T, n
  <2> QED OBVIOUS
<1> HIDE DEF n, T, base, step
<1>4. PICK h0 \in [SUBSET (1 .. n) -> T] : IsFold(h0, n, base, step)
  BY <1>2, FoldExists
<1>5. h0 = Fold(h0)
  <2>1. ASSUME NEW s \in SUBSET (1 .. n), s # {}
        PROVE  step[<<Max(s), h0[s \ {Max(s)}]>>] = ValuesStep(h0[s \ {Max(s)}], some[Max(s)], name)
    BY <2>1, <1>2, <1>3, MaxIn
  <2>2. \A s \in SUBSET DOMAIN some : h0[s] = Fold(h0)[s] BY <1>2, <1>4, <2>1 DEF IsFold
  <2> QED BY <1>2, <2>2
<1>6. h = Fold(h)
  <2> HIDE DEF Fold
  <2> QED BY <1>5
<1>7. Follows(h, n, T, base, step)
  <2> HIDE DEF h
  <2>1. h[{}] = base BY <1>6
  <2>2. ASSUME NEW k \in 1 .. n, h[1 .. k - 1] \in T PROVE h[1 .. k] = step[<<k, h[1 .. k - 1]>>]
    <3>1. 1 .. k \in SUBSET DOMAIN some /\ k \in Nat /\ k > 0 BY <1>2
    <3>2. Max(1 .. k) = k /\ (1 .. k) \ {k} = 1 .. k - 1 /\ 1 .. k # {} BY <3>1, MaxOfFirst
    <3>3. h[1 .. k] = ValuesStep(h[1 .. k - 1], some[k], name) BY <1>6, <3>1, <3>2
    <3> QED BY <1>3, <2>2, <3>3
  <2> QED BY <2>1, <2>2 DEF Follows
<1>8. PICK g \in [0 .. n -> T] : IsRun(g, n, base, step, h[1 .. n])
  <2> HIDE DEF h
  <2> QED BY <1>2, <1>7, FoldRuns
<1>9. \A k \in 1 .. n : g[k] = ValuesStep(g[k - 1], some[k], name)
  <2>1. ASSUME NEW k \in 1 .. n PROVE g[k - 1] \in T BY <1>2
  <2> QED BY <1>3, <1>8, <2>1 DEF IsRun
<1>10. g[n] = ValuesOf(some, name) BY <1>1, <1>2, <1>8 DEF IsRun
<1> QED BY <1>8, <1>9, <1>10 DEF n, T, base, IsRun

\* A line adds its value to those of its name.
LEMMA ValuesMore ==
  ASSUME NEW some \in Seq(Line), NEW line \in Line, NEW name
  PROVE  /\ ValuesOf(some, name) \in Seq(Said(name))
         /\ ValuesOf(Append(some, line), name) = ValuesStep(ValuesOf(some, name), line, name)
<1> DEFINE n == Len(some)
           more == Append(some, line)
<1>1. /\ n \in Nat /\ more \in Seq(Line) /\ Len(more) = n + 1 /\ more[n + 1] = line
      /\ \A k \in 1 .. n : more[k] = some[k]
  BY LenProperties, AppendProperties
<1> HIDE DEF n, more
<1>2. PICK g1 \in [0 .. n -> Seq(Said(name))] :
           /\ g1[0] = <<>> /\ g1[n] = ValuesOf(some, name)
           /\ \A k \in 1 .. n : g1[k] = ValuesStep(g1[k - 1], some[k], name)
  BY ValuesRun DEF n
<1>3. PICK g2 \in [0 .. n + 1 -> Seq(Said(name))] :
           /\ g2[0] = <<>> /\ g2[n + 1] = ValuesOf(more, name)
           /\ \A k \in 1 .. n + 1 : g2[k] = ValuesStep(g2[k - 1], more[k], name)
  <2>1. \E g \in [0 .. Len(more) -> Seq(Said(name))] :
           /\ g[0] = <<>> /\ g[Len(more)] = ValuesOf(more, name)
           /\ \A k \in 1 .. Len(more) : g[k] = ValuesStep(g[k - 1], more[k], name)
    BY <1>1, ValuesRun
  <2> QED BY <1>1, <2>1
<1>4. Alike(g1, g2, n)
  <2> SUFFICES ASSUME NEW k \in 1 .. n, g1[k - 1] = g2[k - 1] PROVE g1[k] = g2[k]
    BY <1>2, <1>3 DEF Alike
  <2> n \in Nat BY <1>1
  <2>1. k \in 1 .. n + 1 /\ more[k] = some[k]
    <3>1. k \in 1 .. n + 1 OBVIOUS
    <3> QED BY <1>1, <3>1
  <2>2. g1[k] = ValuesStep(g1[k - 1], some[k], name) BY <1>2
  <2>3. g2[k] = ValuesStep(g1[k - 1], some[k], name) BY <1>3, <2>1
  <2> QED BY <2>2, <2>3
<1>5. g1[n] = g2[n] BY <1>1, <1>4, RunsAgree
<1>6. g2[n + 1] = ValuesStep(g2[n], line, name)
  <2>1. n + 1 \in 1 .. n + 1 /\ (n + 1) - 1 = n BY <1>1
  <2>2. g2[n + 1] = ValuesStep(g2[(n + 1) - 1], more[n + 1], name) BY <1>3, <2>1
  <2> QED BY <1>1, <2>1, <2>2
<1>7. g1[n] \in Seq(Said(name)) BY <1>1
<1> QED BY <1>2, <1>3, <1>5, <1>6, <1>7 DEF more

\* No line, no values.
LEMMA ValuesOfNone ==
  ASSUME NEW name
  PROVE  ValuesOf(<<>>, name) = <<>>
<1>1. <<>> \in Seq(Line) /\ Len(<<>>) = 0 BY EmptySeq
<1>2. PICK g \in [0 .. Len(<<>>) -> Seq(Said(name))] :
        g[0] = <<>> /\ g[Len(<<>>)] = ValuesOf(<<>>, name)
  BY <1>1, ValuesRun
<1> QED BY <1>1, <1>2

\* What is held when the sequences of a sequence are put behind each other.
LEMMA FlattenRun ==
  ASSUME NEW X, NEW s \in Seq(Seq(X))
  PROVE  \E g \in [0 .. Len(s) -> Seq(X)] :
           /\ g[0] = <<>> /\ g[Len(s)] = FlattenSeq(s)
           /\ \A k \in 1 .. Len(s) : g[k] = g[k - 1] \o s[k]
<1> DEFINE n == Len(s)
           T == Seq(X)
           step == [p \in (1 .. n) \X T |-> p[2] \o s[p[1]]]
           Flatten(f) == [i \in 1 .. n |-> IF i = 1 THEN s[i] ELSE f[i - 1] \o s[i]]
           flatten == CHOOSE f : f = Flatten(f)
<1>1. n \in Nat /\ <<>> \in T /\ \A k \in 1 .. n : s[k] \in T
  BY LenProperties, EmptySeq, ElementOfSeq
<1>2. \A k \in 1 .. n, x \in T : x \o s[k] \in T BY <1>1, ConcatProperties
<1>3. step \in [(1 .. n) \X T -> T] /\ \A k \in 1 .. n, x \in T : step[<<k, x>>] = x \o s[k]
  <2> HIDE DEF T, n
  <2> QED BY <1>2
<1> HIDE DEF n, step
<1>4. PICK g \in [0 .. n -> T] : IsRun(g, n, <<>>, step, g[n])
  <2> HIDE DEF T
  <2> QED BY <1>1, <1>3, RunExists
<1>5. g[0] = <<>> /\ \A k \in 1 .. n : g[k] = g[k - 1] \o s[k]
  <2>1. ASSUME NEW k \in 1 .. n PROVE g[k - 1] \in T BY <1>1
  <2> QED BY <1>3, <1>4, <2>1 DEF IsRun
<1>6. CASE n = 0
  <2>1. s = <<>> BY <1>6, EmptySeq DEF n
  <2>2. FlattenSeq(s) = s BY <1>6 DEF FlattenSeq, n
  <2> QED BY <1>5, <1>6, <2>1, <2>2 DEF n
<1>7. CASE n > 0
  <2>1. FlattenSeq(s) = flatten[n] BY <1>7 DEF FlattenSeq, n
  <2>2. \A x \in T : <<>> \o x = x BY ConcatEmptySeq
  <2>10. g[1] = s[1]
    <3>1. 1 \in 1 .. n /\ 1 - 1 = 0 BY <1>1, <1>7
    <3>2. g[1] = g[1 - 1] \o s[1] BY <1>5, <3>1
    <3>3. s[1] \in T BY <1>1, <3>1
    <3> QED BY <1>5, <2>2, <3>1, <3>2, <3>3
  <2> DEFINE f == [i \in 1 .. n |-> g[i]]
  <2>3. f = Flatten(f)
    <3> SUFFICES ASSUME NEW i \in 1 .. n
                 PROVE  g[i] = IF i = 1 THEN s[i] ELSE f[i - 1] \o s[i]
      OBVIOUS
    <3>1. CASE i = 1 BY <2>10, <3>1
    <3>2. CASE i # 1
      <4>1. i - 1 \in 1 .. n BY <1>1, <3>2
      <4> QED BY <1>5, <3>2, <4>1
    <3> QED BY <3>1, <3>2
  <2>4. flatten = Flatten(flatten)
    <3> HIDE DEF Flatten, f
    <3> QED BY <2>3
  <2> HIDE DEF flatten
  <2> DEFINE S == {k \in Nat : k > 0 => flatten[k] = g[k]}
  <2>5. 0 \in S OBVIOUS
  <2>6. ASSUME NEW k \in 1 .. n, k - 1 \in S PROVE k \in S
    <3>1. flatten[k] = IF k = 1 THEN s[k] ELSE flatten[k - 1] \o s[k] BY <2>4
    <3>2. CASE k = 1 BY <2>10, <3>1, <3>2
    <3>3. CASE k # 1
      <4>1. k \in Nat /\ k - 1 > 0 BY <1>1, <3>3
      <4> QED BY <1>5, <2>6, <3>1, <3>3, <4>1
    <3> QED BY <3>2, <3>3
  <2>7. n \in S
    <3> HIDE DEF S
    <3>1. \A k \in 0 .. n : k \in S BY <1>1, <2>5, <2>6, UpTo
    <3> QED BY <1>1, <3>1
  <2>8. flatten[n] = g[n] BY <1>7, <2>7
  <2> QED BY <1>5, <2>1, <2>8 DEF n
<1>8. n = 0 \/ n > 0 BY <1>1
<1> QED BY <1>6, <1>7, <1>8

\* One more sequence is put behind the others.
LEMMA FlattenMore ==
  ASSUME NEW X, NEW s \in Seq(Seq(X)), NEW v \in Seq(X)
  PROVE  FlattenSeq(s) \in Seq(X) /\ FlattenSeq(Append(s, v)) = FlattenSeq(s) \o v
<1> DEFINE n == Len(s)
           more == Append(s, v)
<1>1. /\ n \in Nat /\ more \in Seq(Seq(X)) /\ Len(more) = n + 1 /\ more[n + 1] = v
      /\ \A k \in 1 .. n : more[k] = s[k]
  BY LenProperties, AppendProperties
<1> HIDE DEF n, more
<1>2. PICK g1 \in [0 .. n -> Seq(X)] :
           /\ g1[0] = <<>> /\ g1[n] = FlattenSeq(s)
           /\ \A k \in 1 .. n : g1[k] = g1[k - 1] \o s[k]
  BY FlattenRun DEF n
<1>3. PICK g2 \in [0 .. n + 1 -> Seq(X)] :
           /\ g2[0] = <<>> /\ g2[n + 1] = FlattenSeq(more)
           /\ \A k \in 1 .. n + 1 : g2[k] = g2[k - 1] \o more[k]
  <2>1. \E g \in [0 .. Len(more) -> Seq(X)] :
           /\ g[0] = <<>> /\ g[Len(more)] = FlattenSeq(more)
           /\ \A k \in 1 .. Len(more) : g[k] = g[k - 1] \o more[k]
    BY <1>1, FlattenRun
  <2> QED BY <1>1, <2>1
<1>4. Alike(g1, g2, n)
  <2> SUFFICES ASSUME NEW k \in 1 .. n, g1[k - 1] = g2[k - 1] PROVE g1[k] = g2[k]
    BY <1>2, <1>3 DEF Alike
  <2>1. k \in 1 .. n + 1 /\ more[k] = s[k]
    <3>1. n \in Nat /\ more[k] = s[k] BY <1>1
    <3> QED BY <3>1
  <2>2. g1[k] = g1[k - 1] \o s[k] BY <1>2
  <2>3. g2[k] = g1[k - 1] \o s[k] BY <1>3, <2>1
  <2> QED BY <2>2, <2>3
<1>5. g1[n] = g2[n] BY <1>1, <1>4, RunsAgree
<1>6. g2[n + 1] = g2[n] \o v
  <2>1. n + 1 \in 1 .. n + 1 /\ (n + 1) - 1 = n BY <1>1
  <2>2. g2[n + 1] = g2[(n + 1) - 1] \o more[n + 1] BY <1>3, <2>1
  <2> QED BY <1>1, <2>1, <2>2
<1>7. g1[n] \in Seq(X) BY <1>1
<1> QED BY <1>2, <1>3, <1>5, <1>6, <1>7 DEF more

\* Patterns are accumulated one value after the other.
LEMMA AccumulatedMore ==
  ASSUME NEW X, NEW s \in Seq(Seq(X)), NEW v \in Seq(X)
  PROVE  Accumulated(Append(s, v)) = Collected(Accumulated(s), v)
<1> DEFINE n == Len(s)
           more == Append(s, v)
           cleared == {i \in 1 .. n : s[i] = <<>>}
           last == Max({0} \union cleared)
           moreCleared == {i \in 1 .. n + 1 : more[i] = <<>>}
<1>1. /\ n \in Nat /\ more \in Seq(Seq(X)) /\ Len(more) = n + 1 /\ more[n + 1] = v
      /\ \A k \in 1 .. n : more[k] = s[k]
      /\ DOMAIN s = 1 .. n /\ DOMAIN more = 1 .. n + 1
  <2>1. more \in Seq(Seq(X)) /\ Len(more) = n + 1 /\ more[n + 1] = v
        /\ \A k \in 1 .. n : more[k] = s[k]
    BY AppendProperties
  <2> HIDE DEF more
  <2> QED BY <2>1, LenProperties
<1> HIDE DEF n, more
<1>2. /\ Accumulated(s) = FlattenSeq(SubSeq(s, last + 1, n))
      /\ Accumulated(more) = FlattenSeq(SubSeq(more, Max({0} \union moreCleared) + 1, n + 1))
  BY <1>1 DEF Accumulated, n
<1>3. last \in 0 .. n /\ \A y \in cleared : last >= y
  <2>1. cleared \in SUBSET (1 .. n) OBVIOUS
  <2> HIDE DEF cleared
  <2> QED BY <1>1, <2>1, MaxOr0
<1>4. CASE v = <<>>
  <2>1. Max({0} \union moreCleared) = n + 1
    <3>1. n + 1 \in {0} \union moreCleared /\ {0} \union moreCleared \in SUBSET Int
      BY <1>1, <1>4
    <3>2. \A y \in {0} \union moreCleared : n + 1 >= y BY <1>1
    <3> HIDE DEF moreCleared
    <3> QED BY <3>1, <3>2, MaxIs
  <2>2. SubSeq(more, (n + 1) + 1, n + 1) = <<>>
    <3>1. (n + 1) + 1 \in Int /\ n + 1 \in Int /\ n + 1 < (n + 1) + 1 BY <1>1
    <3> QED BY <3>1, SubSeqEmpty
  <2>3. FlattenSeq(<<>>) = <<>>
    <3>1. Len(<<>>) = 0 BY EmptySeq
    <3> QED BY <3>1 DEF FlattenSeq
  <2> QED BY <1>2, <1>4, <2>1, <2>2, <2>3 DEF Collected, more
<1>5. CASE v # <<>>
  <2>1. moreCleared = cleared
    <3>1. \A i \in 1 .. n + 1 : i \in 1 .. n \/ i = n + 1 BY <1>1
    <3>2. \A i \in 1 .. n : i \in 1 .. n + 1 BY <1>1
    <3> QED BY <1>1, <1>5, <3>1, <3>2
  <2> HIDE DEF last, cleared, moreCleared
  <2> DEFINE part == SubSeq(s, last + 1, n)
  <2>2. part \in Seq(Seq(X)) BY <1>1, <1>3, RestOf DEF n
  <2>3. SubSeq(more, last + 1, n + 1) = Append(part, v)
    <3>1. last + 1 \in 1 .. Len(more) /\ n + 1 \in last + 1 .. Len(more) BY <1>1, <1>3
    <3>2. SubSeq(more, last + 1, n + 1) = SubSeq(more, last + 1, (n + 1) - 1) \o <<more[n + 1]>>
      BY <1>1, <3>1, SubSeqRecursiveSecond
    <3>3. (n + 1) - 1 = n BY <1>1
    <3>4. SubSeq(more, last + 1, n) = part
      <4> DEFINE other == SubSeq(more, last + 1, n)
      <4>1. \A i \in last + 1 .. n : i \in 1 .. n /\ i \in 1 .. n + 1 BY <1>1, <1>3
      <4>2. \A i \in last + 1 .. n : more[i] \in Seq(X) /\ s[i] \in Seq(X) /\ more[i] = s[i]
        BY <1>1, <4>1, ElementOfSeq
      <4>3. last + 1 \in Int /\ n \in Int BY <1>1, <1>3
      <4>4. /\ other \in Seq(Seq(X))
            /\ Len(other) = IF last + 1 <= n THEN n - (last + 1) + 1 ELSE 0
            /\ \A i \in 1 .. n - (last + 1) + 1 : other[i] = more[(last + 1) + i - 1]
        BY <4>2, <4>3, SubSeqProperties
      <4>5. /\ Len(part) = IF last + 1 <= n THEN n - (last + 1) + 1 ELSE 0
            /\ \A i \in 1 .. n - (last + 1) + 1 : part[i] = s[(last + 1) + i - 1]
        BY <4>2, <4>3, SubSeqProperties
      <4> HIDE DEF other, part
      <4>6. \A i \in 1 .. Len(other) : /\ i \in 1 .. n - (last + 1) + 1
                                       /\ (last + 1) + i - 1 \in last + 1 .. n
        BY <1>1, <1>3, <4>4
      <4>7. \A i \in 1 .. Len(other) : other[i] = part[i] BY <4>2, <4>4, <4>5, <4>6
      <4>8. Len(other) = Len(part) BY <4>4, <4>5
      <4> QED BY <2>2, <4>4, <4>7, <4>8, SeqEqual DEF other
    <3>5. part \o <<v>> = Append(part, v)
      <4> HIDE DEF part
      <4> QED BY <2>2, AppendIsConcat
    <3> QED BY <1>1, <3>2, <3>3, <3>4, <3>5
  <2>4. FlattenSeq(Append(part, v)) = FlattenSeq(part) \o v
    <3> HIDE DEF part
    <3> QED BY <2>2, FlattenMore
  <2> QED BY <1>2, <1>5, <2>1, <2>3, <2>4 DEF Collected, more, last
<1> QED BY <1>4, <1>5

\* Nothing is accumulated from no value.
LEMMA AccumulatedNone == Accumulated(<<>>) = <<>>
<1>1. Len(<<>>) = 0 /\ DOMAIN <<>> = {} BY EmptySeq
<1>2. {0} \union {i \in DOMAIN <<>> : <<>>[i] = <<>>} = {0} BY <1>1
<1>3. Max({0}) = 0 BY MaxIs
<1>4. SubSeq(<<>>, 0 + 1, 0) = <<>> BY SubSeqEmpty
<1>5. Accumulated(<<>>) = FlattenSeq(SubSeq(<<>>, 0 + 1, 0)) BY <1>1, <1>2, <1>3 DEF Accumulated
<1>6. FlattenSeq(<<>>) = <<>> BY <1>1 DEF FlattenSeq
<1> QED BY <1>4, <1>5, <1>6

----------------------------------------------------------------------------
(* The options are what the lines say.                                      *)

\* The configuration is typed, and so is what is made of it.
Configured ==
  /\ conf \in Seq(Line) /\ path \in Path /\ read \in 0 .. Len(conf)
  /\ shares \in Seq(Share) /\ index \in Seq(SUBSET STRING)

\* the shares that values say
AsShare(value) == [url |-> TrimSlashes(value.url), sys |-> TrimSlashes(value.sys)]

SharesOf(values) == [i \in DOMAIN values |-> AsShare(values[i])]

\* One more value, one more share.
LEMMA SharesMore ==
  ASSUME NEW values \in Seq([url : Path, sys : Path]), SharesOf(values) \in Seq(Share),
         NEW value \in [url : Path, sys : Path], AsShare(value) \in Share
  PROVE  Append(SharesOf(values), AsShare(value)) = SharesOf(Append(values, value))
<1> DEFINE n == Len(values)
           some == SharesOf(values)
           s == Append(some, AsShare(value))
           v == Append(values, value)
<1>1. /\ n \in Nat /\ DOMAIN some = 1 .. n /\ Len(some) = n
      /\ \A i \in 1 .. n : some[i] = AsShare(values[i])
  <2>1. n \in Nat /\ DOMAIN values = 1 .. n BY LenProperties
  <2>2. DOMAIN some = 1 .. n /\ \A i \in 1 .. n : some[i] = AsShare(values[i])
    BY <2>1 DEF SharesOf
  <2>3. Len(some) \in Nat /\ DOMAIN some = 1 .. Len(some) BY LenProperties
  <2> HIDE DEF n, some
  <2>4. Len(some) = n
    <3>1. 1 .. Len(some) = 1 .. n BY <2>2, <2>3
    <3> QED BY <2>1, <2>3, <3>1, SameLength
  <2> QED BY <2>1, <2>2, <2>4
<1>2. /\ s \in Seq(Share) /\ Len(s) = Len(some) + 1 /\ s[Len(some) + 1] = AsShare(value)
      /\ \A i \in 1 .. Len(some) : s[i] = some[i]
  <2> HIDE DEF some
  <2> QED BY AppendProperties DEF some
<1>3. /\ Len(v) = n + 1 /\ v[n + 1] = value
      /\ \A i \in 1 .. n : v[i] = values[i]
      /\ v \in Seq([url : Path, sys : Path])
  BY AppendProperties
<1> HIDE DEF s, v, n, some
<1>4. s \in [1 .. n + 1 -> Share] /\ DOMAIN v = 1 .. n + 1
  BY <1>1, <1>2, <1>3, LenProperties
<1>5. \A i \in 1 .. n + 1 : s[i] = AsShare(v[i])
  <2> SUFFICES ASSUME NEW i \in 1 .. n + 1 PROVE s[i] = AsShare(v[i])
    OBVIOUS
  <2>1. CASE i = n + 1 BY <1>1, <1>2, <1>3, <2>1
  <2>2. CASE i \in 1 .. n
    <3>1. s[i] = some[i] /\ v[i] = values[i] BY <1>1, <1>2, <1>3, <2>2
    <3> QED BY <1>1, <2>2, <3>1
  <2>3. i = n + 1 \/ i \in 1 .. n
    <3>1. n \in Nat BY <1>1
    <3> QED BY <3>1
  <2> QED BY <2>1, <2>2, <2>3
<1>6. SharesOf(v) = [i \in 1 .. n + 1 |-> AsShare(v[i])] BY <1>4 DEF SharesOf
<1>7. s = [i \in 1 .. n + 1 |-> s[i]] BY <1>4
<1>8. s = SharesOf(v) BY <1>5, <1>6, <1>7
<1> QED BY <1>8 DEF s, v, some

\* The last value decides.
LEMMA LastOfMore ==
  ASSUME NEW S, NEW values \in Seq(S), NEW value \in S, NEW default
  PROVE  LastOf(Append(values, value), default) = value
<1>1. Append(values, value) # <<>> /\ Len(Append(values, value)) = Len(values) + 1
      /\ Append(values, value)[Len(values) + 1] = value
  BY AppendProperties
<1> QED BY <1>1 DEF LastOf, Last

\* Values of the lines that are read, one more or none.
LEMMA ValuesRead ==
  ASSUME Configured, NEW name
  PROVE  /\ Values(name) = ValuesOf(SubSeq(conf, 1, read), name)
         /\ Values(name) \in Seq(Said(name))
         /\ read < Len(conf) =>
              /\ conf[read + 1] \in Line
              /\ ValuesOf(SubSeq(conf, 1, read + 1), name) =
                   ValuesStep(Values(name), conf[read + 1], name)
<1>1. /\ conf \in Seq(Line) /\ read \in Nat /\ read <= Len(conf) /\ Len(conf) \in Nat
  BY LenProperties DEF Configured
<1> DEFINE part == SubSeq(conf, 1, read)
<1>2. part \in Seq(Line)
  <2>1. \A i \in 1 .. read : i \in 1 .. Len(conf) BY <1>1
  <2>2. \A i \in 1 .. read : conf[i] \in Line BY <1>1, <2>1, ElementOfSeq
  <2>3. 1 \in Int /\ read \in Int BY <1>1
  <2> QED BY <2>2, <2>3, SubSeqProperties
<1>3. Values(name) = ValuesOf(part, name) BY DEF Values, ValuesOf
<1>4. ValuesOf(part, name) \in Seq(Said(name))
  <2> HIDE DEF part
  <2>1. CASE Line = {}
    <3>1. part = <<>>
      <4>1. Len(part) \in Nat /\ \A i \in 1 .. Len(part) : part[i] \in Line
        BY <1>2, LenProperties, ElementOfSeq
      <4>2. Len(part) = 0 BY <2>1, <4>1
      <4> QED BY <1>2, <4>2, EmptySeq
    <3> QED BY <3>1, ValuesOfNone, EmptySeq
  <2>2. ASSUME NEW line \in Line PROVE ValuesOf(part, name) \in Seq(Said(name))
    BY <1>2, ValuesMore
  <2> QED BY <2>1, <2>2
<1>5. ASSUME read < Len(conf)
      PROVE  /\ conf[read + 1] \in Line
             /\ ValuesOf(SubSeq(conf, 1, read + 1), name) =
                  ValuesStep(ValuesOf(part, name), conf[read + 1], name)
  <2>1. read + 1 \in 1 .. Len(conf) /\ 1 \in 1 .. Len(conf) /\ (read + 1) - 1 = read
    BY <1>1, <1>5
  <2>2. conf[read + 1] \in Line BY <1>1, <2>1, ElementOfSeq
  <2>3. SubSeq(conf, 1, read + 1) = SubSeq(conf, 1, (read + 1) - 1) \o <<conf[read + 1]>>
    <3>1. read + 1 \in 1 .. Len(conf) BY <2>1
    <3> QED BY <1>1, <2>1, <3>1, SubSeqRecursiveSecond
  <2>4. SubSeq(conf, 1, read + 1) = Append(part, conf[read + 1])
    <3> DEFINE line == conf[read + 1]
    <3>1. SubSeq(conf, 1, read + 1) = part \o <<line>> BY <2>1, <2>3
    <3>2. line \in Line BY <2>2
    <3> HIDE DEF part, line
    <3>3. part \o <<line>> = Append(part, line) BY <1>2, <3>2, AppendIsConcat
    <3> QED BY <3>1, <3>3 DEF part, line
  <2> DEFINE line == conf[read + 1]
  <2>5. line \in Line BY <2>2
  <2>6. ValuesOf(Append(part, line), name) = ValuesStep(ValuesOf(part, name), line, name)
    <3> HIDE DEF part, line
    <3> QED BY <1>2, <2>5, ValuesMore
  <2> QED BY <2>2, <2>4, <2>6
<1> QED BY <1>3, <1>4, <1>5

\* What the values of each name are.
LEMMA SaidIs ==
  /\ Said("/") \subseteq [url : Path, sys : Path]
  /\ Said("index") \subseteq Seq(SUBSET STRING)
  /\ Said("cgi") \subseteq Seq(Seq(SUBSET STRING))
BY LineIs DEF Said

\* The options, and what they are made of.
ConfigInv == Configured /\ OptionsAsRead

\* Nothing is read, and the options are the defaults.
LEMMA ConfigInit == Init => ConfigInv
<1> SUFFICES ASSUME Init PROVE ConfigInv
  OBVIOUS
<1>1. Configured
  <2>1. conf \in Seq(Line) /\ path \in Path /\ read = 0 /\ shares = <<>> /\ index = <<>>
    BY CasesAssumption DEF Init
  <2>2. Len(conf) \in Nat BY <2>1, LenProperties
  <2>3. read \in 0 .. Len(conf) BY <2>1, <2>2
  <2> QED BY <2>1, <2>3, EmptySeq DEF Configured
<1>2. \A name : Values(name) = <<>>
  <2>1. SubSeq(conf, 1, 0) = <<>> BY SubSeqEmpty
  <2> QED BY <1>1, <2>1, ValuesRead, ValuesOfNone DEF Init
<1>3. availOps = OneOf(LastOf(Values("dirops"), "all"), {"all", "listing"})
  BY <1>2 DEF Init, LastOf, OneOf
<1>4. guestOps = OneOf(LastOf(Values("guestops"), "all"), {"all", "listing", "file"})
  BY <1>2 DEF Init, LastOf, OneOf
<1>5. index = Accumulated(Values("index")) /\ cgi = Accumulated(Values("cgi"))
  BY <1>2, AccumulatedNone DEF Init
<1>6. credentials = Values("credentials") BY <1>2 DEF Init
<1>7. /\ section = "config"
      /\ shares = SharesOf(Values("/"))
  <2>1. DOMAIN <<>> = {} BY EmptySeq
  <2>2. SharesOf(<<>>) = <<>> BY <2>1 DEF SharesOf
  <2> QED BY <1>2, <2>2 DEF Init
<1> QED BY <1>1, <1>3, <1>4, <1>5, <1>6, <1>7
        DEF ConfigInv, OptionsAsRead, SharesOf, AsShare

\* One more line says one more value of its option, or none.
LEMMA ConfigParse == ASSUME ConfigInv, ParseLine PROVE ConfigInv'
<1> DEFINE line == conf[read + 1]
<1>1. /\ section = "config" /\ section' = "config" /\ read < Len(conf) /\ read' = read + 1
      /\ conf' = conf /\ path' = path
  BY DEF ParseLine, request
<1>2. Configured BY DEF ConfigInv
<1>3. line \in Line BY <1>1, <1>2, ValuesRead
<1>4. \A name : /\ Values(name)' = ValuesStep(Values(name), line, name)
                /\ Values(name) \in Seq(Said(name))
  <2> TAKE name
  <2>1. Values(name)' = ValuesOf(SubSeq(conf', 1, read'), name) BY DEF Values
  <2> QED BY <1>1, <1>2, <2>1, ValuesRead
<1>5. /\ shares' = IF line.name = "/" THEN Append(shares, AsShare(line.value)) ELSE shares
      /\ index' = IF line.name = "index" THEN Collected(index, line.value) ELSE index
      /\ cgi' = IF line.name = "cgi" THEN Collected(cgi, line.value) ELSE cgi
      /\ availOps' = IF line.name = "dirops" THEN OneOf(line.value, {"all", "listing"})
                     ELSE availOps
      /\ guestOps' = IF line.name = "guestops" THEN OneOf(line.value, {"all", "listing", "file"})
                     ELSE guestOps
      /\ credentials' = IF line.name = "credentials" THEN Append(credentials, line.value)
                        ELSE credentials
  BY DEF ParseLine, AsShare
<1> HIDE DEF line
<1>6. line.value \in Said(line.name) BY <1>3 DEF Said
<1>7. /\ line.name = "/" => line.value \in [url : Path, sys : Path]
      /\ line.name = "index" => line.value \in Seq(SUBSET STRING)
      /\ line.name = "cgi" => line.value \in Seq(Seq(SUBSET STRING))
  BY <1>3, LineIs
<1> DEFINE share == AsShare(line.value)
<1>8. line.name = "/" => share \in Share
  <2> SUFFICES ASSUME line.name = "/" PROVE share \in Share
    OBVIOUS
  <2> DEFINE url == line.value.url
             sys == line.value.sys
  <2>1. url \in Seq(STRING) \ {<<>>} /\ sys \in Seq(STRING) \ {<<>>}
    BY <1>7 DEF Path
  <2>2. TrimSlashes(url) \in Trimmed /\ TrimSlashes(sys) \in Trimmed
    <3> HIDE DEF url, sys
    <3> QED BY <2>1, TrimmedPath
  <2>3. TrimSlashes(sys) \in Seq(STRING) \ {<<>>} BY <2>2 DEF Trimmed
  <2> QED BY <2>2, <2>3 DEF Share, AsShare
<1>9. Configured'
  <2>1. shares' \in Seq(Share)
    <3> HIDE DEF share
    <3> QED BY <1>2, <1>5, <1>8, AppendProperties DEF Configured, share
  <2>2. index' \in Seq(SUBSET STRING)
    <3>1. CASE line.name = "index"
      <4>1. index \o line.value \in Seq(SUBSET STRING)
        BY <1>2, <1>7, <3>1, ConcatProperties DEF Configured
      <4>2. index' = Collected(index, line.value) BY <1>5, <3>1
      <4> QED BY <4>1, <4>2, EmptySeq DEF Collected
    <3>2. CASE line.name # "index" BY <1>2, <1>5, <3>2 DEF Configured
    <3> QED BY <3>1, <3>2
  <2>3. read' \in 0 .. Len(conf')
    <3>1. Len(conf) \in Nat BY <1>2, LenProperties DEF Configured
    <3>2. read \in 0 .. Len(conf) BY <1>2 DEF Configured
    <3> QED BY <1>1, <3>1, <3>2
  <2> QED BY <1>1, <1>2, <2>1, <2>2, <2>3 DEF Configured
<1>10. \A name, default :
         LastOf(Values(name)', default) =
           IF line.name = name THEN line.value ELSE LastOf(Values(name), default)
  <2> TAKE name, default
  <2>1. CASE line.name = name
    <3>1. Values(name)' = Append(Values(name), line.value) BY <1>4, <2>1 DEF ValuesStep
    <3>2. line.value \in Said(name) BY <1>6, <2>1
    <3> QED BY <1>4, <2>1, <3>1, <3>2, LastOfMore
  <2>2. CASE line.name # name BY <1>4, <2>2 DEF ValuesStep
  <2> QED BY <2>1, <2>2
<1>11. availOps' = OneOf(LastOf(Values("dirops")', "all"), {"all", "listing"})
  BY <1>5, <1>10 DEF ConfigInv, OptionsAsRead
<1>12. guestOps' = OneOf(LastOf(Values("guestops")', "all"), {"all", "listing", "file"})
  BY <1>5, <1>10 DEF ConfigInv, OptionsAsRead
<1>13. index' = Accumulated(Values("index")')
  <2>1. index = Accumulated(Values("index")) BY DEF ConfigInv, OptionsAsRead
  <2>2. Values("index") \in Seq(Seq(SUBSET STRING)) BY <1>4, SaidIs, SeqMonotonic
  <2>3. CASE line.name = "index"
    <3>1. Values("index")' = Append(Values("index"), line.value) BY <1>4, <2>3 DEF ValuesStep
    <3>2. line.value \in Seq(SUBSET STRING) BY <1>7, <2>3
    <3> QED BY <1>5, <2>1, <2>2, <2>3, <3>1, <3>2, AccumulatedMore
  <2>4. CASE line.name # "index" BY <1>4, <1>5, <2>1, <2>4 DEF ValuesStep
  <2> QED BY <2>3, <2>4
<1>14. cgi' = Accumulated(Values("cgi")')
  <2>1. cgi = Accumulated(Values("cgi")) BY DEF ConfigInv, OptionsAsRead
  <2>2. Values("cgi") \in Seq(Seq(Seq(SUBSET STRING))) BY <1>4, SaidIs, SeqMonotonic
  <2>3. CASE line.name = "cgi"
    <3>1. Values("cgi")' = Append(Values("cgi"), line.value) BY <1>4, <2>3 DEF ValuesStep
    <3>2. line.value \in Seq(Seq(SUBSET STRING)) BY <1>7, <2>3
    <3> QED BY <1>5, <2>1, <2>2, <2>3, <3>1, <3>2, AccumulatedMore
  <2>4. CASE line.name # "cgi" BY <1>4, <1>5, <2>1, <2>4 DEF ValuesStep
  <2> QED BY <2>3, <2>4
<1>15. credentials' = Values("credentials")'
  BY <1>4, <1>5 DEF ConfigInv, OptionsAsRead, ValuesStep
<1>16. shares' = SharesOf(Values("/")')
  <2>1. shares = SharesOf(Values("/"))
    BY <1>1 DEF ConfigInv, OptionsAsRead, SharesOf, AsShare
  <2>2. Values("/") \in Seq([url : Path, sys : Path])
    <3>1. Values("/") \in Seq(Said("/")) BY <1>4
    <3>2. Said("/") \subseteq [url : Path, sys : Path] BY SaidIs
    <3> QED BY <3>1, <3>2, SeqMonotonic
  <2>3. CASE line.name = "/"
    <3>1. Values("/")' = Append(Values("/"), line.value) BY <1>4, <2>3 DEF ValuesStep
    <3>2. shares' = Append(shares, AsShare(line.value)) BY <1>5, <2>3
    <3>3. shares \in Seq(Share) BY <1>2 DEF Configured
    <3>4. Append(SharesOf(Values("/")), AsShare(line.value)) =
            SharesOf(Append(Values("/"), line.value))
      BY <1>7, <1>8, <2>1, <2>2, <2>3, <3>3, SharesMore
    <3> QED BY <2>1, <3>1, <3>2, <3>4
  <2>4. CASE line.name # "/" BY <1>4, <1>5, <2>1, <2>4 DEF ValuesStep
  <2> QED BY <2>3, <2>4
<1>17. OptionsAsRead'
  BY <1>1, <1>11, <1>12, <1>13, <1>14, <1>15, <1>16 DEF OptionsAsRead, SharesOf, AsShare
<1> QED BY <1>9, <1>17 DEF ConfigInv

\* Without shares there is one, of the welcome page.
LEMMA ConfigEnd == ASSUME ConfigInv, EndConfig PROVE ConfigInv'
<1> DEFINE welcome == [url |-> <<Empty>>, sys |-> Welcome]
<1>1. /\ section = "config" /\ section' = "head"
      /\ UNCHANGED <<conf, read, index, cgi, availOps, guestOps, credentials, path>>
      /\ shares' = IF shares = <<>> THEN <<welcome>> ELSE shares
  BY DEF EndConfig, request
<1>2. Configured BY DEF ConfigInv
<1>3. welcome \in Share
  <2>1. <<Empty>> \in Seq(STRING) /\ Len(<<Empty>>) = 1 BY OneOrTwo, EmptyAssumption
  <2>2. <<Empty>> # <<>> BY <2>1, EmptySeq
  <2> QED BY <2>1, <2>2, WelcomeAssumption DEF Share, Trimmed, Path
<1>4. <<welcome>> \in Seq(Share) /\ Len(<<welcome>>) = 1 /\ <<welcome>>[1] = welcome
  <2> HIDE DEF welcome
  <2> QED BY <1>3, OneOrTwo
<1>5. Configured' BY <1>1, <1>2, <1>4 DEF Configured
<1>6. \A name : Values(name)' = Values(name) BY <1>1 DEF Values
<1>7. shares = SharesOf(Values("/"))
  BY <1>1 DEF ConfigInv, OptionsAsRead, SharesOf, AsShare
<1>8. Values("/") \in Seq([url : Path, sys : Path])
  <2>1. Values("/") \in Seq(Said("/")) BY <1>2, ValuesRead
  <2>2. Said("/") \subseteq [url : Path, sys : Path] BY SaidIs
  <2> QED BY <2>1, <2>2, SeqMonotonic
<1>9. shares = <<>> <=> Values("/") = <<>>
  <2>1. DOMAIN shares = DOMAIN Values("/") BY <1>7 DEF SharesOf
  <2>2. /\ DOMAIN shares = 1 .. Len(shares) /\ Len(shares) \in Nat
        /\ DOMAIN Values("/") = 1 .. Len(Values("/")) /\ Len(Values("/")) \in Nat
    BY <1>2, <1>8, LenProperties DEF Configured
  <2>3. Len(shares) = Len(Values("/")) BY <2>1, <2>2, SameLength
  <2> QED BY <1>2, <1>8, <2>3, EmptySeq DEF Configured
<1>10. shares' = IF Values("/") = <<>> THEN <<welcome>> ELSE SharesOf(Values("/"))
  BY <1>1, <1>7, <1>9
<1>11. OptionsAsRead'
  BY <1>1, <1>6, <1>10 DEF ConfigInv, OptionsAsRead, SharesOf, AsShare
<1> QED BY <1>5, <1>11 DEF ConfigInv

\* Nothing else touches the configuration.
LEMMA ConfigRest ==
  ASSUME ConfigInv, UNCHANGED options, path' = path, section' = "config" <=> section = "config"
  PROVE  ConfigInv'
<1>1. UNCHANGED <<conf, read, shares, index, cgi, availOps, guestOps, credentials>>
  BY DEF options
<1>2. Configured' BY <1>1 DEF ConfigInv, Configured
<1>3. \A name : Values(name)' = Values(name) BY <1>1 DEF Values
<1>4. OptionsAsRead' BY <1>1, <1>3 DEF ConfigInv, OptionsAsRead
<1> QED BY <1>2, <1>4 DEF ConfigInv

\* In every state the options are what the lines up to there say.
LEMMA ConfigInvariance == Spec => []ConfigInv
<1>1. ASSUME ConfigInv, [Next]_vars PROVE ConfigInv'
  <2>1. ASSUME AuthorizationLine \/ EndHead \/ Complete \/ UseForm \/ UNCHANGED vars
        PROVE  ConfigInv'
    <3>1. UNCHANGED options
      BY <2>1 DEF AuthorizationLine, EndHead, Complete, UseForm, vars
    <3>2. path' = path
      BY <2>1 DEF AuthorizationLine, EndHead, Complete, UseForm, vars, request
    <3>3. section' = "config" <=> section = "config"
      BY <2>1 DEF AuthorizationLine, EndHead, Complete, UseForm, vars
    <3> QED BY <1>1, <3>1, <3>2, <3>3, ConfigRest
  <2>2. CASE ParseLine BY <1>1, <2>2, ConfigParse
  <2>3. CASE EndConfig BY <1>1, <2>3, ConfigEnd
  <2> QED BY <1>1, <2>1, <2>2, <2>3 DEF Next
<1> QED BY <1>1, ConfigInit, PTL DEF Spec

\* The options are what the lines say.
THEOREM OptionsRead == Spec => []OptionsAsRead
<1>1. ConfigInv => OptionsAsRead BY DEF ConfigInv
<1> QED BY <1>1, ConfigInvariance, PTL

\* A client that is known is accepted: its user's first line is like the one that matches.
LEMMA KnownAccepted == ASSUME ConfigInv, Known PROVE Accepted
<1> DEFINE given == Head(auths)
           ofUser == {i \in DOMAIN credentials : credentials[i].user = given.user}
<1>1. /\ auths # <<>> /\ given.fits
      /\ \E c \in ToSet(credentials) : c.user = given.user /\ c.secret = given.secret
      /\ \A c, d \in ToSet(credentials) :
           c.user = given.user /\ d.user = given.user => c.secret = d.secret
  BY DEF Known, LoggedIn, OnePassword
<1>2. credentials \in Seq(Said("credentials"))
  BY ValuesRead DEF ConfigInv, OptionsAsRead
<1>3. DOMAIN credentials = 1 .. Len(credentials) /\ Len(credentials) \in Nat
  BY <1>2, LenProperties
<1> HIDE DEF given
<1>4. PICK i \in DOMAIN credentials :
        credentials[i].user = given.user /\ credentials[i].secret = given.secret
  BY <1>1 DEF ToSet
<1>5. ofUser \in SUBSET (1 .. Len(credentials)) /\ ofUser # {} BY <1>3, <1>4
<1>6. PICK first \in ofUser : \A k \in ofUser : first <= k
  <2> HIDE DEF ofUser
  <2> QED BY <1>3, <1>5, MinIn
<1>7. \A k \in 1 .. first - 1 : credentials[k].user # given.user
  <2> SUFFICES ASSUME NEW k \in 1 .. first - 1, credentials[k].user = given.user PROVE FALSE
    OBVIOUS
  <2>1. first \in 1 .. Len(credentials) /\ k \in 1 .. Len(credentials) /\ ~(first <= k)
    BY <1>3
  <2>2. k \in ofUser BY <1>3, <2>1
  <2> QED BY <1>6, <2>1, <2>2
<1>8. credentials[first].user = given.user /\ credentials[first].secret = given.secret
  <2>1. credentials[first] \in ToSet(credentials) /\ credentials[i] \in ToSet(credentials)
    BY DEF ToSet
  <2> QED BY <1>1, <1>4, <2>1
<1>9. auth_isClientAuthorized(given)
  BY <1>1, <1>7, <1>8 DEF auth_isClientAuthorized, config_getDigestAuthCredential
<1> QED BY <1>1, <1>9 DEF Accepted, given

\* A client with credentials that match, of a user with one password, is not asked to log in.
THEOREM LoggedInServed == Spec => RefusedOnlyGuests
<1>1. Inv /\ ConfigInv /\ [Next]_vars =>
        [page.kind = "none" /\ page'.kind = "unauthorized" => ~Known]_vars
  <2> SUFFICES ASSUME Inv, ConfigInv, Next, page.kind = "none", page'.kind = "unauthorized"
               PROVE  ~Known
    OBVIOUS
  <2>1. Known => loginState = "LOGGED_IN"
    BY KnownAccepted DEF Inv, TypeOK, Login, Accepted
  <2>2. CASE AuthorizationLine \/ ParseLine \/ EndConfig
    BY <2>2 DEF AuthorizationLine, ParseLine, EndConfig
  <2>3. CASE EndHead
    <3>1. page' \in {Page("not_allowed"), Page("missing"), Page("moved"), Page("forbidden"),
                     Page("file"), Page("program"), page} \/ ~MayServe
      BY <2>3 DEF EndHead, Process, OpenFolder, AnswerFile, Answer, RunProgram, ManageFolder
    <3>2. Known => MayServe
      BY <2>1 DEF MayServe, isActionAllowed, isActionAvailable
    <3> QED BY <3>1, <3>2 DEF Page
  <2>4. CASE Complete
    <3>1. \/ page' \in {page, Page("crash"), FolderPage}
          \/ RequiresAuth
      BY <2>4 DEF Complete
    <3>2. FolderPage.kind \in {"not_found", "missing", "listing"} BY DEF FolderPage, Page
    <3>3. RequiresAuth BY <3>1, <3>2 DEF Page
    <3> QED BY <2>1, <3>3 DEF RequiresAuth, isActionAllowed
  <2>5. CASE UseForm BY <2>5 DEF UseForm, Page
  <2> QED BY <2>2, <2>3, <2>4, <2>5 DEF Next
<1> QED BY <1>1, Invariance, ConfigInvariance, PTL DEF Spec, RefusedOnlyGuests

----------------------------------------------------------------------------
(* What is found under a path.                                              *)

\* What the rest of a URL names in its best share.
NamedBy(url, names) ==
  \E i \in DOMAIN shares :
    /\ Best(shares, url, i)
    /\ names = Names(shares[i].sys \o SubSeq(url, Len(shares[i].url) + 1, Len(url)))

\* A path in the file system is the one in the best share.
LEMMA SysPathNamed ==
  ASSUME shares \in Seq(Share), NEW url \in Path,
         config_getSysPathForUrlPath(shares, url) # NoPath
  PROVE  LET sysPath == config_getSysPathForUrlPath(shares, url)
         IN NamedBy(url, Names(sysPath)) /\ Names(sysPath) \in Real
<1> DEFINE sysPath == config_getSysPathForUrlPath(shares, url)
<1>1. \E i \in DOMAIN shares :
        /\ Best(shares, url, i) /\ sysPath \in Seq(STRING) \ {<<>>}
        /\ Names(sysPath) = Names(shares[i].sys \o SubSeq(url, Len(shares[i].url) + 1, Len(url)))
  BY SysPathIs DEF Path
<1> HIDE DEF sysPath
<1>2. sysPath \in Seq(STRING) /\ NamedBy(url, Names(sysPath)) BY <1>1 DEF NamedBy
<1>3. Names(sysPath) \in Real BY <1>2, NamesReal
<1> QED BY <1>2, <1>3 DEF sysPath

\* A beginning of a path has its names.
Begins(url, urlPath) ==
  /\ url \in Path /\ Len(url) \in Nat
  /\ \A k \in 2 .. Len(url) : k \in 2 .. Len(urlPath) /\ url[k] = urlPath[k]

\* The part of a path that names a program is a beginning of the path.
LEMMA CutBegins ==
  ASSUME NEW urlPath \in Path, NEW cut \in 1 .. Len(urlPath) - 1
  PROVE  Begins(SubSeq(urlPath, 1, cut), urlPath)
<1>1. Len(urlPath) \in Nat /\ urlPath \in Seq(STRING) BY LenProperties DEF Path
<1>2. cut \in Int /\ 1 \in Int /\ cut > 0 /\ \A i \in 1 .. cut : i \in 1 .. Len(urlPath) BY <1>1
<1>3. \A i \in 1 .. cut : urlPath[i] \in STRING BY <1>1, <1>2, ElementOfSeq
<1> DEFINE url == SubSeq(urlPath, 1, cut)
<1>4. /\ url \in Seq(STRING)
      /\ Len(url) = IF 1 <= cut THEN cut - 1 + 1 ELSE 0
      /\ \A i \in 1 .. cut - 1 + 1 : url[i] = urlPath[1 + i - 1]
  BY <1>2, <1>3, SubSeqProperties
<1> HIDE DEF url
<1>5. Len(url) = cut /\ cut \in Nat BY <1>2, <1>4
<1>6. url # <<>> BY <1>2, <1>5, <1>4, EmptySeq
<1>7. \A k \in 2 .. cut : k \in 2 .. Len(urlPath) /\ k \in 1 .. cut - 1 + 1 /\ 1 + k - 1 = k
  BY <1>1, <1>2
<1>8. \A k \in 2 .. cut : url[k] = urlPath[k] BY <1>4, <1>7
<1> QED BY <1>4, <1>5, <1>6, <1>7, <1>8 DEF Begins, Path, url

\* What is found under a path.
LEMMA LookupIs ==
  ASSUME shares \in Seq(Share), NEW urlPath \in Path
  PROVE  LET found == Lookup(urlPath)
         IN /\ found.kind \in {"nothing", "shares", "folder", "file", "program"}
            /\ found.kind \in {"nothing", "shares"} => found.names = NoPath
            /\ found.kind = "shares" =>
                 \A i \in DOMAIN shares : ~IsPrefix(shares[i].url, urlPath)
            /\ found.kind \in {"folder", "file", "program"} =>
                 found.names \in Real /\ found.names # NoPath
            /\ found.kind \in {"folder", "file"} => NamedBy(urlPath, found.names)
            /\ found.kind = "folder" =>
                 \A n \in 1 .. Len(found.names) : ~IsFile(SubSeq(found.names, 1, n))
            /\ found.kind = "program" =>
                 NamedBy(found.url, found.names) /\ Begins(found.url, urlPath)
<1> DEFINE found == Lookup(urlPath)
           sysPath == config_getSysPathForUrlPath(shares, urlPath)
           cut == config_findCGI(shares, cgi, urlPath)
           exeUrl == SubSeq(urlPath, 1, cut)
           exePath == config_getSysPathForUrlPath(shares, exeUrl)
           below == config_getSubSharesForPath(shares, urlPath)
<1>0. found = IF sysPath = NoPath
              THEN Found(IF below = {} THEN "nothing" ELSE "shares", NoPath, NoPath)
              ELSE IF stat(sysPath) = "dir" THEN Found("folder", Names(sysPath), NoPath)
              ELSE IF stat(sysPath) = "file" /\ config_isCGI(cgi, urlPath)
              THEN Found("program", Names(sysPath), urlPath)
              ELSE IF stat(sysPath) = "file" THEN Found("file", Names(sysPath), NoPath)
              ELSE IF stat(sysPath) = "ENOTDIR" /\ cut > 0
              THEN Found("program", Names(exePath), exeUrl)
              ELSE Found("nothing", NoPath, NoPath)
  BY DEF Lookup
<1>1. sysPath = NoPath => \A i \in DOMAIN shares : ~IsPrefix(shares[i].url, urlPath)
  <2>1. sysPath \in Seq(STRING) => sysPath # NoPath BY TreeAssumption
  <2> QED BY <2>1, SysPathIs DEF Path
<1>2. sysPath # NoPath => NamedBy(urlPath, Names(sysPath)) /\ Names(sysPath) \in Real
  BY SysPathNamed
<1>3. sysPath # NoPath /\ stat(sysPath) = "dir" =>
        \A n \in 1 .. Len(Names(sysPath)) : ~IsFile(SubSeq(Names(sysPath), 1, n))
  BY <1>2, FolderIs
<1>4. cut > 0 => /\ NamedBy(exeUrl, Names(exePath)) /\ Names(exePath) \in Real
                 /\ Begins(exeUrl, urlPath)
  <2> SUFFICES ASSUME cut > 0
               PROVE  /\ NamedBy(exeUrl, Names(exePath)) /\ Names(exePath) \in Real
                      /\ Begins(exeUrl, urlPath)
    OBVIOUS
  <2>1. cut \in 0 .. Len(urlPath) - 1 /\ IsScript(shares, cgi, exeUrl) BY CutIs DEF Path
  <2>2. Len(urlPath) \in Nat BY LenProperties DEF Path
  <2>3. cut \in 1 .. Len(urlPath) - 1
    <3> HIDE DEF cut
    <3> QED BY <2>1, <2>2
  <2>4. Begins(exeUrl, urlPath)
    <3> HIDE DEF cut
    <3> QED BY <2>3, CutBegins
  <2>5. exePath # NoPath BY <2>1 DEF IsScript
  <2>6. exeUrl \in Path BY <2>4 DEF Begins
  <2> HIDE DEF exeUrl
  <2>7. NamedBy(exeUrl, Names(exePath)) /\ Names(exePath) \in Real BY <2>5, <2>6, SysPathNamed
  <2> QED BY <2>4, <2>7
<1>5. Begins(urlPath, urlPath)
  <2>1. Len(urlPath) \in Nat BY LenProperties DEF Path
  <2> QED BY <2>1 DEF Begins
<1>6. \A names \in Real : names # NoPath
  <2>1. RealName \subseteq STRING BY DEF RealName
  <2>2. Real \subseteq Seq(STRING) BY <2>1, SeqMonotonic DEF Real
  <2> QED BY <2>2, TreeAssumption
<1> HIDE DEF found, sysPath, cut, exeUrl, exePath, below
<1>7. CASE sysPath = NoPath BY <1>0, <1>1, <1>7 DEF Found, found
<1>8. CASE sysPath # NoPath /\ stat(sysPath) = "dir"
  BY <1>0, <1>2, <1>3, <1>6, <1>8 DEF Found, found
<1>9. CASE sysPath # NoPath /\ stat(sysPath) = "file"
  BY <1>0, <1>2, <1>5, <1>6, <1>9 DEF Found, found
<1>10. CASE sysPath # NoPath /\ stat(sysPath) \notin {"dir", "file"}
  BY <1>0, <1>4, <1>6, <1>10 DEF Found, found
<1> QED BY <1>7, <1>8, <1>9, <1>10

----------------------------------------------------------------------------
(* What is served, and which forms there are.                               *)

\* The client has the right to pages.
MayBeServed == Accepted \/ guestOps # "none"

\* No file of a folder is an index file, or this one is the first.
NoIndexIn(names) ==
  \A name \in Entries(names) :
    IsFile(Append(names, name)) => IndexRank(index, name) = Len(index) + 1

FirstIndex(names, file) ==
  \E best \in Entries(names) :
    /\ file = Append(names, best)
    /\ \A name \in Entries(names) :
         IsFile(Append(names, name)) => IndexRank(index, best) <= IndexRank(index, name)

\* A folder of the path that has no index file, or the list of shares at the path.
Manageable(found) ==
  /\ ~GoesUp /\ Last(path) = Empty
  /\ \/ found.kind = "shares" /\ found.names = NoPath
     \/ found.kind = "folder" /\ Tree[found.names].readable /\ NoIndexIn(found.names)

\* A file, the index file of a folder, or a program.
Answered(found) ==
  /\ ~GoesUp
  /\ \/ /\ found.kind = "folder" /\ page.kind = "file"
        /\ Last(path) = Empty /\ FirstIndex(found.names, served)
     \/ found.kind = "file" /\ page.kind = "file" /\ served = found.names
     \/ /\ found.kind = "program" /\ page.kind = "program"
        /\ served = found.names /\ scriptName = found.url

\* What is served, and how it was found.
Placed ==
  /\ handler = "filemgr" =>
       Manageable(Lookup(path)) /\ MayBeServed /\ served = Lookup(path).names
  /\ handler # "filemgr" /\ served # NoPath => Answered(Lookup(path))

\* A form comes from a page of a folder that is managed, and has what it needs.
Forms ==
  /\ "controls" \in page.shows => served # NoPath
  /\ section = "config" => shown = {}
  /\ shown # {} => /\ Manageable(Lookup(path)) /\ MayBeServed
                   /\ method = "POST" /\ form \in {"do_login", "do_upload", "do_change"}
  /\ shown # {} /\ form # "do_login" =>
       /\ availOps = "all" /\ (Accepted \/ guestOps = "all")
       /\ Lookup(path).kind = "folder"
  /\ shown # {} /\ section \in {"body", "finished"} /\ (auths = <<>> \/ Accepted) =>
       handler = "filemgr"

\* OwnFormsWork, of the clients that the code accepts.
OwnForms ==
  shown # {} /\ section = "finished" /\ (auths = <<>> \/ Accepted) =>
    /\ page.kind # "crash"
    /\ page.kind = "unauthorized" <=> form = "do_login" /\ ~Accepted

\* None of the three is inductive without the others.
PlaceInv == Placed /\ Forms /\ OwnForms

\* What is found stays what is found.
LEMMA LookupStays ==
  ASSUME UNCHANGED <<shares, index, cgi, path>>
  PROVE  /\ Lookup(path)' = Lookup(path)
         /\ \A found : Manageable(found)' <=> Manageable(found)
         /\ \A names, file : FirstIndex(names, file)' <=> FirstIndex(names, file)
<1>1. Lookup(path)' = Lookup(path) BY DEF Lookup
<1>2. GoesUp' <=> GoesUp BY DEF GoesUp
<1>3. \A names : NoIndexIn(names)' <=> NoIndexIn(names) BY DEF NoIndexIn
<1>4. \A found : Manageable(found)' <=> Manageable(found) BY <1>2, <1>3 DEF Manageable
<1>5. \A names, file : FirstIndex(names, file)' <=> FirstIndex(names, file) BY DEF FirstIndex
<1> QED BY <1>1, <1>4, <1>5

\* Credentials that were good stay good.
LEMMA LoginStays ==
  ASSUME Inv, UNCHANGED options,
         \/ auths' = auths
         \/ \E given \in Given : auths' = Append(auths, given)
  PROVE  /\ auths # <<>> => (Accepted' <=> Accepted)
         /\ Accepted => Accepted'
         /\ MayBeServed => MayBeServed'
         /\ (auths' = <<>> \/ Accepted') => auths = <<>> \/ Accepted
<1>1. auths \in Seq(Given) BY DEF Inv, TypeOK
<1>2. auths # <<>> => auths' # <<>> /\ Head(auths') = Head(auths)
  BY <1>1, FirstStays
<1>3. /\ Accepted <=> auths # <<>> /\ auth_isClientAuthorized(Head(auths))
      /\ Accepted' <=> auths' # <<>> /\ auth_isClientAuthorized(Head(auths'))
  BY DEF Accepted, auth_isClientAuthorized, config_getDigestAuthCredential, options
<1>4. guestOps' = guestOps BY DEF options
<1> QED BY <1>2, <1>3, <1>4 DEF MayBeServed

\* Nothing is served and no form is used at the beginning.
LEMMA InitPlace == Init => PlaceInv
  BY DEF Init, PlaceInv, Placed, Forms, OwnForms, Page

\* Nothing is found and no form is used before the configuration is read.
LEMMA ConfigPlace ==
  ASSUME Inv, Inv', PlaceInv, ParseLine \/ EndConfig
  PROVE  PlaceInv'
<1>1. /\ section = "config" /\ section' \in {"config", "head"}
      /\ shown' = shown /\ page' = page
  BY DEF ParseLine, EndConfig, request
<1>2. shown' = {} /\ page'.shows = {} /\ handler' = "none" /\ served' = NoPath
  BY <1>1 DEF PlaceInv, Forms, Inv, Decided
<1> QED BY <1>1, <1>2 DEF PlaceInv, Placed, Forms, OwnForms

\* More credentials change neither what is served nor what was right with the first.
LEMMA LinePlace ==
  ASSUME Inv, PlaceInv, AuthorizationLine
  PROVE  PlaceInv'
<1>1. /\ UNCHANGED <<options, request, section, handler, served, scriptName, destDir, page, folder>>
      /\ \E given \in Given : auths' = Append(auths, given)
      /\ section \in {"head", "body"}
  BY DEF AuthorizationLine
<1>2. /\ Accepted => Accepted'
      /\ MayBeServed => MayBeServed'
      /\ (auths' = <<>> \/ Accepted') => auths = <<>> \/ Accepted
  BY <1>1, LoginStays
<1>3. /\ UNCHANGED <<shares, index, cgi, path>>
      /\ UNCHANGED <<method, form, shown, availOps, guestOps>>
  BY <1>1 DEF options, request
<1>4. /\ Lookup(path)' = Lookup(path)
      /\ \A found : Manageable(found)' <=> Manageable(found)
      /\ \A names, file : FirstIndex(names, file)' <=> FirstIndex(names, file)
  BY <1>3, LookupStays
<1>5. GoesUp' <=> GoesUp BY <1>3 DEF GoesUp
<1>6. Placed'
  <2>1. \A found : Answered(found) => Answered(found)'
    BY <1>1, <1>3, <1>4, <1>5 DEF Answered
  <2> QED BY <1>1, <1>2, <1>4, <2>1 DEF PlaceInv, Placed
<1>7. Forms' BY <1>1, <1>2, <1>3, <1>4 DEF PlaceInv, Forms
<1>8. OwnForms' BY <1>1 DEF OwnForms
<1> QED BY <1>6, <1>7, <1>8 DEF PlaceInv

\* A step of something else keeps what is served.
LEMMA StutterPlace ==
  ASSUME Inv, PlaceInv, UNCHANGED vars
  PROVE  PlaceInv'
<1>1. UNCHANGED <<options, request, auths, section, handler, served, scriptName, page>>
  BY DEF vars
<1>2. /\ Accepted => Accepted'
      /\ MayBeServed => MayBeServed'
      /\ (auths' = <<>> \/ Accepted') => auths = <<>> \/ Accepted
      /\ auths # <<>> => (Accepted' <=> Accepted)
  BY <1>1, LoginStays
<1>3. /\ UNCHANGED <<shares, index, cgi, path>>
      /\ UNCHANGED <<method, form, shown, availOps, guestOps>>
  BY <1>1 DEF options, request
<1>4. /\ Lookup(path)' = Lookup(path)
      /\ \A found : Manageable(found)' <=> Manageable(found)
      /\ \A names, file : FirstIndex(names, file)' <=> FirstIndex(names, file)
  BY <1>3, LookupStays
<1>5. GoesUp' <=> GoesUp BY <1>3 DEF GoesUp
<1>6. Placed'
  <2>1. \A found : Answered(found) => Answered(found)'
    BY <1>1, <1>3, <1>4, <1>5 DEF Answered
  <2> QED BY <1>1, <1>2, <1>4, <2>1 DEF PlaceInv, Placed
<1>7. Forms' BY <1>1, <1>2, <1>3, <1>4 DEF PlaceInv, Forms
<1>8. Accepted' <=> Accepted BY <1>1, <1>2 DEF Accepted
<1>9. OwnForms' BY <1>1, <1>3, <1>8 DEF PlaceInv, OwnForms
<1> QED BY <1>6, <1>7, <1>9 DEF PlaceInv

\* A page has a form only where a folder is managed: the form can be sent there.
LEMMA FormPlace ==
  ASSUME Inv, ConfigInv, PlaceInv, UseForm
  PROVE  PlaceInv'
<1>1. /\ section = "finished" /\ shown = {} /\ page.shows # {}
      /\ method' = "POST" /\ shown' = page.shows
      /\ section' = "head" /\ handler' = "none" /\ served' = NoPath /\ page' = Page("none")
      /\ UNCHANGED <<options, path, auths>>
  BY DEF UseForm
<1>2. /\ form' \in {"do_login", "do_upload", "do_change"}
      /\ form' # "do_login" => "controls" \in page.shows
  BY DEF UseForm
<1>3. handler = "filemgr"
  BY <1>1 DEF Inv, Decided, TypeOK, Page
<1>4. Manageable(Lookup(path)) /\ MayBeServed /\ served = Lookup(path).names
  BY <1>3 DEF PlaceInv, Placed
<1>5. UNCHANGED <<shares, index, cgi, path, availOps, guestOps>> BY <1>1 DEF options
<1>6. Lookup(path)' = Lookup(path) /\ \A found : Manageable(found)' <=> Manageable(found)
  BY <1>5, LookupStays
<1>7. (MayBeServed => MayBeServed') /\ (Accepted => Accepted') BY <1>1, LoginStays
<1>8. form' # "do_login" => /\ availOps = "all" /\ (Accepted \/ guestOps = "all")
                            /\ Lookup(path).kind = "folder"
  <2> SUFFICES ASSUME form' # "do_login"
               PROVE  /\ availOps = "all" /\ (Accepted \/ guestOps = "all")
                      /\ Lookup(path).kind = "folder"
    OBVIOUS
  <2>1. "controls" \in page.shows BY <1>2
  <2>2. served # NoPath BY <2>1 DEF PlaceInv, Forms
  <2>3. Lookup(path).kind = "folder" BY <1>4, <2>2 DEF Manageable
  <2> QED BY <2>1, <2>3 DEF Inv, Rights
<1>9. page'.shows = {} BY <1>1 DEF Page
<1>10. Placed' BY <1>1 DEF Placed
<1>11. Forms' BY <1>1, <1>2, <1>4, <1>5, <1>6, <1>7, <1>8, <1>9 DEF Forms
<1>12. OwnForms' BY <1>1 DEF OwnForms
<1> QED BY <1>10, <1>11, <1>12 DEF PlaceInv

\* The index file, or none, is what the folder was searched for.
LEMMA FolderPlace ==
  ASSUME Configured, NEW names \in Real,
         \A n \in 1 .. Len(names) : ~IsFile(SubSeq(names, 1, n)),
         NEW entries \in SetToSeqs(Entries(names))
  PROVE  LET file == config_getIndexFile(index, names, entries)
         IN /\ file = NoPath => NoIndexIn(names)
            /\ file # NoPath => FirstIndex(names, file) /\ ~NoIndexIn(names)
<1> DEFINE file == config_getIndexFile(index, names, entries)
<1>1. index \in Seq(SUBSET STRING) BY DEF Configured
<1>2. \/ file = NoPath /\ NoIndexIn(names)
      \/ \E best \in Entries(names) :
           /\ file = Append(names, best) /\ IsFile(Append(names, best))
           /\ IndexRank(index, best) <= Len(index)
           /\ \A name \in Entries(names) : IsFile(Append(names, name)) =>
                IndexRank(index, best) <= IndexRank(index, name)
  BY <1>1, IndexFileIs DEF NoIndexIn
<1> HIDE DEF file
<1>3. ASSUME NEW best \in Entries(names),
             file = Append(names, best), IsFile(Append(names, best)),
             IndexRank(index, best) <= Len(index),
             \A name \in Entries(names) : IsFile(Append(names, name)) =>
               IndexRank(index, best) <= IndexRank(index, name)
      PROVE  FirstIndex(names, file) /\ ~NoIndexIn(names) /\ file # NoPath
  <2>1. FirstIndex(names, file) BY <1>3 DEF FirstIndex
  <2>2. Len(index) \in Nat /\ IndexRank(index, best) \in 1 .. Len(index) + 1
    BY <1>1, RankIs, LenProperties
  <2>3. IndexRank(index, best) # Len(index) + 1 BY <1>3, <2>2
  <2>4. ~NoIndexIn(names) BY <1>3, <2>3 DEF NoIndexIn
  <2>5. file # NoPath
    <3>1. best \in RealName BY EntriesAre
    <3>2. file \in Real BY <1>3, <3>1, AppendProperties DEF Real
    <3>3. RealName \subseteq STRING BY DEF RealName
    <3>4. file \in Seq(STRING) BY <3>2, <3>3, SeqMonotonic DEF Real
    <3> QED BY <3>4, TreeAssumption
  <2> QED BY <2>1, <2>4, <2>5
<1> QED BY <1>2, <1>3 DEF file

\* What the end of the header decides.
LEMMA HeadDecides ==
  ASSUME Configured, EndHead, served = NoPath, handler = "none"
  PROVE  LET found == Lookup(path)
         IN /\ \/ handler' # "filemgr" /\ served' = NoPath
               \/ handler' = "filemgr" /\ Manageable(found) /\ MayServe /\ served' = found.names
               \/ /\ handler' \in {"response", "cgiexe"} /\ ~GoesUp /\ MayServe
                  /\ \/ /\ found.kind = "folder" /\ page' = Page("file")
                        /\ Last(path) = Empty /\ FirstIndex(found.names, served')
                     \/ found.kind = "file" /\ page' = Page("file") /\ served' = found.names
                     \/ /\ found.kind = "program" /\ page' = Page("program")
                        /\ served' = found.names /\ scriptName' = found.url
            /\ MayServe /\ method = "POST" /\ Manageable(found) => handler' = "filemgr"
<1> DEFINE found == Lookup(path)
<1>1. shares \in Seq(Share) /\ path \in Path BY DEF Configured
<1>2. /\ found.kind \in {"nothing", "shares"} => found.names = NoPath
      /\ found.kind = "folder" =>
           /\ found.names \in Real
           /\ \A n \in 1 .. Len(found.names) : ~IsFile(SubSeq(found.names, 1, n))
  BY <1>1, LookupIs
<1> HIDE DEF found
<1>3. CASE \E kind : Answer(kind) /\ ~(MayServe /\ method = "POST" /\ Manageable(found))
  <2>1. handler' = "response" /\ served' = NoPath BY <1>3 DEF Answer
  <2> QED BY <1>3, <2>1 DEF found
<1>4. CASE MayServe /\ ~GoesUp /\ Process
  <2>1. CASE found.kind = "nothing" /\ Answer("missing")
    BY <1>3, <2>1 DEF Manageable
  <2>2. CASE found.kind \in {"folder", "shares"} /\ Last(path) # Empty /\ Answer("moved")
    BY <1>3, <2>2 DEF Manageable
  <2>3. CASE found.kind = "folder" /\ Last(path) = Empty /\ OpenFolder(found.names)
    <3>1. CASE ~Tree[found.names].readable /\ Answer("forbidden")
      BY <1>3, <2>3, <3>1 DEF Manageable
    <3>2. ASSUME Tree[found.names].readable,
                 NEW entries \in SetToSeqs(Entries(found.names)),
                 \/ /\ config_getIndexFile(index, found.names, entries) # NoPath
                    /\ AnswerFile(config_getIndexFile(index, found.names, entries))
                 \/ /\ config_getIndexFile(index, found.names, entries) = NoPath
                    /\ ManageFolder(found.names)
          PROVE  \/ Answer("forbidden") /\ ~NoIndexIn(found.names)
                 \/ /\ handler' = "response" /\ page' = Page("file")
                    /\ FirstIndex(found.names, served') /\ ~NoIndexIn(found.names)
                 \/ ManageFolder(found.names) /\ NoIndexIn(found.names)
      <4> DEFINE file == config_getIndexFile(index, found.names, entries)
      <4>1. /\ file = NoPath => NoIndexIn(found.names)
            /\ file # NoPath => FirstIndex(found.names, file) /\ ~NoIndexIn(found.names)
        BY <1>2, <2>3, FolderPlace
      <4> HIDE DEF file
      <4> QED BY <3>2, <4>1 DEF AnswerFile, file
    <3>3. CASE Answer("forbidden") /\ ~NoIndexIn(found.names)
      BY <1>3, <2>3, <3>3 DEF Manageable
    <3>4. CASE /\ handler' = "response" /\ page' = Page("file")
               /\ FirstIndex(found.names, served') /\ ~NoIndexIn(found.names)
      BY <1>4, <2>3, <3>4 DEF Manageable, found
    <3>5. CASE Tree[found.names].readable /\ ManageFolder(found.names) /\ NoIndexIn(found.names)
      BY <1>4, <2>3, <3>5 DEF Manageable, ManageFolder, found
    <3> QED BY <2>3, <3>1, <3>2, <3>3, <3>4, <3>5 DEF OpenFolder
  <2>4. CASE found.kind = "shares" /\ Last(path) = Empty /\ ManageFolder(NoPath)
    BY <1>2, <1>4, <2>4 DEF Manageable, ManageFolder, found
  <2>5. CASE found.kind = "file" /\ AnswerFile(found.names)
    <3>1. CASE Answer("forbidden") BY <1>3, <2>5, <3>1 DEF Manageable
    <3>2. CASE handler' = "response" /\ page' = Page("file") /\ served' = found.names
      BY <1>4, <2>5, <3>2 DEF Manageable, found
    <3> QED BY <2>5, <3>1, <3>2 DEF AnswerFile
  <2>6. CASE found.kind = "program" /\ RunProgram(found)
    BY <1>4, <2>6 DEF Manageable, RunProgram, found
  <2> QED BY <1>4, <2>1, <2>2, <2>3, <2>4, <2>5, <2>6 DEF Process, found
<1>5. \/ (\E kind : Answer(kind)) /\ ~(MayServe /\ method = "POST" /\ ~GoesUp)
      \/ MayServe /\ ~GoesUp /\ Process
  BY DEF EndHead
<1> QED BY <1>3, <1>4, <1>5 DEF Manageable

\* What the end of the header decides is found in the share, and a form finds the folder
\* it comes from.
LEMMA HeadPlace ==
  ASSUME Inv, ConfigInv, PlaceInv, EndHead
  PROVE  PlaceInv'
<1> DEFINE found == Lookup(path)
<1>1. /\ section = "head" /\ section' = "body"
      /\ UNCHANGED <<options, request, auths, loginState, folder>>
  BY DEF EndHead
<1>2. handler = "none" /\ served = NoPath /\ page = Page("none") BY <1>1 DEF Inv, Decided
<1>3. /\ UNCHANGED <<shares, index, cgi, path>>
      /\ UNCHANGED <<method, form, shown, availOps, guestOps>>
  BY <1>1 DEF options, request
<1>4. /\ Lookup(path)' = Lookup(path)
      /\ \A any : Manageable(any)' <=> Manageable(any)
      /\ \A names, file : FirstIndex(names, file)' <=> FirstIndex(names, file)
  BY <1>3, LookupStays
<1>5. /\ Accepted' <=> Accepted
      /\ MayBeServed => MayBeServed'
  <2>1. /\ Accepted => Accepted'
        /\ MayBeServed => MayBeServed'
        /\ auths # <<>> => (Accepted' <=> Accepted)
    BY <1>1, LoginStays
  <2> QED BY <1>1, <2>1 DEF Accepted
<1>6. /\ \/ handler' # "filemgr" /\ served' = NoPath
         \/ handler' = "filemgr" /\ Manageable(found) /\ MayServe /\ served' = found.names
         \/ /\ handler' \in {"response", "cgiexe"} /\ ~GoesUp /\ MayServe
            /\ \/ /\ found.kind = "folder" /\ page' = Page("file")
                  /\ Last(path) = Empty /\ FirstIndex(found.names, served')
               \/ found.kind = "file" /\ page' = Page("file") /\ served' = found.names
               \/ /\ found.kind = "program" /\ page' = Page("program")
                  /\ served' = found.names /\ scriptName' = found.url
      /\ MayServe /\ method = "POST" /\ Manageable(found) => handler' = "filemgr"
  BY <1>2, HeadDecides DEF ConfigInv
<1>7. /\ MayServe => MayBeServed
      /\ MayBeServed /\ (auths = <<>> \/ Accepted) => MayServe
  BY DEF Inv, TypeOK, Login, MayServe, MayBeServed, isActionAllowed, isActionAvailable, Accepted
<1>8. GoesUp' <=> GoesUp BY <1>3 DEF GoesUp
<1> HIDE DEF found
<1>9. page'.shows = {}
  <2>1. page' \in {page} \union {Page(kind) : kind \in {page'.kind}}
    BY DEF EndHead, Process, OpenFolder, AnswerFile, Answer, RunProgram, ManageFolder, Page
  <2> QED BY <1>2, <2>1 DEF Page
<1>10. Placed'
  <2>1. CASE handler' # "filemgr" /\ served' = NoPath BY <2>1 DEF Placed
  <2>2. CASE handler' = "filemgr" /\ Manageable(found) /\ MayServe /\ served' = found.names
    BY <1>4, <1>5, <1>7, <2>2 DEF Placed, found
  <2>3. CASE /\ handler' # "filemgr" /\ ~GoesUp
             /\ \/ /\ found.kind = "folder" /\ page' = Page("file")
                   /\ Last(path) = Empty /\ FirstIndex(found.names, served')
                \/ found.kind = "file" /\ page' = Page("file") /\ served' = found.names
                \/ /\ found.kind = "program" /\ page' = Page("program")
                   /\ served' = found.names /\ scriptName' = found.url
    <3>1. page' \in {Page("file"), Page("program")} /\ page' = Page(page'.kind)
      BY <2>3 DEF Page
    <3>2. \A names : FirstIndex(names, served') => FirstIndex(names, served)'
      BY <1>3 DEF FirstIndex
    <3>3. \A any : any = found => Answered(any)'
      BY <1>3, <1>8, <2>3, <3>1, <3>2 DEF Answered, Page
    <3> QED BY <1>4, <2>3, <3>3 DEF Placed, found
  <2> QED BY <1>6, <2>1, <2>2, <2>3
<1>11. Forms'
  <2>1. shown' # {} => /\ Manageable(found)' /\ MayBeServed'
                       /\ method' = "POST" /\ form' \in {"do_login", "do_upload", "do_change"}
    BY <1>3, <1>4, <1>5 DEF PlaceInv, Forms, found
  <2>2. shown' # {} /\ form' # "do_login" =>
          availOps' = "all" /\ (Accepted' \/ guestOps' = "all") /\ found.kind = "folder"
    BY <1>3, <1>5 DEF PlaceInv, Forms, found
  <2>3. shown' # {} /\ (auths' = <<>> \/ Accepted') => handler' = "filemgr"
    BY <1>1, <1>3, <1>5, <1>6, <1>7 DEF PlaceInv, Forms, found
  <2> QED BY <1>1, <1>4, <1>9, <2>1, <2>2, <2>3 DEF Forms, found
<1>12. OwnForms' BY <1>1 DEF OwnForms
<1> QED BY <1>10, <1>11, <1>12 DEF PlaceInv

\* The page of a form is no refusal that its own page does not lead to.
LEMMA CompletePlace ==
  ASSUME Inv, ConfigInv, PlaceInv, Complete
  PROVE  PlaceInv'
<1> DEFINE found == Lookup(path)
<1>1. /\ section = "body" /\ section' = "finished"
      /\ UNCHANGED <<options, request, auths, loginState, handler, served, scriptName, destDir>>
  BY DEF Complete
<1>2. /\ UNCHANGED <<shares, index, cgi, path>>
      /\ UNCHANGED <<method, form, shown, availOps, guestOps>>
  BY <1>1 DEF options, request
<1>3. /\ Lookup(path)' = Lookup(path)
      /\ \A any : Manageable(any)' <=> Manageable(any)
      /\ \A names, file : FirstIndex(names, file)' <=> FirstIndex(names, file)
  BY <1>2, LookupStays
<1>4. /\ Accepted' <=> Accepted
      /\ MayBeServed => MayBeServed'
  <2>1. /\ Accepted => Accepted'
        /\ MayBeServed => MayBeServed'
        /\ auths # <<>> => (Accepted' <=> Accepted)
    BY <1>1, LoginStays
  <2> QED BY <1>1, <2>1 DEF Accepted
<1>5. GoesUp' <=> GoesUp BY <1>2 DEF GoesUp
<1>6. handler # "filemgr" => page' = page BY DEF Complete
<1>7. "controls" \in page'.shows => "controls" \in page.shows \/ served # NoPath
  BY DEF Complete, FolderPage, LoginButton, Shown, Controls, Page
<1>8. Placed'
  <2>1. handler # "filemgr" => \A any : Answered(any) => Answered(any)'
    BY <1>1, <1>2, <1>3, <1>5, <1>6 DEF Answered
  <2> QED BY <1>1, <1>3, <1>4, <2>1 DEF PlaceInv, Placed
<1>9. Forms' BY <1>1, <1>2, <1>3, <1>4, <1>7 DEF PlaceInv, Forms
<1>10. ASSUME shown # {}, auths = <<>> \/ Accepted
       PROVE  /\ page'.kind # "crash"
              /\ page'.kind = "unauthorized" <=> form = "do_login" /\ ~Accepted
  <2>1. /\ handler = "filemgr" /\ method = "POST"
        /\ form \in {"do_login", "do_upload", "do_change"}
        /\ form # "do_login" => /\ availOps = "all" /\ (Accepted \/ guestOps = "all")
                                /\ found.kind = "folder"
    BY <1>1, <1>10 DEF PlaceInv, Forms
  <2>2. served = found.names BY <2>1 DEF PlaceInv, Placed
  <2>3. loginState = "LOGGED_IN" <=> Accepted
    BY DEF Inv, TypeOK, Login, Accepted
  <2>4. form # "do_login" => isActionAllowed("MODIFY")
    BY <2>1, <2>3 DEF isActionAllowed, isActionAvailable
  <2>5. RequiresAuth <=> form = "do_login" /\ ~Accepted
    BY <2>1, <2>3, <2>4 DEF RequiresAuth
  <2>6. ~Crashes
    <3>1. found.kind = "folder" => found.names # NoPath
      <4>1. shares \in Seq(Share) /\ path \in Path BY DEF ConfigInv, Configured
      <4> QED BY <4>1, LookupIs
    <3> QED BY <2>1, <2>2, <3>1 DEF Crashes
  <2>7. FolderPage.kind \in {"not_found", "missing", "listing"} BY DEF FolderPage, Page
  <2>8. page' = IF RequiresAuth THEN Page("unauthorized") ELSE FolderPage
    BY <2>1, <2>6 DEF Complete
  <2> QED BY <2>5, <2>7, <2>8 DEF Page
<1>11. OwnForms' BY <1>1, <1>2, <1>4, <1>10 DEF OwnForms
<1> QED BY <1>8, <1>9, <1>11 DEF PlaceInv

\* All three invariants hold together; the third needs the other two.
LEMMA PlaceInvariance == Spec => [](Inv /\ ConfigInv /\ PlaceInv)
<1>1. ASSUME Inv, Inv', ConfigInv, PlaceInv, [Next]_vars PROVE PlaceInv'
  BY <1>1, ConfigPlace, LinePlace, HeadPlace, CompletePlace, FormPlace, StutterPlace DEF Next
<1> QED BY <1>1, InitPlace, Invariance, ConfigInvariance, PTL DEF Spec

\* The rest of a path behind its share's URL does not go up where the path does not.
LEMMA RestStays ==
  ASSUME NEW url \in Path, Begins(url, path), path \in Path, ~GoesUp,
         NEW m \in Nat, m > 0
  PROVE  LET rest == SubSeq(url, m + 1, Len(url))
         IN \A k \in DOMAIN rest : rest[k] # ".."
<1> DEFINE rest == SubSeq(url, m + 1, Len(url))
<1>1. url \in Seq(STRING) BY DEF Path
<1>2. /\ rest \in Seq(STRING)
      /\ \A k \in 1 .. Len(rest) : m + k \in 1 .. Len(url) /\ rest[k] = url[m + k]
  BY <1>1, RestOf
<1>3. DOMAIN rest = 1 .. Len(rest) /\ Len(rest) \in Nat BY <1>2, LenProperties
<1> HIDE DEF rest
<1> SUFFICES ASSUME NEW k \in 1 .. Len(rest) PROVE rest[k] # ".."
  BY <1>3 DEF rest
<1>4. m + k \in 2 .. Len(url)
  <2>1. m + k \in 1 .. Len(url) /\ Len(url) \in Nat BY <1>2 DEF Begins
  <2>2. k \in Nat /\ k > 0 BY <1>3
  <2> QED BY <2>1, <2>2
<1>5. url[m + k] = path[m + k] /\ m + k \in 2 .. Len(path) BY <1>4 DEF Begins
<1>6. path[m + k] # ".." BY <1>5 DEF GoesUp
<1> QED BY <1>2, <1>5, <1>6

\* What ServedFromBestShare says of a URL and what is served for it.
InBestShare(url, any) ==
  LET begins(i) == IsPrefix(shares[i].url, url)
  IN \E i \in DOMAIN shares :
       LET rest == SubSeq(url, Len(shares[i].url) + 1, Len(url))
           named == Names(shares[i].sys \o rest)
       IN /\ begins(i)
          /\ \A j \in DOMAIN shares :
               begins(j) => Len(shares[j].url) <= Len(shares[i].url)
          /\ \/ any = named
             \/ Last(path) = Empty /\ page.kind = "file" /\ Front(any) = named
          /\ \A k \in DOMAIN rest : rest[k] # ".."

\* What is found lies in the best share.
LEMMA FoundInShare ==
  ASSUME Configured, ~GoesUp, NEW url \in Path, Begins(url, path), NEW names, NamedBy(url, names),
         NEW any, any = names \/ (Last(path) = Empty /\ page.kind = "file" /\ Front(any) = names)
  PROVE  InBestShare(url, any)
<1>1. PICK i \in DOMAIN shares :
        /\ Best(shares, url, i)
        /\ names = Names(shares[i].sys \o SubSeq(url, Len(shares[i].url) + 1, Len(url)))
  BY DEF NamedBy
<1> DEFINE rest == SubSeq(url, Len(shares[i].url) + 1, Len(url))
<1>2. Len(shares[i].url) \in Nat /\ Len(shares[i].url) > 0 BY SharesAre DEF Configured
<1>3. \A k \in DOMAIN rest : rest[k] # ".." BY <1>2, RestStays DEF Configured
<1> HIDE DEF rest
<1>4. /\ IsPrefix(shares[i].url, url)
      /\ \A j \in DOMAIN shares :
           IsPrefix(shares[j].url, url) => Len(shares[j].url) <= Len(shares[i].url)
  <2>1. \A j \in DOMAIN shares : Len(shares[j].url) \in Nat BY SharesAre DEF Configured
  <2> QED BY <1>1, <2>1 DEF Best
<1> QED BY <1>1, <1>3, <1>4 DEF rest, InBestShare

\* A file in a folder.
LEMMA InFolder ==
  ASSUME NEW names \in Real, NEW name \in Entries(names)
  PROVE  Front(Append(names, name)) = names /\ Last(Append(names, name)) = name
<1>1. name \in RealName BY EntriesAre
<1> DEFINE file == Append(names, name)
<1>2. /\ file \in Seq(RealName) /\ Len(file) = Len(names) + 1 /\ Len(names) \in Nat
      /\ file[Len(names) + 1] = name /\ file = names \o <<name>>
  BY <1>1, AppendProperties, AppendIsConcat, LenProperties DEF Real
<1>3. Last(file) = name
  <2> HIDE DEF file
  <2> QED BY <1>2 DEF Last
<1>4. Front(file) = names
  <2>1. Front(file) = SubSeq(file, 1, Len(names))
    <3>1. Len(file) - 1 = Len(names) BY <1>2
    <3> HIDE DEF file
    <3> QED BY <3>1 DEF Front
  <2>2. SubSeq(file, 1, Len(names)) = names
    <3>1. CASE names = <<>>
      <4>1. Len(names) = 0 BY <3>1, EmptySeq
      <4> QED BY <3>1, <4>1, SubSeqEmpty
    <3>2. CASE names # <<>>
      <4>1. 1 \in 1 .. Len(names) /\ Len(names) \in 1 .. Len(names) BY <1>2, <3>2, EmptySeq DEF Real
      <4>2. <<name>> \in Seq(RealName) BY <1>1, OneOrTwo
      <4>3. SubSeq(names \o <<name>>, 1, Len(names)) = SubSeq(names, 1, Len(names))
        BY <4>1, <4>2, SubSeqOfConcat1 DEF Real
      <4> QED BY <1>2, <4>3, SubSeqFull DEF Real
    <3> QED BY <3>1, <3>2
  <2> QED BY <2>1, <2>2
<1> QED BY <1>3, <1>4

\* What is served, run or managed lies in the best share for its URL.
THEOREM BestShareServes == Spec => []ServedFromBestShare
<1>1. ASSUME Inv, ConfigInv, PlaceInv PROVE ServedFromBestShare
  <2> SUFFICES ASSUME served # NoPath PROVE ServedFromBestShare
    BY DEF ServedFromBestShare
  <2> DEFINE found == Lookup(path)
             url == IF page.kind = "program" THEN scriptName ELSE path
  <2>1. shares \in Seq(Share) /\ path \in Path /\ Configured BY <1>1 DEF ConfigInv, Configured
  <2>2. /\ found.kind \in {"nothing", "shares"} => found.names = NoPath
        /\ found.kind \in {"folder", "file"} => NamedBy(path, found.names)
        /\ found.kind = "folder" => found.names \in Real
        /\ found.kind = "program" =>
             NamedBy(found.url, found.names) /\ Begins(found.url, path)
    BY <2>1, LookupIs
  <2>3. Begins(path, path)
    <3>1. Len(path) \in Nat BY <2>1, LenProperties DEF Path
    <3> QED BY <2>1, <3>1 DEF Begins
  <2>4. /\ ~GoesUp /\ url \in Path /\ Begins(url, path) /\ NamedBy(url, found.names)
        /\ \/ served = found.names
           \/ Last(path) = Empty /\ page.kind = "file" /\ Front(served) = found.names
    <3>1. CASE handler = "filemgr"
      <4>1. ~GoesUp /\ found.kind = "folder" /\ served = found.names
        BY <1>1, <2>2, <3>1 DEF PlaceInv, Placed, Manageable
      <4>2. page.kind # "program" BY <1>1, <3>1 DEF Inv, Decided
      <4> HIDE DEF found
      <4> QED BY <2>1, <2>2, <2>3, <4>1, <4>2
    <3>2. CASE handler # "filemgr"
      <4>1. Answered(found) BY <1>1, <3>2 DEF PlaceInv, Placed
      <4> HIDE DEF found
      <4>2. found.kind = "folder" /\ FirstIndex(found.names, served) =>
              Front(served) = found.names
        BY <2>2, InFolder DEF FirstIndex
      <4> QED BY <2>1, <2>2, <2>3, <4>1, <4>2 DEF Answered, Begins
    <3> QED BY <3>1, <3>2
  <2> HIDE DEF found, url
  <2>5. InBestShare(url, served) BY <2>1, <2>4, FoundInShare
  <2> QED BY <2>5 DEF ServedFromBestShare, InBestShare, url
<1> QED BY <1>1, PlaceInvariance, PTL

\* The index file that is served is the first one, and a folder with one is not managed.
THEOREM IndexFirst == Spec => []IndexIsFirst
<1>1. ASSUME Inv, ConfigInv, PlaceInv PROVE IndexIsFirst
  <2> DEFINE found == Lookup(path)
             rank == IF page.kind = "file" THEN Rank(Last(served)) ELSE Len(index) + 1
  <2> SUFFICES ASSUME served # NoPath, found.kind = "folder",
                      NEW name \in Entries(found.names), IsFile(Append(found.names, name))
               PROVE  rank <= Rank(name)
    BY DEF IndexIsFirst
  <2>1. shares \in Seq(Share) /\ path \in Path /\ index \in Seq(SUBSET STRING)
    BY <1>1 DEF ConfigInv, Configured
  <2>2. found.names \in Real BY <2>1, LookupIs
  <2>3. \A n : Rank(n) = IndexRank(index, n) BY DEF Rank, IndexRank
  <2>4. CASE handler = "filemgr"
    <3>1. NoIndexIn(found.names) BY <1>1, <2>4 DEF PlaceInv, Placed, Manageable
    <3>2. page.kind # "file" BY <1>1, <2>4 DEF Inv, Decided
    <3>3. IndexRank(index, name) = Len(index) + 1 BY <3>1 DEF NoIndexIn
    <3>4. Len(index) \in Nat BY <2>1, LenProperties
    <3> QED BY <2>3, <3>2, <3>3, <3>4
  <2>5. CASE handler # "filemgr"
    <3>1. page.kind = "file" /\ FirstIndex(found.names, served)
      BY <1>1, <2>5 DEF PlaceInv, Placed, Answered
    <3> HIDE DEF found
    <3>2. PICK best \in Entries(found.names) :
            /\ served = Append(found.names, best)
            /\ \A n \in Entries(found.names) :
                 IsFile(Append(found.names, n)) => IndexRank(index, best) <= IndexRank(index, n)
      BY <3>1 DEF FirstIndex
    <3>3. Last(served) = best BY <2>2, <3>2, InFolder
    <3> QED BY <2>3, <3>1, <3>2, <3>3
  <2> QED BY <2>4, <2>5
<1> QED BY <1>1, PlaceInvariance, PTL

\* Every entry of a list of shares leads to something, for shares that are plain
\* (PlainShares, the three conditions of EntryLeads).
THEOREM ListedReachable == Spec => []ListedIsReachable
<1>1. ASSUME Inv, ConfigInv, PlaceInv PROVE ListedIsReachable
  <2> SUFFICES ASSUME page.kind = "listing", served = NoPath, PlainShares,
                      NEW entry \in config_getSubSharesForPath(shares, path)
               PROVE  Lookup(Linked(entry)).kind # "nothing"
    BY DEF ListedIsReachable
  <2>1. shares \in Seq(Share) /\ path \in Path BY <1>1 DEF ConfigInv, Configured
  <2>2. handler = "filemgr"
    BY <1>1 DEF Inv, Decided, TypeOK, Page
  <2>3. Lookup(path).kind = "shares"
    <3>1. Lookup(path).kind = "folder" => Lookup(path).names # NoPath BY <2>1, LookupIs
    <3> QED BY <1>1, <2>2, <3>1 DEF PlaceInv, Placed, Manageable
  <2>4. \A i \in DOMAIN shares : ~IsPrefix(shares[i].url, path) BY <2>1, <2>3, LookupIs
  <2>5. Plain(shares) BY DEF PlainShares, Plain
  <2> DEFINE link == Link(path, entry)
             sysPath == config_getSysPathForUrlPath(shares, link)
  <2>6. IF sysPath = NoPath THEN config_getSubSharesForPath(shares, link) # {}
        ELSE stat(sysPath) \in {"dir", "file"}
    BY <2>1, <2>4, <2>5, EntryLeads DEF Path
  <2>7. Linked(entry) = link BY DEF Linked, Link
  <2> HIDE DEF link
  <2>8. Lookup(link).kind # "nothing" BY <2>6 DEF Lookup, Found
  <2> QED BY <2>7, <2>8
<1> QED BY <1>1, PlaceInvariance, PTL

\* A form of a page can be sent.
THEOREM OwnFormsAccepted == Spec => []OwnFormsWork
<1>1. ConfigInv /\ PlaceInv => OwnFormsWork
  <2>1. (auths = <<>> => ~Accepted /\ ~LoggedIn) /\ (Known => LoggedIn)
    BY DEF Accepted, LoggedIn, Known
  <2> QED BY <2>1, KnownAccepted DEF PlaceInv, OwnForms, OwnFormsWork
<1> QED BY <1>1, PlaceInvariance, PTL
=============================================================================
