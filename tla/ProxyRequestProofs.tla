------------------------- MODULE ProxyRequestProofs -------------------------
(***************************************************************************)
(* For any schedule, requests, keys and answers: what is recorded of a     *)
(* request, and that a circuit which waits for a probe has one under way.  *)
(***************************************************************************)
EXTENDS ProxyRequest, BreakerEntryProofs, SequenceTheorems, DataLemmas

(***************************************************************************)
(* Part one: whatever the affinity cache holds, the plan of a request      *)
(* names the candidates of the schedule, all of them and no others.        *)
(***************************************************************************)

(* The recursive function inside Those exists.                             *)
Picks(s, S, n, f) ==
  f = [i \in 0..n |->
         IF i = 0 THEN <<>>
         ELSE f[i - 1] \o (IF s[i] \in S THEN <<s[i]>> ELSE <<>>)]

LEMMA PicksExist ==
  ASSUME NEW s, NEW S
  PROVE  \A n \in Nat : \E f : Picks(s, S, n, f)
<1> DEFINE part(i) == IF s[i] \in S THEN <<s[i]>> ELSE <<>>
           T == {n \in Nat : \E f : Picks(s, S, n, f)}
<1>0. \A n, f : Picks(s, S, n, f) <=>
        f = [i \in 0..n |-> IF i = 0 THEN <<>> ELSE f[i - 1] \o part(i)]
  BY DEF Picks
<1> HIDE DEF part
<1>1. 0 \in T
  <2> DEFINE e == [i \in 0..0 |-> <<>>]
  <2>1. e = [i \in 0..0 |-> IF i = 0 THEN <<>> ELSE e[i - 1] \o part(i)]
    <3>1. \A i \in 0..0 : i = 0
      OBVIOUS
    <3> QED
      BY <3>1
  <2>2. Picks(s, S, 0, e)
    BY <1>0, <2>1
  <2> QED
    BY <2>2
<1>2. ASSUME NEW n \in Nat, n \in T PROVE n + 1 \in T
  <2>1. PICK f : f = [i \in 0..n |-> IF i = 0 THEN <<>> ELSE f[i - 1] \o part(i)]
    BY <1>0, <1>2
  <2> DEFINE g == [i \in 0..n + 1 |-> IF i <= n THEN f[i] ELSE f[n] \o part(n + 1)]
  <2>2. DOMAIN g = 0..n + 1
    OBVIOUS
  <2>3. ASSUME NEW i \in 0..n + 1
        PROVE  g[i] = IF i = 0 THEN <<>> ELSE g[i - 1] \o part(i)
    <3>1. i <= n \/ i = n + 1
      OBVIOUS
    <3>2. CASE i <= n
      <4>1. i \in 0..n /\ g[i] = f[i]
        BY <3>2
      <4>2. f[i] = IF i = 0 THEN <<>> ELSE f[i - 1] \o part(i)
        BY <2>1, <4>1
      <4>3. CASE i = 0
        BY <4>1, <4>2, <4>3
      <4>4. CASE i # 0
        <5>1. i - 1 \in 0..n + 1 /\ i - 1 <= n
          BY <4>1, <4>4
        <5>2. g[i - 1] = f[i - 1]
          BY <5>1
        <5> HIDE DEF g
        <5> QED
          BY <4>1, <4>2, <4>4, <5>2
      <4> QED
        BY <4>3, <4>4
    <3>3. CASE i = n + 1
      <4>0. ~ (i <= n)
        BY <3>3
      <4>1. g[i] = f[n] \o part(n + 1)
        BY <4>0
      <4>2. n \in 0..n + 1 /\ i - 1 = n /\ i # 0
        BY <3>3
      <4>3. g[n] = f[n]
        BY <4>2
      <4> HIDE DEF g
      <4> QED
        BY <3>3, <4>1, <4>2, <4>3
    <3> QED
      BY <3>1, <3>2, <3>3
  <2>4. g = [i \in 0..n + 1 |-> IF i = 0 THEN <<>> ELSE g[i - 1] \o part(i)]
    <3>0. g = [i \in 0..n + 1 |-> g[i]]
      OBVIOUS
    <3> HIDE DEF g
    <3> QED
      BY <2>2, <2>3, <3>0
  <2> HIDE DEF g
  <2>5. Picks(s, S, n + 1, g)
    BY <1>0, <2>4
  <2> QED
    BY <2>5
<1> HIDE DEF T
<1>3. Nat \subseteq T
  BY <1>1, <1>2, Induction
<1> QED
  BY <1>3 DEF T

(* A partition's part holds the elements of the sequence that are in it.   *)
LEMMA ThoseRange ==
  ASSUME NEW A, NEW s \in Seq(A), NEW S
  PROVE  /\ Those(s, S) \in Seq(A)
         /\ \A x : x \in ToSet(Those(s, S)) <=> x \in ToSet(s) /\ x \in S
<1> DEFINE N == Len(s)
           F == CHOOSE f : Picks(s, S, N, f)
           part(i) == IF s[i] \in S THEN <<s[i]>> ELSE <<>>
           Good(i) == /\ F[i] \in Seq(A)
                      /\ \A x : x \in ToSet(F[i]) <=>
                                  x \in S /\ \E j \in 1..i : x = s[j]
           T == {n \in Nat : n \in 0..N => Good(n)}
<1>1. N \in Nat /\ DOMAIN s = 1..N
  OBVIOUS
<1>2. Those(s, S) = F[N]
  BY DEF Those, Picks
<1>3. Picks(s, S, N, F)
  BY <1>1, PicksExist
<1>4. \A i \in 0..N : F[i] = IF i = 0 THEN <<>> ELSE F[i - 1] \o part(i)
  <2> HIDE DEF F
  <2> QED
    BY <1>3 DEF Picks
<1>5. \A i \in 1..N : /\ s[i] \in A /\ part(i) \in Seq(A)
                      /\ \A x : x \in ToSet(part(i)) <=> x \in S /\ x = s[i]
  <2> SUFFICES ASSUME NEW i \in 1..N
               PROVE  /\ s[i] \in A /\ part(i) \in Seq(A)
                      /\ \A x : x \in ToSet(part(i)) <=> x \in S /\ x = s[i]
    OBVIOUS
  <2>1. s[i] \in A
    OBVIOUS
  <2>2. ToSet(<<>>) = {} /\ ToSet(<<s[i]>>) = {s[i]}
    BY DEF ToSet
  <2> QED
    BY <2>1, <2>2
<1> HIDE DEF F, N, part
<1>6. 0 \in T
  <2>1. 0 \in 0..N
    BY <1>1
  <2>2. F[0] = <<>>
    BY <1>4, <2>1
  <2>3. ToSet(<<>>) = {} /\ <<>> \in Seq(A)
    BY DEF ToSet
  <2>4. \A x : ~ (\E j \in 1..0 : x = s[j])
    OBVIOUS
  <2> QED
    BY <2>2, <2>3, <2>4
<1>7. ASSUME NEW n \in Nat, n \in T PROVE n + 1 \in T
  <2> SUFFICES ASSUME n + 1 \in 0..N PROVE Good(n + 1)
    OBVIOUS
  <2>1. n \in 0..N /\ n + 1 \in 1..N /\ n + 1 # 0 /\ (n + 1) - 1 = n
    BY <1>1
  <2>2. F[n + 1] = F[n] \o part(n + 1)
    BY <1>4, <2>1
  <2>3. Good(n)
    BY <1>7, <2>1
  <2>4. /\ F[n + 1] \in Seq(A)
        /\ \A x : x \in ToSet(F[n + 1]) <=> x \in ToSet(F[n]) \/ x \in ToSet(part(n + 1))
    BY <1>5, <2>1, <2>2, <2>3, ConcatRange
  <2>5. \A j : j \in 1..n + 1 <=> j \in 1..n \/ j = n + 1
    OBVIOUS
  <2>6. \A x : x \in ToSet(part(n + 1)) <=> x \in S /\ x = s[n + 1]
    BY <1>5, <2>1
  <2> QED
    BY <2>3, <2>4, <2>5, <2>6
<1>8. Nat \subseteq T
  <2> HIDE DEF T
  <2> QED
    BY <1>6, <1>7, Induction
<1>9. Good(N)
  <2>1. N \in T
    <3> HIDE DEF T
    <3> QED
      BY <1>1, <1>8
  <2>2. N \in 0..N
    BY <1>1
  <2> QED
    BY <2>1, <2>2
<1>10. \A x : x \in ToSet(s) <=> \E j \in 1..N : x = s[j]
  BY <1>1 DEF ToSet
<1> QED
  BY <1>2, <1>9, <1>10

(* What can be reached through the maps of a model.                        *)
Reaches(maps, provider, credential) ==
  \E map \in ToSet(maps) :
    map.provider = provider /\ credential \in ToSet(map.credentials)

CandidateRecord == [model : STRING, provider : STRING, credential : Nat]

LEMMA RangeFacts ==
  ASSUME NEW A, NEW s \in Seq(A)
  PROVE  /\ DOMAIN s = 1..Len(s) /\ Len(s) \in Nat
         /\ ToSet(s) \subseteq A
         /\ \A x : x \in ToSet(s) <=> \E i \in 1..Len(s) : x = s[i]
BY DEF ToSet

LEMMA OfModelRange ==
  ASSUME NEW m \in ModelScheduleInfo
  PROVE  /\ OfModel(m) \in Seq(CandidateRecord)
         /\ \A c : c \in ToSet(OfModel(m)) <=>
                     /\ c \in CandidateRecord /\ c.model = m.model
                     /\ Reaches(m.maps, c.provider, c.credential)
<1> DEFINE maps == m.maps
           C(map, id) == [model |-> m.model, provider |-> map.provider, credential |-> id]
           parts == [i \in DOMAIN maps |-> OfMap(m, maps[i])]
<1>1. maps \in Seq(ModelProviderMap) /\ m.model \in STRING
  BY DEF ModelScheduleInfo
<1>2. ASSUME NEW map \in ModelProviderMap
      PROVE  /\ OfMap(m, map) \in Seq(CandidateRecord)
             /\ \A c : c \in ToSet(OfMap(m, map)) <=>
                         \E id \in ToSet(map.credentials) : c = C(map, id)
  <2> DEFINE ids == map.credentials
             cs == OfMap(m, map)
  <2>1. ids \in Seq(Nat) /\ map.provider \in STRING
    BY DEF ModelProviderMap
  <2>2. /\ DOMAIN ids = 1..Len(ids) /\ Len(ids) \in Nat
        /\ \A x : x \in ToSet(ids) <=> \E i \in 1..Len(ids) : x = ids[i]
    BY <2>1, RangeFacts
  <2>3. cs = [i \in 1..Len(ids) |-> C(map, ids[i])]
    BY <2>2 DEF OfMap
  <2>4. \A i \in 1..Len(ids) : ids[i] \in Nat
    BY <2>1
  <2>5. \A i \in 1..Len(ids) : C(map, ids[i]) \in CandidateRecord
    BY <1>1, <2>1, <2>4 DEF CandidateRecord
  <2> HIDE DEF ids, cs, C
  <2>6. cs \in Seq(CandidateRecord) /\ DOMAIN cs = 1..Len(ids)
    BY <2>2, <2>3, <2>5
  <2>7. \A c : c \in ToSet(cs) <=> \E i \in 1..Len(ids) : c = C(map, ids[i])
    BY <2>3, <2>6 DEF ToSet
  <2>8. \A c : c \in ToSet(cs) <=> \E id \in ToSet(ids) : c = C(map, id)
    BY <2>2, <2>7
  <2> QED
    BY <2>6, <2>8 DEF ids, cs
<1>3. /\ DOMAIN maps = 1..Len(maps) /\ Len(maps) \in Nat
      /\ \A x : x \in ToSet(maps) <=> \E i \in 1..Len(maps) : x = maps[i]
      /\ ToSet(maps) \subseteq ModelProviderMap
  BY <1>1, RangeFacts
<1>4. \A i \in 1..Len(maps) : maps[i] \in ModelProviderMap
  BY <1>3
<1> HIDE DEF maps
<1>5. parts \in Seq(Seq(CandidateRecord)) /\ Len(parts) = Len(maps)
  BY <1>2, <1>3, <1>4
<1>6. \A i \in 1..Len(maps) : parts[i] = OfMap(m, maps[i])
  BY <1>3
<1>7. OfModel(m) = FlattenSeq(parts)
  BY DEF OfModel, maps
<1> HIDE DEF parts, C
<1>8. /\ OfModel(m) \in Seq(CandidateRecord)
      /\ \A c : c \in ToSet(OfModel(m)) <=>
                  \E i \in 1..Len(maps) : c \in ToSet(OfMap(m, maps[i]))
  BY <1>5, <1>6, <1>7, FlattenRange
<1>9. \A c : c \in ToSet(OfModel(m)) <=>
               \E map \in ToSet(maps) : \E id \in ToSet(map.credentials) : c = C(map, id)
  BY <1>2, <1>3, <1>4, <1>8
<1>10. ASSUME NEW c, c \in ToSet(OfModel(m))
       PROVE  /\ c \in CandidateRecord /\ c.model = m.model
              /\ Reaches(maps, c.provider, c.credential)
  <2>1. c \in CandidateRecord
    BY <1>8, <1>10, RangeFacts
  <2>2. PICK map \in ToSet(maps) : \E id \in ToSet(map.credentials) : c = C(map, id)
    BY <1>9, <1>10
  <2>3. PICK id \in ToSet(map.credentials) : c = C(map, id)
    BY <2>2
  <2>4. c.model = m.model /\ c.provider = map.provider /\ c.credential = id
    BY <2>3 DEF C
  <2> QED
    BY <2>1, <2>4 DEF Reaches
<1>11. ASSUME NEW c \in CandidateRecord, c.model = m.model,
              Reaches(maps, c.provider, c.credential)
       PROVE  c \in ToSet(OfModel(m))
  <2>1. PICK map \in ToSet(maps) :
          map.provider = c.provider /\ c.credential \in ToSet(map.credentials)
    BY <1>11 DEF Reaches
  <2>2. c = C(map, c.credential)
    BY <1>11, <2>1 DEF C, CandidateRecord
  <2> QED
    BY <1>9, <2>1, <2>2
<1> QED
  BY <1>8, <1>10, <1>11 DEF maps

(* What can be reached through a schedule.                                 *)
LEMMA CandidatesRange ==
  ASSUME NEW models \in Seq(ModelScheduleInfo)
  PROVE  /\ Candidates(models) \in Seq(CandidateRecord)
         /\ \A c : c \in ToSet(Candidates(models)) <=>
                     /\ c \in CandidateRecord
                     /\ \E m \in ToSet(models) :
                          /\ c.model = m.model
                          /\ Reaches(m.maps, c.provider, c.credential)
<1> DEFINE parts == [i \in DOMAIN models |-> OfModel(models[i])]
<1>1. /\ DOMAIN models = 1..Len(models) /\ Len(models) \in Nat
      /\ \A x : x \in ToSet(models) <=> \E i \in 1..Len(models) : x = models[i]
      /\ \A i \in 1..Len(models) : models[i] \in ModelScheduleInfo
  BY RangeFacts
<1>2. parts \in Seq(Seq(CandidateRecord)) /\ Len(parts) = Len(models)
  BY <1>1, OfModelRange
<1>3. \A i \in 1..Len(models) : parts[i] = OfModel(models[i])
  BY <1>1
<1>4. Candidates(models) = FlattenSeq(parts)
  BY DEF Candidates
<1> HIDE DEF parts
<1>5. /\ Candidates(models) \in Seq(CandidateRecord)
      /\ \A c : c \in ToSet(Candidates(models)) <=>
                  \E i \in 1..Len(models) : c \in ToSet(OfModel(models[i]))
  BY <1>2, <1>3, <1>4, FlattenRange
<1>6. \A c : c \in ToSet(Candidates(models)) <=>
               \E m \in ToSet(models) : c \in ToSet(OfModel(m))
  BY <1>1, <1>5
<1>7. \A m \in ToSet(models) : m \in ModelScheduleInfo
  BY <1>1
<1>8. \A c : c \in ToSet(Candidates(models)) <=>
               \E m \in ToSet(models) :
                  /\ c \in CandidateRecord /\ c.model = m.model
                  /\ Reaches(m.maps, c.provider, c.credential)
  BY <1>6, <1>7, OfModelRange
<1> QED
  BY <1>5, <1>8

(* A model that is rearranged leads to what it led to.                     *)
SameReach(m, n) ==
  /\ n \in ModelScheduleInfo /\ n.model = m.model
  /\ \A provider, credential :
       Reaches(n.maps, provider, credential) <=> Reaches(m.maps, provider, credential)

LEMMA PopRange ==
  ASSUME NEW A, NEW s \in Seq(A), \A x, y \in ToSet(s) : x = y
  PROVE  Pop(s) \in Seq(A) /\ \A x : x \in ToSet(Pop(s)) <=> x \in ToSet(s)
<1>1. CASE s = <<>>
  <2>1. Pop(s) = s
    BY <1>1 DEF Pop
  <2> QED
    BY <2>1
<1>2. CASE s # <<>>
  <2>1. Len(s) \in 1..Len(s) /\ Len(s) \in Nat
    BY <1>2
  <2>2. Last(s) = s[Len(s)] /\ s[Len(s)] \in A
    BY <2>1 DEF Last
  <2>3. Last(s) \in ToSet(s)
    BY <2>1, <2>2, RangeFacts
  <2>4. Pop(s) = <<Last(s)>>
    BY <1>2 DEF Pop
  <2>5. ToSet(<<Last(s)>>) = {Last(s)}
    BY DEF ToSet
  <2> QED
    BY <2>2, <2>3, <2>4, <2>5
<1> QED
  BY <1>1, <1>2

LEMMA ByTargetReach ==
  ASSUME NEW m \in ModelScheduleInfo, OneMapForEachCredential(m), NEW target
  PROVE  SameReach(m, ByTarget(m, target))
<1> DEFINE A == ModelProviderMap
           maps == m.maps
           same == SameProvider(target)
           holding == Affinity(target)
           hits == Those(maps, holding)
           near == Those(maps, same \ holding)
           rest == Those(maps, A \ same)
           ordered == TargetFirst(maps, target)
           n == ByTarget(m, target)
<1>1. maps \in Seq(A) /\ DOMAIN m = {"model", "maps"} /\ m.model \in STRING
      /\ m = [model |-> m.model, maps |-> maps]
  BY DEF ModelScheduleInfo
<1>2. /\ DOMAIN maps = 1..Len(maps)
      /\ ToSet(maps) \subseteq A
      /\ \A x : x \in ToSet(maps) <=> \E i \in 1..Len(maps) : x = maps[i]
  BY <1>1, RangeFacts
<1>3. holding \subseteq same /\ same \subseteq A
  BY DEF Affinity, SameProvider
<1>4. \A map \in holding : target.credential \in ToSet(map.credentials)
  BY DEF Affinity
<1>5. n = [model |-> m.model, maps |-> ordered]
  BY <1>1 DEF ByTarget
<1>6. ordered = (Pop(hits) \o near) \o rest
  BY DEF TargetFirst
<1>7. \A i, j \in DOMAIN maps :
        i # j => ToSet(maps[i].credentials) \cap ToSet(maps[j].credentials) = {}
  BY DEF OneMapForEachCredential
<1> HIDE DEF A, maps, same, holding, hits, near, rest, ordered, n
<1>8. /\ hits \in Seq(A)
      /\ \A x : x \in ToSet(hits) <=> x \in ToSet(maps) /\ x \in holding
  BY <1>1, ThoseRange DEF hits
<1>9. /\ near \in Seq(A)
      /\ \A x : x \in ToSet(near) <=> x \in ToSet(maps) /\ x \in same \ holding
  BY <1>1, ThoseRange DEF near
<1>10. /\ rest \in Seq(A)
       /\ \A x : x \in ToSet(rest) <=> x \in ToSet(maps) /\ x \in A \ same
  BY <1>1, ThoseRange DEF rest
<1>11. \A x, y \in ToSet(hits) : x = y
  <2> SUFFICES ASSUME NEW x \in ToSet(hits), NEW y \in ToSet(hits) PROVE x = y
    OBVIOUS
  <2>1. PICK i \in 1..Len(maps) : x = maps[i]
    BY <1>2, <1>8
  <2>2. PICK j \in 1..Len(maps) : y = maps[j]
    BY <1>2, <1>8
  <2>3. target.credential \in ToSet(x.credentials) \cap ToSet(y.credentials)
    BY <1>4, <1>8
  <2>4. i = j
    BY <1>2, <1>7, <2>1, <2>2, <2>3
  <2> QED
    BY <2>1, <2>2, <2>4
<1>12. Pop(hits) \in Seq(A) /\ \A x : x \in ToSet(Pop(hits)) <=> x \in ToSet(hits)
  BY <1>8, <1>11, PopRange
<1>13. /\ Pop(hits) \o near \in Seq(A)
       /\ \A x : x \in ToSet(Pop(hits) \o near) <=> x \in ToSet(Pop(hits)) \/ x \in ToSet(near)
  BY <1>9, <1>12, ConcatRange
<1>14. /\ ordered \in Seq(A)
       /\ \A x : x \in ToSet(ordered) <=>
                   x \in ToSet(Pop(hits) \o near) \/ x \in ToSet(rest)
  BY <1>6, <1>10, <1>13, ConcatRange
<1>15. \A x : x \in ToSet(ordered) <=> x \in ToSet(maps)
  BY <1>2, <1>3, <1>8, <1>9, <1>10, <1>12, <1>13, <1>14
<1>16. n \in ModelScheduleInfo /\ n.model = m.model /\ n.maps = ordered
  BY <1>1, <1>5, <1>14 DEF ModelScheduleInfo, A
<1>17. SameReach(m, n)
  BY <1>15, <1>16 DEF SameReach, Reaches, maps
<1> QED
  BY <1>17 DEF n

LEMMA SeqOverRange ==
  ASSUME NEW A, NEW s \in Seq(A), NEW B, ToSet(s) \subseteq B
  PROVE  s \in Seq(B)
<1>1. Len(s) \in Nat /\ s = [i \in 1..Len(s) |-> s[i]]
  OBVIOUS
<1>2. \A i \in 1..Len(s) : s[i] \in B
  BY RangeFacts
<1>3. s \in [1..Len(s) -> B]
  BY <1>1, <1>2
<1> QED
  BY <1>1, <1>3

LEMMA RangeFinite ==
  ASSUME NEW A, NEW s \in Seq(A)
  PROVE  IsFiniteSet(ToSet(s))
<1>1. s \in Surjection(1..Len(s), ToSet(s))
  BY RangeFacts DEF Surjection
<1>2. IsFiniteSet(1..Len(s))
  BY FS_Interval
<1> QED
  BY <1>1, <1>2, FS_Surjection

LEMMA ByLoadReach ==
  ASSUME NEW m \in ModelScheduleInfo, NEW load,
         \A map \in ToSet(m.maps) : \A id \in ToSet(map.credentials) : load[id] \in Nat
  PROVE  SameReach(m, ByLoad(m, load))
<1> DEFINE A == ModelProviderMap
           maps == m.maps
           Lighter(c, d) == load[c] < load[d] \/ (load[c] = load[d] /\ c < d)
           Sorted(ids) ==
             [k \in 1..Cardinality(ids) |->
                CHOOSE c \in ids : Cardinality({d \in ids : Lighter(d, c)}) = k - 1]
           Spread(map) == [map EXCEPT !.credentials = Sorted(ToSet(map.credentials))]
           spread == [i \in DOMAIN maps |-> Spread(maps[i])]
           n == ByLoad(m, load)
<1>1. maps \in Seq(A) /\ DOMAIN m = {"model", "maps"} /\ m.model \in STRING
      /\ m = [model |-> m.model, maps |-> maps]
  BY DEF ModelScheduleInfo
<1>2. n = [model |-> m.model, maps |-> spread]
  <2>1. n = [m EXCEPT !.maps = spread]
    BY DEF ByLoad
  <2> HIDE DEF spread, n
  <2> QED
    BY <1>1, <2>1
<1>3. ASSUME NEW ids \in SUBSET Nat, IsFiniteSet(ids), \A id \in ids : load[id] \in Nat
      PROVE  /\ Sorted(ids) \in Seq(ids)
             /\ \A x : x \in ToSet(Sorted(ids)) <=> x \in ids
  <2> DEFINE L == {pair \in ids \X ids : Lighter(pair[1], pair[2])}
  <2>1. \A c, d \in ids : <<c, d>> \in L <=> Lighter(c, d)
    OBVIOUS
  <2>2. \A c \in ids : {d \in ids : Lighter(d, c)} = Below(ids, L, c)
    <3> HIDE DEF L, Lighter
    <3> QED
      BY <2>1 DEF Below
  <2>3. \A c \in ids : <<c, c>> \notin L
    <3>1. \A c \in ids : ~Lighter(c, c)
      BY <1>3
    <3> HIDE DEF L, Lighter
    <3> QED
      BY <2>1, <3>1
  <2>4. \A b, c, d \in ids : <<b, c>> \in L /\ <<c, d>> \in L => <<b, d>> \in L
    <3>1. \A b, c, d \in ids : Lighter(b, c) /\ Lighter(c, d) => Lighter(b, d)
      BY <1>3
    <3> HIDE DEF L, Lighter
    <3> QED
      BY <2>1, <3>1
  <2>5. \A c, d \in ids : c # d => <<c, d>> \in L \/ <<d, c>> \in L
    <3>1. \A c, d \in ids : c # d => Lighter(c, d) \/ Lighter(d, c)
      BY <1>3
    <3> HIDE DEF L, Lighter
    <3> QED
      BY <2>1, <3>1
  <2> HIDE DEF L, Lighter
  <2>6. Sorted(ids) = InOrder(ids, L)
    <3>1. ASSUME NEW k
          PROVE  (CHOOSE c \in ids : Cardinality({d \in ids : Lighter(d, c)}) = k - 1)
               = (CHOOSE c \in ids : Rank(ids, L, c) = k - 1)
      BY <2>2 DEF Rank
    <3>2. ASSUME NEW k \in 1..Cardinality(ids)
          PROVE  Sorted(ids)[k] = InOrder(ids, L)[k]
      <4>1. Sorted(ids)[k] =
              CHOOSE c \in ids : Cardinality({d \in ids : Lighter(d, c)}) = k - 1
        OBVIOUS
      <4>2. InOrder(ids, L)[k] = CHOOSE c \in ids : Rank(ids, L, c) = k - 1
        BY DEF InOrder
      <4> HIDE DEF Sorted
      <4> QED
        BY <3>1, <4>1, <4>2
    <3>3. /\ Sorted(ids) = [k \in 1..Cardinality(ids) |-> Sorted(ids)[k]]
          /\ InOrder(ids, L) = [k \in 1..Cardinality(ids) |-> InOrder(ids, L)[k]]
      BY DEF InOrder
    <3> HIDE DEF Sorted
    <3> QED
      BY <3>2, <3>3
  <2> HIDE DEF Sorted
  <2> QED
    BY <1>3, <2>3, <2>4, <2>5, <2>6, InOrderRange
<1> HIDE DEF Sorted, Lighter, A, maps
<1>4. ASSUME NEW map \in ToSet(maps)
      PROVE  /\ Spread(map) \in A
             /\ Spread(map).provider = map.provider
             /\ ToSet(Spread(map).credentials) = ToSet(map.credentials)
  <2> DEFINE ids == ToSet(map.credentials)
  <2>1. map \in A
    BY <1>1, RangeFacts
  <2>2. map.credentials \in Seq(Nat) /\ map.provider \in STRING
        /\ map = [provider |-> map.provider, credentials |-> map.credentials]
    BY <2>1 DEF A, ModelProviderMap
  <2>3. ids \in SUBSET Nat /\ IsFiniteSet(ids) /\ \A id \in ids : load[id] \in Nat
    BY <1>4, <2>2, RangeFacts, RangeFinite DEF maps
  <2>4. /\ Sorted(ids) \in Seq(ids)
        /\ \A x : x \in ToSet(Sorted(ids)) <=> x \in ids
    BY <1>3, <2>3
  <2>5. Spread(map) = [provider |-> map.provider, credentials |-> Sorted(ids)]
    BY <2>2
  <2> HIDE DEF ids
  <2>6. Sorted(ids) \in Seq(Nat)
    <3> DEFINE s == Sorted(ids)
    <3>1. s \in Seq(ids)
      BY <2>4
    <3> HIDE DEF s
    <3>2. ToSet(s) \subseteq Nat
      BY <2>3, <3>1, RangeFacts
    <3> QED
      BY <3>1, <3>2, SeqOverRange DEF s
  <2>7. Spread(map) \in A
    BY <2>2, <2>5, <2>6 DEF A, ModelProviderMap
  <2>8. Spread(map).provider = map.provider /\ Spread(map).credentials = Sorted(ids)
    BY <2>5
  <2> QED
    BY <2>4, <2>7, <2>8 DEF ids
<1> HIDE DEF Spread
<1>5. /\ DOMAIN maps = 1..Len(maps) /\ Len(maps) \in Nat
      /\ \A i \in 1..Len(maps) : maps[i] \in ToSet(maps)
      /\ \A x : x \in ToSet(maps) <=> \E i \in 1..Len(maps) : x = maps[i]
  BY <1>1, RangeFacts
<1>6. /\ spread \in Seq(A)
      /\ \A x : x \in ToSet(spread) <=> \E i \in 1..Len(maps) : x = Spread(maps[i])
  <2>1. spread \in Seq(A) /\ DOMAIN spread = 1..Len(maps)
    BY <1>4, <1>5
  <2> QED
    BY <1>5, <2>1 DEF ToSet
<1>7. \A x : x \in ToSet(spread) <=> \E map \in ToSet(maps) : x = Spread(map)
  BY <1>5, <1>6
<1>8. n \in ModelScheduleInfo /\ n.model = m.model /\ n.maps = spread
  BY <1>1, <1>2, <1>6 DEF ModelScheduleInfo, A
<1> HIDE DEF spread, n
<1>9. ASSUME NEW p, NEW id PROVE Reaches(spread, p, id) <=> Reaches(maps, p, id)
  <2>1. Reaches(spread, p, id) <=>
          \E map \in ToSet(maps) :
             Spread(map).provider = p /\ id \in ToSet(Spread(map).credentials)
    BY <1>7 DEF Reaches
  <2> QED
    BY <1>4, <2>1 DEF Reaches
<1>10. SameReach(m, n)
  BY <1>8, <1>9 DEF SameReach, maps
<1> QED
  BY <1>10 DEF n

LEMMA ReorderedCandidates ==
  ASSUME NEW models \in Seq(ModelScheduleInfo), NEW other,
         other = [i \in DOMAIN models |-> other[i]],
         \A i \in DOMAIN models : SameReach(models[i], other[i])
  PROVE  /\ Candidates(other) \in Seq(CandidateRecord)
         /\ ToSet(Candidates(other)) = ToSet(Candidates(models))
<1>1. /\ DOMAIN models = 1..Len(models) /\ Len(models) \in Nat
      /\ \A x : x \in ToSet(models) <=> \E i \in 1..Len(models) : x = models[i]
  BY RangeFacts
<1>2. /\ other \in Seq(ModelScheduleInfo) /\ DOMAIN other = 1..Len(models)
  <2>1. \A i \in 1..Len(models) : other[i] \in ModelScheduleInfo
    BY <1>1 DEF SameReach
  <2>2. other \in [1..Len(models) -> ModelScheduleInfo]
    BY <1>1, <2>1
  <2> QED
    BY <1>1, <2>2
<1>3. \A x : x \in ToSet(other) <=> \E i \in 1..Len(models) : x = other[i]
  BY <1>2 DEF ToSet
<1>4. \A i \in 1..Len(models) :
        /\ other[i].model = models[i].model
        /\ \A p, id : Reaches(other[i].maps, p, id) <=> Reaches(models[i].maps, p, id)
  BY <1>1 DEF SameReach
<1>5. \A c : (\E m \in ToSet(models) : c.model = m.model /\ Reaches(m.maps, c.provider, c.credential))
         <=> (\E m \in ToSet(other) : c.model = m.model /\ Reaches(m.maps, c.provider, c.credential))
  <2> DEFINE In(m, c) == c.model = m.model /\ Reaches(m.maps, c.provider, c.credential)
  <2>1. ASSUME NEW c, NEW i \in 1..Len(models) PROVE In(models[i], c) <=> In(other[i], c)
    BY <1>4
  <2> HIDE DEF In
  <2>2. \A c : (\E m \in ToSet(models) : In(m, c)) <=> (\E m \in ToSet(other) : In(m, c))
    BY <1>1, <1>3, <2>1
  <2> QED
    BY <2>2 DEF In
<1>6. \A c : c \in ToSet(Candidates(other)) <=> c \in ToSet(Candidates(models))
  BY <1>2, <1>5, CandidatesRange
<1> QED
  BY <1>2, <1>6, CandidatesRange

LEMMA MergeRange ==
  ASSUME NEW models \in Seq(ModelScheduleInfo), NEW name
  PROVE  LET merged == MergePreferredFirst(models, name) IN
         /\ merged \in Seq(ModelScheduleInfo)
         /\ \A m : m \in ToSet(merged) <=> m \in ToSet(models)
<1> DEFINE preferred == {m \in ModelScheduleInfo : m.model = name}
           first == Those(models, preferred)
           rest == Those(models, ModelScheduleInfo \ preferred)
<1>1. MergePreferredFirst(models, name) = first \o rest
  BY DEF MergePreferredFirst
<1>2. ToSet(models) \subseteq ModelScheduleInfo
  BY RangeFacts
<1> HIDE DEF preferred
<1>3. /\ first \in Seq(ModelScheduleInfo)
      /\ \A x : x \in ToSet(first) <=> x \in ToSet(models) /\ x \in preferred
  BY ThoseRange
<1>4. /\ rest \in Seq(ModelScheduleInfo)
      /\ \A x : x \in ToSet(rest) <=> x \in ToSet(models) /\ x \in ModelScheduleInfo \ preferred
  BY ThoseRange
<1> HIDE DEF first, rest
<1>5. /\ first \o rest \in Seq(ModelScheduleInfo)
      /\ \A x : x \in ToSet(first \o rest) <=> x \in ToSet(first) \/ x \in ToSet(rest)
  BY <1>3, <1>4, ConcatRange
<1> QED
  BY <1>1, <1>2, <1>3, <1>4, <1>5

LEMMA ScheduleFacts ==
  /\ Candidates(Schedule) \in Seq(CandidateRecord)
  /\ Candidate \subseteq CandidateRecord
  /\ Credentials \subseteq Nat
  /\ \A m \in ToSet(Schedule), map \in ModelProviderMap :
       map \in ToSet(m.maps) => ToSet(map.credentials) \subseteq Credentials
<1>1. Schedule \in Seq(ModelScheduleInfo)
  BY ScheduleAssumption
<1>2. Candidates(Schedule) \in Seq(CandidateRecord)
  BY <1>1, CandidatesRange
<1>3. Candidate \subseteq CandidateRecord
  BY <1>2, RangeFacts DEF Candidate
<1>4. Credentials \subseteq Nat
  BY <1>3 DEF Credentials, CandidateRecord
<1>5. ASSUME NEW m \in ToSet(Schedule), NEW map \in ModelProviderMap, map \in ToSet(m.maps),
             NEW id \in ToSet(map.credentials)
      PROVE  id \in Credentials
  <2> DEFINE c == [model |-> m.model, provider |-> map.provider, credential |-> id]
  <2>1. m \in ModelScheduleInfo
    BY <1>1, RangeFacts
  <2>2. map.credentials \in Seq(Nat) /\ map.provider \in STRING /\ m.model \in STRING
    BY <2>1 DEF ModelProviderMap, ModelScheduleInfo
  <2>3. id \in Nat
    BY <2>2, RangeFacts
  <2>4. c \in CandidateRecord
    BY <2>2, <2>3 DEF CandidateRecord
  <2>5. c.model = m.model /\ Reaches(m.maps, c.provider, c.credential)
    BY <1>5 DEF Reaches
  <2>6. c.credential = id
    OBVIOUS
  <2> HIDE DEF c
  <2>7. c \in Candidate
    BY <1>1, <2>4, <2>5, CandidatesRange DEF Candidate
  <2> QED
    BY <2>6, <2>7 DEF Credentials
<1> QED
  BY <1>2, <1>3, <1>4, <1>5

LEMMA LoadOfType ==
  ASSUME NEW c
  PROVE  LoadOf(c) \in Nat
<1> DEFINE s == Candidates(Schedule)
           f == [i \in 1..Len(s) |-> s[i].model]
           pointing == {p \in ApiKeys \X ModelNames :
                          /\ affinity[p[1]][p[2]] # None
                          /\ affinity[p[1]][p[2]].credential = c}
<1>1. IsFiniteSet(ModelNames)
  <2>1. s \in Seq(CandidateRecord)
    BY ScheduleFacts
  <2> HIDE DEF s
  <2>2. \A x : x \in ToSet(s) <=> \E i \in 1..Len(s) : x = s[i]
    BY <2>1, RangeFacts
  <2>3. ModelNames = {x.model : x \in ToSet(s)}
    BY DEF ModelNames, Candidate, s
  <2>4. f \in Surjection(1..Len(s), ModelNames)
    BY <2>2, <2>3 DEF Surjection
  <2>5. IsFiniteSet(1..Len(s))
    BY <2>1, FS_Interval
  <2> HIDE DEF f
  <2> QED
    BY <2>4, <2>5, FS_Surjection
<1>2. IsFiniteSet(ApiKeys \X ModelNames)
  BY <1>1, KeysAssumption, FS_Product
<1>3. IsFiniteSet(pointing)
  <2>1. pointing \in SUBSET (ApiKeys \X ModelNames)
    OBVIOUS
  <2> HIDE DEF pointing
  <2> QED
    BY <1>2, <2>1, FS_Subset
<1>4. LoadOf(c) = Cardinality(pointing)
  BY DEF LoadOf
<1> HIDE DEF pointing
<1> QED
  BY <1>3, <1>4, FS_CardinalityType

(* No reordering loses a candidate or makes one up.                        *)
LEMMA PlanRange ==
  ASSUME NEW key, NEW name
  PROVE  Plan(key, name) \in Seq(Candidate) /\ ToSet(Plan(key, name)) = Candidate
<1> DEFINE models == MergePreferredFirst(Schedule, name)
           target == affinity[key][models[1].model]
           load == [c \in Credentials |-> LoadOf(c)]
           plan == IF key = None THEN models
                   ELSE IF target # None THEN ReorderByTarget(models, target)
                   ELSE ReorderByLoad(models, load)
<1>1. /\ Schedule \in Seq(ModelScheduleInfo)
      /\ \A m \in ToSet(Schedule) : OneMapForEachCredential(m)
  BY ScheduleAssumption
<1>2. /\ models \in Seq(ModelScheduleInfo)
      /\ \A m : m \in ToSet(models) <=> m \in ToSet(Schedule)
  BY <1>1, MergeRange
<1>3. Plan(key, name) = Candidates(plan)
  BY DEF Plan
<1>4. \A c \in Credentials : load[c] \in Nat
  BY LoadOfType
<1> HIDE DEF models, target, load
<1>5. /\ Candidates(models) \in Seq(CandidateRecord)
      /\ \A c : c \in ToSet(Candidates(models)) <=> c \in Candidate
  BY <1>1, <1>2, CandidatesRange DEF Candidate
<1>6. \A i \in DOMAIN models : models[i] \in ModelScheduleInfo /\ models[i] \in ToSet(Schedule)
  BY <1>2, RangeFacts
<1>7. /\ Candidates(plan) \in Seq(CandidateRecord)
      /\ ToSet(Candidates(plan)) = ToSet(Candidates(models))
  <2>1. CASE key = None
    BY <1>5, <2>1
  <2>2. CASE key # None /\ target # None
    <3> DEFINE other == ReorderByTarget(models, target)
    <3>1. other = [i \in DOMAIN models |-> ByTarget(models[i], target)]
      BY DEF ReorderByTarget
    <3> HIDE DEF other
    <3>2. other = [i \in DOMAIN models |-> other[i]]
      BY <3>1
    <3>3. \A i \in DOMAIN models : SameReach(models[i], other[i])
      BY <1>1, <1>6, <3>1, ByTargetReach
    <3>4. plan = other
      BY <2>2 DEF other
    <3> HIDE DEF plan
    <3> QED
      BY <1>2, <3>2, <3>3, <3>4, ReorderedCandidates
  <2>3. CASE key # None /\ target = None
    <3> DEFINE other == ReorderByLoad(models, load)
    <3>1. other = [i \in DOMAIN models |-> ByLoad(models[i], load)]
      BY DEF ReorderByLoad
    <3> HIDE DEF other
    <3>2. other = [i \in DOMAIN models |-> other[i]]
      BY <3>1
    <3>3. ASSUME NEW i \in DOMAIN models PROVE SameReach(models[i], other[i])
      <4>1. ASSUME NEW map \in ToSet(models[i].maps), NEW id \in ToSet(map.credentials)
            PROVE  load[id] \in Nat
        <5>1. models[i].maps \in Seq(ModelProviderMap)
          BY <1>6 DEF ModelScheduleInfo
        <5>2. map \in ModelProviderMap
          BY <5>1, RangeFacts
        <5>3. id \in Credentials
          BY <1>6, <5>2, ScheduleFacts
        <5> QED
          BY <1>4, <5>3
      <4>2. SameReach(models[i], ByLoad(models[i], load))
        BY <1>6, <4>1, ByLoadReach
      <4> QED
        BY <3>1, <4>2
    <3>4. plan = other
      BY <2>3 DEF other
    <3> HIDE DEF plan
    <3> QED
      BY <1>2, <3>2, <3>3, <3>4, ReorderedCandidates
  <2> QED
    BY <2>1, <2>2, <2>3
<1>8. ToSet(Candidates(plan)) = Candidate
  BY <1>5, <1>7
<1>9. Candidates(plan) \in Seq(Candidate)
  BY <1>7, <1>8, SeqOverRange
<1> QED
  BY <1>3, <1>8, <1>9
-----------------------------------------------------------------------------
(***************************************************************************)
(* Part two: what is recorded of a request.                                *)
(***************************************************************************)
Fields == {"pc", "key", "name", "stream", "flags", "todo", "tried", "refused",
           "usageDone", "errorDone", "logs", "reply"}

Record(q, status) == [status |-> status, on |-> q.tried]
UsageLogs(q) == IF q.usageDone THEN <<Record(q, "success")>> ELSE <<>>
ErrorLogs(q) == Append(UsageLogs(q), Record(q, "failed"))

(* What a request has been recorded as when it is answered.                *)
Final(q) ==
  /\ \/ q.logs \in {<<>>, <<Record(q, "success")>>, <<Record(q, "failed")>>}
     \/ /\ q.stream
        /\ q.logs \in {<<Record(q, "success"), Record(q, "failed")>>,
                       <<Record(q, "failed"), Record(q, "success")>>}
  /\ q.reply \in {"bad_request", "unavailable"} /\ q.tried # None =>
       q.logs = <<Record(q, "failed")>>
  /\ q.reply = "ok" /\ ~q.stream => q.logs # <<>>
  /\ q.reply = None => q.logs = <<>>

Unrecorded == {"load", "store", "choose", "send", "backoff", "resend", "body", "mark"}
Streaming == {"stream", "markstream", "finish", "marklast"}

(* Until the outcome of an attempt is known nothing is recorded; the       *)
(* records of a stream say which of its scanners have found something.     *)
RequestOK(q) ==
  /\ DOMAIN q = Fields
  /\ q.pc \in {"idle"} \cup Unrecorded \cup Streaming
  /\ q.pc \in Unrecorded =>
       q.logs = <<>> /\ ~q.usageDone /\ ~q.errorDone /\ q.reply = None
  /\ q.pc \in {"body", "mark"} => ~q.stream
  /\ q.pc \in Streaming => q.stream /\ q.reply = None
  /\ q.pc = "stream" => ~q.errorDone /\ q.logs = UsageLogs(q)
  /\ q.pc \in {"markstream", "marklast"} => q.errorDone /\ q.logs = UsageLogs(q)
  /\ q.pc = "finish" =>
       q.logs = IF q.errorDone THEN ErrorLogs(q) ELSE UsageLogs(q)
  /\ q.pc = "idle" => Final(q)

RequestInv ==
  /\ DOMAIN req = Requests
  /\ \A r \in Requests : RequestOK(req[r])
-----------------------------------------------------------------------------
LEMMA AnsweredFacts ==
  ASSUME NEW q, NEW reply, DOMAIN q = Fields
  PROVE  LET n == Answered(q, reply) IN
         /\ DOMAIN n = Fields
         /\ n.pc = "idle" /\ n.reply = reply
         /\ n.logs = q.logs /\ n.tried = q.tried /\ n.stream = q.stream
BY DEF Answered, Fields

LEMMA LoggedFacts ==
  ASSUME NEW q, NEW status, DOMAIN q = Fields
  PROVE  LET n == Logged(q, status) IN
         /\ DOMAIN n = Fields
         /\ n.logs = Append(q.logs, Record(q, status))
         /\ n.pc = q.pc /\ n.reply = q.reply /\ n.tried = q.tried /\ n.stream = q.stream
         /\ n.usageDone = q.usageDone /\ n.errorDone = q.errorDone
BY DEF Logged, Fields, Record

LEMMA RefuseFacts ==
  ASSUME NEW q, DOMAIN q = Fields
  PROVE  LET n == Refuse(q) IN
         /\ DOMAIN n = Fields
         /\ n.pc = "choose"
         /\ n.logs = q.logs /\ n.reply = q.reply /\ n.tried = q.tried /\ n.stream = q.stream
         /\ n.usageDone = q.usageDone /\ n.errorDone = q.errorDone
BY DEF Refuse, Fields

LEMMA MovedFacts ==
  ASSUME NEW q, NEW pc, DOMAIN q = Fields
  PROVE  LET n == [q EXCEPT !.pc = pc] IN
         /\ DOMAIN n = Fields
         /\ n.pc = pc /\ n.todo = q.todo
         /\ n.logs = q.logs /\ n.reply = q.reply /\ n.tried = q.tried /\ n.stream = q.stream
         /\ n.usageDone = q.usageDone /\ n.errorDone = q.errorDone
BY DEF Fields

LEMMA AppendToShort ==
  ASSUME NEW a, NEW b
  PROVE  Append(<<>>, a) = <<a>> /\ Append(<<a>>, b) = <<a, b>>
<1> DEFINE S == {a, b}
<1>1. <<>> \in Seq(S) /\ <<a>> \in Seq(S) /\ <<a, b>> \in Seq(S)
  OBVIOUS
<1>2. Append(<<>>, a) = <<a>>
  <2>1. /\ Append(<<>>, a) \in Seq(S) /\ Len(Append(<<>>, a)) = 1
        /\ Append(<<>>, a)[1] = a
    BY <1>1
  <2>2. Len(<<a>>) = 1 /\ <<a>>[1] = a  OBVIOUS
  <2>3. \A i \in 1..1 : i = 1  OBVIOUS
  <2> QED  BY <1>1, <2>1, <2>2, <2>3, SeqEqual
<1>3. Append(<<a>>, b) = <<a, b>>
  <2>1. /\ Append(<<a>>, b) \in Seq(S) /\ Len(Append(<<a>>, b)) = 2
        /\ Append(<<a>>, b)[1] = a /\ Append(<<a>>, b)[2] = b
    BY <1>1
  <2>2. Len(<<a, b>>) = 2 /\ <<a, b>>[1] = a /\ <<a, b>>[2] = b  OBVIOUS
  <2>3. \A i \in 1..2 : i = 1 \/ i = 2  OBVIOUS
  <2> QED  BY <1>1, <2>1, <2>2, <2>3, SeqEqual
<1> QED  BY <1>2, <1>3

(* What the scanners' finds add, by what was there before.                 *)
ScanResult(q, usage, error, n) ==
  LET seen == IF usage THEN Append(q.logs, Record(q, "success")) ELSE q.logs IN
  /\ DOMAIN n = Fields
  /\ n.pc = q.pc /\ n.reply = q.reply /\ n.tried = q.tried /\ n.stream = q.stream
  /\ IF usage THEN n.usageDone ELSE n.usageDone = q.usageDone
  /\ IF error # "none" THEN n.errorDone ELSE n.errorDone = q.errorDone
  /\ n.logs = IF error = "plain" THEN Append(seen, Record(q, "failed")) ELSE seen

LEMMA ScannedFacts ==
  ASSUME NEW q, DOMAIN q = Fields,
         NEW usage \in BOOLEAN, NEW error \in Errors
  PROVE  ScanResult(q, usage, error, Scanned(q, usage, error))
<1> DEFINE seen == IF usage THEN [Logged(q, "success") EXCEPT !.usageDone = TRUE] ELSE q
           hit == [seen EXCEPT !.errorDone = TRUE]
<1>1. /\ DOMAIN seen = Fields
      /\ seen.pc = q.pc /\ seen.reply = q.reply /\ seen.tried = q.tried
      /\ seen.stream = q.stream
      /\ IF usage THEN seen.usageDone ELSE seen.usageDone = q.usageDone
      /\ seen.errorDone = q.errorDone
      /\ seen.logs = IF usage THEN Append(q.logs, Record(q, "success")) ELSE q.logs
  <2>1. CASE usage  BY <2>1, LoggedFacts DEF Fields
  <2>2. CASE ~usage  BY <2>2
  <2> QED  BY <2>1, <2>2
<1> HIDE DEF seen
<1>2. /\ DOMAIN hit = Fields
      /\ hit.pc = seen.pc /\ hit.reply = seen.reply /\ hit.tried = seen.tried
      /\ hit.stream = seen.stream /\ hit.usageDone = seen.usageDone
      /\ hit.errorDone = TRUE /\ hit.logs = seen.logs
  BY <1>1 DEF Fields
<1> HIDE DEF hit
<1>3. Scanned(q, usage, error) =
        IF error = "plain" THEN Logged(hit, "failed")
        ELSE IF error = "quota" THEN hit ELSE seen
  BY DEF Scanned, hit, seen
<1>4. CASE error = "plain"
  <2>1. Scanned(q, usage, error) = Logged(hit, "failed")  BY <1>3, <1>4
  <2>2. Record(hit, "failed") = Record(q, "failed")  BY <1>1, <1>2 DEF Record
  <2>3. LET n == Logged(hit, "failed") IN
        /\ DOMAIN n = Fields
        /\ n.logs = Append(hit.logs, Record(q, "failed"))
        /\ n.pc = hit.pc /\ n.reply = hit.reply /\ n.tried = hit.tried /\ n.stream = hit.stream
        /\ n.usageDone = hit.usageDone /\ n.errorDone = hit.errorDone
    BY <1>2, <2>2, LoggedFacts
  <2> QED  BY <1>1, <1>2, <1>4, <2>1, <2>3 DEF ScanResult
<1>5. CASE error = "quota"
  <2>1. Scanned(q, usage, error) = hit  BY <1>3, <1>5
  <2> QED  BY <1>1, <1>2, <1>5, <2>1 DEF ScanResult
<1>6. CASE error = "none"
  <2>1. Scanned(q, usage, error) = seen  BY <1>3, <1>6
  <2> QED  BY <1>1, <1>6, <2>1 DEF ScanResult
<1> QED  BY <1>4, <1>5, <1>6 DEF Errors
-----------------------------------------------------------------------------
(* Steps that record nothing.                                              *)
LEMMA StillUnrecorded ==
  ASSUME NEW q, RequestOK(q), q.pc \in Unrecorded,
         NEW n, DOMAIN n = Fields,
         n.logs = q.logs, n.reply = q.reply, n.stream = q.stream,
         n.usageDone = q.usageDone, n.errorDone = q.errorDone,
         n.pc \in Unrecorded, n.pc \in {"body", "mark"} => ~q.stream
  PROVE  RequestOK(n)
BY DEF RequestOK, Unrecorded, Streaming

LEMMA AnsweredUnlogged ==
  ASSUME NEW q, RequestOK(q), q.pc \in Unrecorded,
         NEW reply, \/ reply = "internal"
                    \/ reply = "unavailable" /\ q.tried = None
                    \/ reply = None
  PROVE  RequestOK(Answered(q, reply))
<1> DEFINE n == Answered(q, reply)
<1>1. /\ DOMAIN n = Fields
      /\ n.pc = "idle" /\ n.reply = reply
      /\ n.logs = q.logs /\ n.tried = q.tried /\ n.stream = q.stream
  BY AnsweredFacts DEF RequestOK
<1>2. n.logs = <<>>  BY <1>1 DEF RequestOK
<1> HIDE DEF n
<1>3. None \notin {"bad_request", "unavailable", "ok"}
  BY NoReplyAssumption DEF Reply
<1>4. Final(n)  BY <1>1, <1>2, <1>3 DEF Final
<1>5. RequestOK(n)  BY <1>1, <1>4 DEF RequestOK, Unrecorded, Streaming
<1> QED  BY <1>5 DEF n

LEMMA AnsweredLogged ==
  ASSUME NEW q, RequestOK(q), q.pc \in Unrecorded,
         NEW reply \in Reply, NEW status \in {"success", "failed"},
         reply \in {"bad_request", "unavailable"} => status = "failed"
  PROVE  RequestOK(Answered(Logged(q, status), reply))
<1> DEFINE l == Logged(q, status)
           n == Answered(l, reply)
<1>1. DOMAIN q = Fields /\ q.logs = <<>>  BY DEF RequestOK
<1>2. DOMAIN l = Fields /\ l.logs = <<Record(q, status)>> /\ l.tried = q.tried
  BY <1>1, LoggedFacts, AppendToShort
<1> HIDE DEF l
<1>3. /\ DOMAIN n = Fields
      /\ n.pc = "idle" /\ n.reply = reply
      /\ n.logs = l.logs /\ n.tried = l.tried
  BY <1>2, AnsweredFacts
<1> HIDE DEF n
<1>4. n.logs = <<Record(n, status)>>  BY <1>2, <1>3 DEF Record
<1>5. Final(n)
  <2>1. n.logs # <<>>  BY <1>4
  <2> QED  BY <1>3, <1>4, <2>1, NoReplyAssumption DEF Final
<1>6. RequestOK(n)  BY <1>3, <1>5 DEF RequestOK, Unrecorded, Streaming
<1> QED  BY <1>6 DEF n, l

(* What a scan of a stream adds to its records.                            *)
LEMMA ChunkOK ==
  ASSUME NEW q, RequestOK(q), q.pc = "stream",
         NEW usage \in BOOLEAN, NEW error \in Errors,
         usage => ~q.usageDone,
         NEW pc,
         error = "none" => pc = "stream",
         error = "plain" => pc = "finish",
         error = "quota" => pc = "markstream"
  PROVE  RequestOK([Scanned(q, usage, error) EXCEPT !.pc = pc])
<1> DEFINE s == Scanned(q, usage, error)
           n == [s EXCEPT !.pc = pc]
           seen == IF usage THEN Append(q.logs, Record(q, "success")) ELSE q.logs
<1>1. /\ DOMAIN q = Fields /\ q.stream /\ q.reply = None
      /\ ~q.errorDone /\ q.logs = UsageLogs(q)
  BY DEF RequestOK, Streaming
<1>0. ScanResult(q, usage, error, s)  BY <1>1, ScannedFacts
<1> HIDE DEF s
<1>2. /\ DOMAIN s = Fields
      /\ s.reply = q.reply /\ s.tried = q.tried /\ s.stream = q.stream
      /\ IF usage THEN s.usageDone ELSE s.usageDone = q.usageDone
      /\ IF error # "none" THEN s.errorDone ELSE s.errorDone = q.errorDone
      /\ s.logs = IF error = "plain" THEN Append(seen, Record(q, "failed")) ELSE seen
  BY <1>0 DEF ScanResult
<1>3. /\ DOMAIN n = Fields /\ n.pc = pc
      /\ n.logs = s.logs /\ n.reply = s.reply /\ n.tried = s.tried /\ n.stream = s.stream
      /\ n.usageDone = s.usageDone /\ n.errorDone = s.errorDone
  BY <1>2, MovedFacts
<1> HIDE DEF n
<1>4. seen = UsageLogs(n)
  <2>1. Record(n, "success") = Record(q, "success")  BY <1>2, <1>3 DEF Record
  <2>2. CASE usage
    <3>1. q.logs = <<>>  BY <1>1, <2>2 DEF UsageLogs
    <3>2. n.usageDone  BY <1>2, <1>3, <2>2
    <3> QED  BY <2>1, <2>2, <3>1, <3>2, AppendToShort DEF UsageLogs
  <2>3. CASE ~usage
    <3>1. n.usageDone = q.usageDone  BY <1>2, <1>3, <2>3
    <3> QED  BY <1>1, <2>1, <2>3, <3>1 DEF UsageLogs
  <2> QED  BY <2>2, <2>3
<1> HIDE DEF seen
<1>5. Record(n, "failed") = Record(q, "failed")  BY <1>2, <1>3 DEF Record
<1>6. n.stream /\ n.reply = None  BY <1>1, <1>2, <1>3
<1>7. CASE error = "none"
  <2>1. n.pc = "stream" /\ ~n.errorDone /\ n.logs = UsageLogs(n)
    BY <1>1, <1>2, <1>3, <1>4, <1>7
  <2>2. RequestOK(n)  BY <1>3, <1>6, <2>1 DEF RequestOK, Unrecorded, Streaming
  <2> QED  BY <2>2 DEF n, s
<1>8. CASE error = "plain"
  <2>1. n.pc = "finish" /\ n.errorDone /\ n.logs = ErrorLogs(n)
    BY <1>2, <1>3, <1>4, <1>5, <1>8 DEF ErrorLogs
  <2>2. RequestOK(n)  BY <1>3, <1>6, <2>1 DEF RequestOK, Unrecorded, Streaming
  <2> QED  BY <2>2 DEF n, s
<1>9. CASE error = "quota"
  <2>1. n.pc = "markstream" /\ n.errorDone /\ n.logs = UsageLogs(n)
    BY <1>2, <1>3, <1>4, <1>9
  <2>2. RequestOK(n)  BY <1>3, <1>6, <2>1 DEF RequestOK, Unrecorded, Streaming
  <2> QED  BY <2>2 DEF n, s
<1> QED  BY <1>7, <1>8, <1>9 DEF Errors

(* A stream that ends with this record or that.                            *)
LEMMA AnsweredStream ==
  ASSUME NEW s, DOMAIN s = Fields, s.stream,
         \/ s.logs \in {<<>>, <<Record(s, "success")>>, <<Record(s, "failed")>>}
         \/ s.logs \in {<<Record(s, "success"), Record(s, "failed")>>,
                        <<Record(s, "failed"), Record(s, "success")>>}
  PROVE  RequestOK(Answered(s, "ok"))
<1> DEFINE n == Answered(s, "ok")
<1>1. /\ DOMAIN n = Fields
      /\ n.pc = "idle" /\ n.reply = "ok"
      /\ n.logs = s.logs /\ n.tried = s.tried /\ n.stream = s.stream
  BY AnsweredFacts
<1> HIDE DEF n
<1>2. \A status \in {"success", "failed"} : Record(n, status) = Record(s, status)
  BY <1>1 DEF Record
<1>3. Final(n)  BY <1>1, <1>2, NoReplyAssumption DEF Final, Reply
<1>4. RequestOK(n)  BY <1>1, <1>3 DEF RequestOK, Unrecorded, Streaming
<1> QED  BY <1>4 DEF n

LEMMA FinishOK ==
  ASSUME NEW q, RequestOK(q), q.pc = "finish",
         NEW usage \in BOOLEAN, NEW error \in Errors,
         usage => ~q.usageDone, error # "none" => ~q.errorDone
  PROVE  RequestOK(IF error = "quota"
                   THEN [Scanned(q, usage, error) EXCEPT !.pc = "marklast"]
                   ELSE Answered(Scanned(q, usage, error), "ok"))
<1> DEFINE s == Scanned(q, usage, error)
           seen == IF usage THEN Append(q.logs, Record(q, "success")) ELSE q.logs
           S == Record(q, "success")
           F == Record(q, "failed")
<1>1. /\ DOMAIN q = Fields /\ q.stream /\ q.reply = None
      /\ q.logs = IF q.errorDone THEN ErrorLogs(q) ELSE UsageLogs(q)
  BY DEF RequestOK, Streaming
<1>0. ScanResult(q, usage, error, s)  BY <1>1, ScannedFacts
<1> HIDE DEF s
<1>2. /\ DOMAIN s = Fields
      /\ s.reply = q.reply /\ s.tried = q.tried /\ s.stream = q.stream
      /\ IF usage THEN s.usageDone ELSE s.usageDone = q.usageDone
      /\ IF error # "none" THEN s.errorDone ELSE s.errorDone = q.errorDone
      /\ s.logs = IF error = "plain" THEN Append(seen, Record(q, "failed")) ELSE seen
  BY <1>0 DEF ScanResult
<1>3. Record(s, "success") = S /\ Record(s, "failed") = F  BY <1>2 DEF Record
<1> HIDE DEF S, F
<1>4. UsageLogs(q) = (IF q.usageDone THEN <<S>> ELSE <<>>)
  BY DEF UsageLogs, S
<1>5. ErrorLogs(q) = (IF q.usageDone THEN <<S, F>> ELSE <<F>>)
  BY <1>4, AppendToShort DEF ErrorLogs, F
<1>6. CASE q.errorDone
  <2>1. error = "none" /\ s.logs = seen  BY <1>2, <1>6 DEF Errors
  <2>2. s.logs \in {<<F>>, <<S, F>>, <<F, S>>}
    <3>1. CASE usage
      <4>1. q.logs = <<F>>  BY <1>1, <1>5, <1>6, <3>1
      <4>2. Append(q.logs, S) = <<F, S>>  BY <4>1, AppendToShort
      <4> QED  BY <2>1, <3>1, <4>2 DEF S
    <3>2. CASE ~usage  BY <1>1, <1>5, <1>6, <2>1, <3>2
    <3> QED  BY <3>1, <3>2
  <2>3. RequestOK(Answered(s, "ok"))
    BY <1>1, <1>2, <1>3, <2>2, AnsweredStream
  <2> QED  BY <2>1, <2>3 DEF s
<1>7. CASE ~q.errorDone
  <2>1. seen = (IF s.usageDone THEN <<S>> ELSE <<>>)
    <3>1. CASE usage
      <4>1. q.logs = <<>>  BY <1>1, <1>4, <1>7, <3>1
      <4>2. Append(q.logs, S) = <<S>>  BY <4>1, AppendToShort
      <4>3. s.usageDone  BY <1>2, <3>1
      <4> QED  BY <3>1, <4>2, <4>3 DEF S
    <3>2. CASE ~usage
      <4>1. s.usageDone = q.usageDone  BY <1>2, <3>2
      <4> QED  BY <1>1, <1>4, <1>7, <3>2, <4>1
    <3> QED  BY <3>1, <3>2
  <2>2. CASE error = "quota"
    <3> DEFINE n == [s EXCEPT !.pc = "marklast"]
    <3>1. /\ DOMAIN n = Fields /\ n.pc = "marklast"
          /\ n.logs = s.logs /\ n.reply = s.reply /\ n.tried = s.tried /\ n.stream = s.stream
          /\ n.usageDone = s.usageDone /\ n.errorDone = s.errorDone
      BY <1>2, MovedFacts
    <3> HIDE DEF n
    <3>2. s.errorDone /\ s.logs = seen  BY <1>2, <2>2
    <3>3. Record(n, "success") = S  BY <1>3, <3>1 DEF Record
    <3>4. n.logs = UsageLogs(n)  BY <2>1, <3>1, <3>2, <3>3 DEF UsageLogs
    <3>5. n.stream /\ n.reply = None /\ n.errorDone  BY <1>1, <1>2, <3>1, <3>2
    <3>6. RequestOK(n)  BY <3>1, <3>4, <3>5 DEF RequestOK, Unrecorded, Streaming
    <3> QED  BY <2>2, <3>6 DEF n, s
  <2>3. CASE error = "none"
    <3>1. s.logs = seen  BY <1>2, <2>3
    <3>2. s.logs \in {<<>>, <<S>>}  BY <2>1, <3>1
    <3>3. RequestOK(Answered(s, "ok"))
      BY <1>1, <1>2, <1>3, <3>2, AnsweredStream
    <3> QED  BY <2>3, <3>3 DEF s
  <2>4. CASE error = "plain"
    <3>1. s.logs = Append(seen, F)  BY <1>2, <2>4 DEF F
    <3>2. s.logs \in {<<F>>, <<S, F>>}
      BY <2>1, <3>1, AppendToShort
    <3>3. RequestOK(Answered(s, "ok"))
      BY <1>1, <1>2, <1>3, <3>2, AnsweredStream
    <3> QED  BY <2>4, <3>3 DEF s
  <2> QED  BY <2>2, <2>3, <2>4 DEF Errors
<1> QED  BY <1>6, <1>7

(* The log that follows an awaited mark.                                   *)
LEMMA MarkedOK ==
  ASSUME NEW q, RequestOK(q), q.pc \in {"markstream", "marklast"}
  PROVE  /\ q.pc = "markstream" => RequestOK([Logged(q, "failed") EXCEPT !.pc = "finish"])
         /\ q.pc = "marklast" => RequestOK(Answered(Logged(q, "failed"), "ok"))
<1> DEFINE l == Logged(q, "failed")
           F == Record(q, "failed")
           S == Record(q, "success")
<1>1. /\ DOMAIN q = Fields /\ q.stream /\ q.reply = None /\ q.errorDone
      /\ q.logs = UsageLogs(q)
  BY DEF RequestOK, Streaming
<1>2. /\ DOMAIN l = Fields
      /\ l.logs = ErrorLogs(q)
      /\ l.pc = q.pc /\ l.reply = q.reply /\ l.tried = q.tried /\ l.stream = q.stream
      /\ l.usageDone = q.usageDone /\ l.errorDone = q.errorDone
  BY <1>1, LoggedFacts DEF ErrorLogs
<1> HIDE DEF l
<1>3. Record(l, "success") = S /\ Record(l, "failed") = F  BY <1>2 DEF Record
<1>4. ErrorLogs(q) = (IF q.usageDone THEN <<S, F>> ELSE <<F>>)
  BY AppendToShort DEF ErrorLogs, UsageLogs
<1> HIDE DEF S, F
<1>5. RequestOK(Answered(l, "ok"))
  <2>1. l.logs \in {<<F>>, <<S, F>>}  BY <1>2, <1>4
  <2> QED  BY <1>1, <1>2, <1>3, <2>1, AnsweredStream
<1>6. RequestOK([l EXCEPT !.pc = "finish"])
  <2> DEFINE n == [l EXCEPT !.pc = "finish"]
  <2>1. /\ DOMAIN n = Fields /\ n.pc = "finish"
        /\ n.logs = l.logs /\ n.reply = l.reply /\ n.tried = l.tried /\ n.stream = l.stream
        /\ n.usageDone = l.usageDone /\ n.errorDone = l.errorDone
    BY <1>2, MovedFacts
  <2> HIDE DEF n
  <2>2. ErrorLogs(n) = ErrorLogs(q)
    BY <1>2, <2>1 DEF ErrorLogs, UsageLogs, Record
  <2>3. RequestOK(n)
    BY <1>1, <1>2, <2>1, <2>2 DEF RequestOK, Unrecorded, Streaming
  <2> QED  BY <2>3 DEF n
<1> QED  BY <1>5, <1>6 DEF l
-----------------------------------------------------------------------------
LEMMA BecomeKeeps ==
  ASSUME RequestInv, NEW r \in Requests, NEW n, RequestOK(n), Become(r, n)
  PROVE  RequestInv'
BY DEF RequestInv, Become

LEMMA BeginKeeps ==
  ASSUME RequestInv, NEW r \in Requests, NEW key, NEW name, NEW stream,
         Begin(r, key, name, stream)
  PROVE  RequestInv'
<1> DEFINE request == [Idle EXCEPT !.key = key, !.stream = stream]
<1>1. /\ DOMAIN request = Fields
      /\ request.logs = <<>> /\ request.reply = None
      /\ ~request.usageDone /\ ~request.errorDone
  BY DEF Idle, Fields
<1> HIDE DEF request
<1>2. ASSUME NEW n, DOMAIN n = Fields, n.pc \in {"choose", "load"},
             n.logs = request.logs, n.reply = request.reply,
             n.usageDone = request.usageDone, n.errorDone = request.errorDone
      PROVE  RequestOK(n)
  BY <1>1, <1>2 DEF RequestOK, Unrecorded, Streaming
<1>3. CASE Become(r, [request EXCEPT !.pc = "choose", !.flags = snapshot,
                                     !.todo = Plan(key, name)])
  <2> DEFINE n == [request EXCEPT !.pc = "choose", !.flags = snapshot,
                                  !.todo = Plan(key, name)]
  <2>1. /\ DOMAIN n = Fields /\ n.pc = "choose"
        /\ n.logs = request.logs /\ n.reply = request.reply
        /\ n.usageDone = request.usageDone /\ n.errorDone = request.errorDone
    BY <1>1 DEF Fields
  <2> HIDE DEF n
  <2>2. RequestOK(n)  BY <1>2, <2>1
  <2> QED  BY <1>3, <2>2, BecomeKeeps DEF n
<1>4. CASE Become(r, [request EXCEPT !.pc = "load", !.name = name])
  <2> DEFINE n == [request EXCEPT !.pc = "load", !.name = name]
  <2>1. /\ DOMAIN n = Fields /\ n.pc = "load"
        /\ n.logs = request.logs /\ n.reply = request.reply
        /\ n.usageDone = request.usageDone /\ n.errorDone = request.errorDone
    BY <1>1 DEF Fields
  <2> HIDE DEF n
  <2>2. RequestOK(n)  BY <1>2, <2>1
  <2> QED  BY <1>4, <2>2, BecomeKeeps DEF n
<1> QED  BY <1>3, <1>4 DEF Begin, request

(* The steps of a request up to its answer or its stream.                  *)
LEMMA UnrecordedSteps ==
  ASSUME RequestInv, NEW r \in Requests,
         \/ LoadRead(r) \/ LoadFail(r) \/ LoadStore(r)
         \/ Skip(r) \/ Try(r) \/ GiveUp(r)
         \/ Success(r) \/ Retry(r) \/ WakeUp(r)
         \/ FailAgain(r) \/ CredentialFail(r) \/ Fail(r)
         \/ BodyLost(r) \/ BodyWhole(r) \/ BodyMark(r)
         \/ \E isQuota \in BOOLEAN : BodyWithError(r, isQuota)
  PROVE  RequestInv'
<1> DEFINE q == req[r]
<1>0. RequestOK(q) /\ DOMAIN q = Fields  BY DEF RequestInv, RequestOK
<1>1. \A pc \in Unrecorded : At(r, pc) => q.pc \in Unrecorded
  BY DEF At
<1> HIDE DEF q
<1>2. ASSUME q.pc \in Unrecorded,
             NEW n, Become(r, n), DOMAIN n = Fields,
             n.logs = q.logs, n.reply = q.reply, n.stream = q.stream,
             n.usageDone = q.usageDone, n.errorDone = q.errorDone,
             n.pc \in Unrecorded, n.pc \in {"body", "mark"} => ~q.stream
      PROVE  RequestInv'
  <2>1. RequestOK(n)  BY <1>0, <1>2, StillUnrecorded
  <2> QED  BY <1>2, <2>1, BecomeKeeps
<1>3. ASSUME q.pc \in Unrecorded, NEW pc \in Unrecorded \ {"body", "mark"},
             Become(r, [q EXCEPT !.pc = pc])
      PROVE  RequestInv'
  <2> DEFINE n == [q EXCEPT !.pc = pc]
  <2>1. /\ DOMAIN n = Fields /\ n.pc = pc
        /\ n.logs = q.logs /\ n.reply = q.reply /\ n.stream = q.stream
        /\ n.usageDone = q.usageDone /\ n.errorDone = q.errorDone
    BY <1>0, MovedFacts
  <2> HIDE DEF n
  <2>2. Become(r, n)  BY <1>3 DEF n
  <2> QED  BY <1>2, <1>3, <2>1, <2>2
<1>4. ASSUME q.pc \in Unrecorded, Become(r, Refuse(q)) PROVE RequestInv'
  <2>1. LET n == Refuse(q) IN
        /\ DOMAIN n = Fields /\ n.pc = "choose"
        /\ n.logs = q.logs /\ n.reply = q.reply /\ n.stream = q.stream
        /\ n.usageDone = q.usageDone /\ n.errorDone = q.errorDone
    BY <1>0, RefuseFacts
  <2> QED  BY <1>2, <1>4, <2>1 DEF Unrecorded
<1>5. ASSUME q.pc \in Unrecorded, NEW reply \in Reply, NEW status \in {"success", "failed"},
             reply \in {"bad_request", "unavailable"} => status = "failed",
             Become(r, Answered(Logged(q, status), reply))
      PROVE  RequestInv'
  <2>1. RequestOK(Answered(Logged(q, status), reply))
    BY <1>0, <1>5, AnsweredLogged
  <2> QED  BY <1>5, <2>1, BecomeKeeps
<1>6. ASSUME q.pc \in Unrecorded, NEW reply, Become(r, Answered(q, reply)),
             reply = "internal" \/ (reply = "unavailable" /\ q.tried = None)
      PROVE  RequestInv'
  <2>1. RequestOK(Answered(q, reply))  BY <1>0, <1>6, AnsweredUnlogged
  <2> QED  BY <1>6, <2>1, BecomeKeeps
<1>10. CASE LoadRead(r)
  <2> DEFINE n == [q EXCEPT !.pc = "store", !.flags = exhausted]
  <2>1. /\ DOMAIN n = Fields /\ n.pc = "store"
        /\ n.logs = q.logs /\ n.reply = q.reply /\ n.stream = q.stream
        /\ n.usageDone = q.usageDone /\ n.errorDone = q.errorDone
    BY <1>0 DEF Fields
  <2>2. Become(r, n)  BY <1>10 DEF LoadRead, q
  <2>3. q.pc \in Unrecorded  BY <1>10 DEF LoadRead, At, q, Unrecorded
  <2> HIDE DEF n
  <2> QED  BY <1>2, <2>1, <2>2, <2>3 DEF Unrecorded
<1>11. CASE LoadFail(r)
  BY <1>6, <1>11 DEF LoadFail, At, q, Unrecorded
<1>12. CASE LoadStore(r)
  <2> DEFINE n == [q EXCEPT !.pc = "choose", !.name = None, !.todo = Plan(q.key, q.name)]
  <2>1. /\ DOMAIN n = Fields /\ n.pc = "choose"
        /\ n.logs = q.logs /\ n.reply = q.reply /\ n.stream = q.stream
        /\ n.usageDone = q.usageDone /\ n.errorDone = q.errorDone
    BY <1>0 DEF Fields
  <2>2. Become(r, n)  BY <1>12 DEF LoadStore, q
  <2>3. q.pc \in Unrecorded  BY <1>12 DEF LoadStore, At, q, Unrecorded
  <2> HIDE DEF n
  <2> QED  BY <1>2, <2>1, <2>2, <2>3 DEF Unrecorded
<1>13. CASE Skip(r)
  BY <1>4, <1>13 DEF Skip, At, q, Unrecorded
<1>14. CASE Try(r)
  <2> DEFINE n == [q EXCEPT !.pc = "send", !.tried = Current(r)]
  <2>1. /\ DOMAIN n = Fields /\ n.pc = "send"
        /\ n.logs = q.logs /\ n.reply = q.reply /\ n.stream = q.stream
        /\ n.usageDone = q.usageDone /\ n.errorDone = q.errorDone
    BY <1>0 DEF Fields
  <2>2. Become(r, n)  BY <1>14 DEF Try, q
  <2>3. q.pc \in Unrecorded  BY <1>14 DEF Try, At, q, Unrecorded
  <2> HIDE DEF n
  <2> QED  BY <1>2, <2>1, <2>2, <2>3 DEF Unrecorded
<1>15. CASE GiveUp(r)
  <2>1. q.pc \in Unrecorded  BY <1>15 DEF GiveUp, At, q, Unrecorded
  <2>2. CASE q.tried = None
    <3>1. Become(r, Answered(q, "unavailable"))  BY <1>15, <2>2 DEF GiveUp, q
    <3> QED  BY <1>6, <2>1, <2>2, <3>1
  <2>3. CASE q.tried # None
    <3>1. Become(r, Answered(Logged(q, "failed"), "unavailable"))
      BY <1>15, <2>3 DEF GiveUp, q
    <3> QED  BY <1>5, <2>1, <3>1 DEF Reply
  <2> QED  BY <2>2, <2>3
<1>16. CASE Success(r)
  <2>1. q.pc \in {"send", "resend"} /\ q.pc \in Unrecorded
    BY <1>16 DEF Success, Sent, Resent, At, q, Unrecorded
  <2>2. CASE q.stream /\ Become(r, [q EXCEPT !.pc = "stream"])
    <3> DEFINE n == [q EXCEPT !.pc = "stream"]
    <3>1. /\ DOMAIN n = Fields /\ n.pc = "stream"
          /\ n.logs = q.logs /\ n.reply = q.reply /\ n.stream = q.stream
          /\ n.usageDone = q.usageDone /\ n.errorDone = q.errorDone
      BY <1>0, MovedFacts
    <3> HIDE DEF n
    <3>2. RequestOK(n)
      BY <1>0, <2>1, <2>2, <3>1 DEF RequestOK, Unrecorded, Streaming, UsageLogs
    <3> QED  BY <2>2, <3>2, BecomeKeeps DEF n
  <2>3. CASE ~q.stream /\ Become(r, [q EXCEPT !.pc = "body"])
    <3> DEFINE n == [q EXCEPT !.pc = "body"]
    <3>1. /\ DOMAIN n = Fields /\ n.pc = "body"
          /\ n.logs = q.logs /\ n.reply = q.reply /\ n.stream = q.stream
          /\ n.usageDone = q.usageDone /\ n.errorDone = q.errorDone
      BY <1>0, MovedFacts
    <3> HIDE DEF n
    <3>2. Become(r, n)  BY <2>3 DEF n
    <3> QED  BY <1>2, <2>1, <2>3, <3>1, <3>2 DEF Unrecorded
  <2> QED  BY <1>16, <2>2, <2>3 DEF Success, q
<1>17. CASE Retry(r)
  BY <1>3, <1>17 DEF Retry, Sent, At, q, Unrecorded
<1>18. CASE WakeUp(r)
  BY <1>3, <1>18 DEF WakeUp, At, q, Unrecorded
<1>19. CASE FailAgain(r)
  BY <1>4, <1>19 DEF FailAgain, Resent, At, q, Unrecorded
<1>20. CASE CredentialFail(r)
  BY <1>4, <1>20 DEF CredentialFail, Sent, Resent, At, q, Unrecorded
<1>21. CASE Fail(r)
  BY <1>5, <1>21 DEF Fail, Sent, At, q, Unrecorded, Reply
<1>22. CASE BodyLost(r)
  BY <1>6, <1>22 DEF BodyLost, At, q, Unrecorded
<1>23. CASE BodyWhole(r)
  BY <1>5, <1>23 DEF BodyWhole, At, q, Unrecorded, Reply
<1>24. CASE BodyMark(r)
  BY <1>5, <1>24 DEF BodyMark, Marking, At, q, Unrecorded, Reply
<1>25. ASSUME NEW isQuota \in BOOLEAN, BodyWithError(r, isQuota) PROVE RequestInv'
  <2>1. q.pc = "body" /\ q.pc \in Unrecorded
    BY <1>25 DEF BodyWithError, At, q, Unrecorded
  <2>2. CASE isQuota
    <3> DEFINE n == [q EXCEPT !.pc = "mark"]
    <3>1. /\ DOMAIN n = Fields /\ n.pc = "mark"
          /\ n.logs = q.logs /\ n.reply = q.reply /\ n.stream = q.stream
          /\ n.usageDone = q.usageDone /\ n.errorDone = q.errorDone
      BY <1>0, MovedFacts
    <3>2. Become(r, n)  BY <1>25, <2>2 DEF BodyWithError, q
    <3> HIDE DEF n
    <3>3. ~q.stream  BY <1>0, <2>1 DEF RequestOK
    <3> QED  BY <1>2, <2>1, <3>1, <3>2, <3>3 DEF Unrecorded
  <2>3. CASE ~isQuota
    <3>1. Become(r, Answered(Logged(q, "failed"), "ok"))
      BY <1>25, <2>3 DEF BodyWithError, q
    <3> QED  BY <1>5, <2>1, <3>1 DEF Reply
  <2> QED  BY <2>2, <2>3
<1> QED
  BY <1>10, <1>11, <1>12, <1>13, <1>14, <1>15, <1>16, <1>17, <1>18, <1>19, <1>20,
     <1>21, <1>22, <1>23, <1>24, <1>25

(* The task that forwards a stream.                                        *)
LEMMA StreamSteps ==
  ASSUME RequestInv, NEW r \in Requests,
         \/ \E usage \in BOOLEAN, error \in Errors :
              StreamChunk(r, usage, error) \/ StreamFinish(r, usage, error)
         \/ StreamMark(r) \/ StreamStop(r) \/ FinishMark(r)
  PROVE  RequestInv'
<1> DEFINE q == req[r]
<1>0. RequestOK(q) /\ DOMAIN q = Fields  BY DEF RequestInv, RequestOK
<1>1. ASSUME NEW usage \in BOOLEAN, NEW error \in Errors, StreamChunk(r, usage, error)
      PROVE  RequestInv'
  <2> DEFINE pc == CASE error = "none" -> "stream"
                     [] error = "plain" -> "finish"
                     [] error = "quota" -> "markstream"
  <2>1. q.pc = "stream" /\ (usage => ~q.usageDone)
        /\ Become(r, [Scanned(q, usage, error) EXCEPT !.pc = pc])
    BY <1>1 DEF StreamChunk, Scans, At
  <2>2. /\ error = "none" => pc = "stream"
        /\ error = "plain" => pc = "finish"
        /\ error = "quota" => pc = "markstream"
    OBVIOUS
  <2> HIDE DEF pc, q
  <2>3. RequestOK([Scanned(q, usage, error) EXCEPT !.pc = pc])
    BY <1>0, <2>1, <2>2, ChunkOK
  <2> QED  BY <2>1, <2>3, BecomeKeeps
<1>2. ASSUME NEW usage \in BOOLEAN, NEW error \in Errors, StreamFinish(r, usage, error)
      PROVE  RequestInv'
  <2> DEFINE n == IF error = "quota"
                  THEN [Scanned(q, usage, error) EXCEPT !.pc = "marklast"]
                  ELSE Answered(Scanned(q, usage, error), "ok")
  <2>1. /\ q.pc = "finish" /\ (usage => ~q.usageDone) /\ (error # "none" => ~q.errorDone)
        /\ Become(r, n)
    BY <1>2 DEF StreamFinish, Scans, At
  <2>2. RequestOK(n)  BY <1>0, <2>1, FinishOK
  <2> HIDE DEF n
  <2> QED  BY <2>1, <2>2, BecomeKeeps
<1>3. CASE StreamMark(r)
  <2>1. q.pc = "markstream" /\ Become(r, [Logged(q, "failed") EXCEPT !.pc = "finish"])
    BY <1>3 DEF StreamMark, Marking, At
  <2>2. RequestOK([Logged(q, "failed") EXCEPT !.pc = "finish"])
    BY <1>0, <2>1, MarkedOK
  <2> QED  BY <2>1, <2>2, BecomeKeeps
<1>4. CASE FinishMark(r)
  <2>1. q.pc = "marklast" /\ Become(r, Answered(Logged(q, "failed"), "ok"))
    BY <1>4 DEF FinishMark, Marking, At
  <2>2. RequestOK(Answered(Logged(q, "failed"), "ok"))
    BY <1>0, <2>1, MarkedOK
  <2> QED  BY <2>1, <2>2, BecomeKeeps
<1>5. CASE StreamStop(r)
  <2> DEFINE n == [q EXCEPT !.pc = "finish"]
  <2>1. q.pc = "stream" /\ Become(r, n)  BY <1>5 DEF StreamStop, At
  <2>2. /\ DOMAIN n = Fields /\ n.pc = "finish"
        /\ n.logs = q.logs /\ n.reply = q.reply /\ n.tried = q.tried /\ n.stream = q.stream
        /\ n.usageDone = q.usageDone /\ n.errorDone = q.errorDone
    BY <1>0, MovedFacts
  <2> HIDE DEF n, q
  <2>3. UsageLogs(n) = UsageLogs(q)  BY <2>2 DEF UsageLogs, Record
  <2>4. RequestOK(n)
    BY <1>0, <2>1, <2>2, <2>3 DEF RequestOK, Unrecorded, Streaming
  <2> QED  BY <2>1, <2>4, BecomeKeeps
<1> QED  BY <1>1, <1>2, <1>3, <1>4, <1>5

LEMMA RequestStep == RequestInv /\ [Next]_vars => RequestInv'
<1> SUFFICES ASSUME RequestInv, [Next]_vars PROVE RequestInv'
  OBVIOUS
<1>1. ASSUME NEW r \in Requests, NEW key, NEW name, NEW stream, Begin(r, key, name, stream)
      PROVE  RequestInv'
  BY <1>1, BeginKeeps
<1>2. ASSUME NEW r \in Requests, Continue(r) \/ Forward(r)
      PROVE  RequestInv'
  BY <1>2, UnrecordedSteps, StreamSteps DEF Continue, Forward
<1>3. ASSUME req' = req PROVE RequestInv'
  BY <1>3 DEF RequestInv
<1>4. ASSUME NEW r \in Requests, NEW c \in Credentials, RunMark(r, c) PROVE RequestInv'
  BY <1>3, <1>4 DEF RunMark
<1>5. ASSUME NEW c \in Credentials, ClearQuota(c) \/ ResetStatus(c) \/ ResetBreaker(c)
      PROVE  RequestInv'
  BY <1>3, <1>5 DEF ClearQuota, ResetStatus, ResetBreaker
<1>6. ASSUME NEW key \in ApiKeys, NEW model \in ModelNames, AffinityGone(key, model)
      PROVE  RequestInv'
  BY <1>3, <1>6 DEF AffinityGone
<1>7. CASE SnapshotGone \/ Tick  BY <1>3, <1>7 DEF SnapshotGone, Tick
<1>8. CASE UNCHANGED vars  BY <1>3, <1>8 DEF vars
<1>9. ASSUME NEW r \in Requests, Drop(r) PROVE RequestInv'
  <2>1. /\ req[r].pc \in Unrecorded
        /\ Become(r, Answered(req[r], None))
    BY <1>9 DEF Drop, Awaits, Unrecorded
  <2>2. RequestOK(Answered(req[r], None))
    BY <2>1, AnsweredUnlogged DEF RequestInv
  <2> QED  BY <2>1, <2>2, BecomeKeeps
<1> QED  BY <1>1, <1>2, <1>4, <1>5, <1>6, <1>7, <1>8, <1>9 DEF Next

LEMMA RequestInitInv == Init => RequestInv
<1> SUFFICES ASSUME Init PROVE RequestInv
  OBVIOUS
<1>1. /\ DOMAIN Idle = Fields /\ Idle.pc = "idle" /\ Idle.logs = <<>> /\ Idle.reply = None
      /\ ~Idle.stream
  BY DEF Idle, Fields
<1>2. Idle.reply \notin Reply  BY <1>1, NoReplyAssumption
<1>3. Final(Idle)  BY <1>1, <1>2 DEF Final, Reply
<1>4. RequestOK(Idle)  BY <1>1, <1>3 DEF RequestOK, Unrecorded, Streaming
<1> QED  BY <1>4 DEF Init, RequestInv

(* The invariant of each request's records.                                *)
THEOREM RequestInvariance == Spec => []RequestInv
<1>1. Init => RequestInv  BY RequestInitInv
<1>2. RequestInv /\ [Next]_vars => RequestInv'  BY RequestStep
<1> QED  BY <1>1, <1>2, PTL DEF Spec

LEMMA StatusesAre ==
  ASSUME NEW r
  PROVE  /\ req[r].logs = <<>> => Statuses(r) = <<>>
         /\ \A a : req[r].logs = <<a>> => Statuses(r) = <<a.status>>
         /\ \A a, b : req[r].logs = <<a, b>> => Statuses(r) = <<a.status, b.status>>
<1>1. ASSUME req[r].logs = <<>> PROVE Statuses(r) = <<>>
  BY <1>1 DEF Statuses
<1>2. ASSUME NEW a, req[r].logs = <<a>> PROVE Statuses(r) = <<a.status>>
  <2>1. DOMAIN <<a>> = 1..1 /\ <<a>>[1] = a  OBVIOUS
  <2>2. Statuses(r) = [i \in 1..1 |-> <<a>>[i].status]  BY <1>2, <2>1 DEF Statuses
  <2> QED  BY <2>1, <2>2
<1>3. ASSUME NEW a, NEW b, req[r].logs = <<a, b>> PROVE Statuses(r) = <<a.status, b.status>>
  <2>1. DOMAIN <<a, b>> = 1..2 /\ <<a, b>>[1] = a /\ <<a, b>>[2] = b  OBVIOUS
  <2>2. Statuses(r) = [i \in 1..2 |-> <<a, b>>[i].status]  BY <1>3, <2>1 DEF Statuses
  <2> QED  BY <2>1, <2>2
<1> QED  BY <1>1, <1>2, <1>3

(* What usage_log gets of a request agrees with what was answered, for any *)
(* schedule and whatever upstream, the breaker and the admin do meanwhile. *)
THEOREM RecordsMatchRepliesHold == Spec => []RecordsMatchReplies
<1>1. RequestInv => RecordsMatchReplies
  <2> SUFFICES ASSUME RequestInv, NEW r \in Requests
               PROVE
    /\ Statuses(r) \in {<<>>, <<"success">>, <<"failed">>} \cup
         (IF req[r].stream
          THEN {<<"success", "failed">>, <<"failed", "success">>} ELSE {})
    /\ \A i \in DOMAIN req[r].logs : req[r].logs[i].on = req[r].tried
    /\ req[r].reply \in {"bad_request", "unavailable"} /\ req[r].tried # None
         => Statuses(r) = <<"failed">>
    /\ req[r].reply = "ok" /\ ~req[r].stream => req[r].logs # <<>>
    /\ At(r, "idle") /\ req[r].reply = None => req[r].logs = <<>>
    BY DEF RecordsMatchReplies
  <2> DEFINE q == req[r]
             S == Record(q, "success")
             F == Record(q, "failed")
  <2>1. RequestOK(q)  BY DEF RequestInv
  <2>2. S.status = "success" /\ F.status = "failed" /\ S.on = q.tried /\ F.on = q.tried
    BY DEF Record
  <2>3. \/ q.logs = <<>> \/ q.logs = <<S>> \/ q.logs = <<F>>
        \/ q.stream /\ (q.logs = <<S, F>> \/ q.logs = <<F, S>>)
    <3>1. CASE q.pc = "idle"  BY <2>1, <3>1 DEF RequestOK, Final
    <3>2. CASE q.pc \in Unrecorded  BY <2>1, <3>2 DEF RequestOK
    <3>3. CASE q.pc \in Streaming
      <4>1. q.stream  BY <2>1, <3>3 DEF RequestOK
      <4>2. q.logs = UsageLogs(q) \/ q.logs = ErrorLogs(q)
        BY <2>1, <3>3 DEF RequestOK, Streaming
      <4>3. UsageLogs(q) = (IF q.usageDone THEN <<S>> ELSE <<>>)  BY DEF UsageLogs
      <4>4. ErrorLogs(q) = (IF q.usageDone THEN <<S, F>> ELSE <<F>>)
        BY <4>3, AppendToShort DEF ErrorLogs
      <4> QED  BY <4>1, <4>2, <4>3, <4>4
    <3> QED  BY <2>1, <3>1, <3>2, <3>3 DEF RequestOK
  <2>4. /\ q.logs = <<>> => Statuses(r) = <<>>
        /\ q.logs = <<S>> => Statuses(r) = <<"success">>
        /\ q.logs = <<F>> => Statuses(r) = <<"failed">>
        /\ q.logs = <<S, F>> => Statuses(r) = <<"success", "failed">>
        /\ q.logs = <<F, S>> => Statuses(r) = <<"failed", "success">>
    BY <2>2, StatusesAre
  <2>5. \A i \in DOMAIN q.logs : q.logs[i].on = q.tried
    <3>1. CASE q.logs = <<>>  BY <3>1
    <3>2. ASSUME NEW a \in {S, F}, q.logs = <<a>>
          PROVE  \A i \in DOMAIN q.logs : q.logs[i].on = q.tried
      <4>1. \A i \in DOMAIN <<a>> : <<a>>[i] = a  OBVIOUS
      <4> QED  BY <2>2, <3>2, <4>1
    <3>3. ASSUME NEW a \in {S, F}, NEW b \in {S, F}, q.logs = <<a, b>>
          PROVE  \A i \in DOMAIN q.logs : q.logs[i].on = q.tried
      <4>1. \A i \in DOMAIN <<a, b>> : <<a, b>>[i] = a \/ <<a, b>>[i] = b  OBVIOUS
      <4> QED  BY <2>2, <3>3, <4>1
    <3> QED  BY <2>3, <3>1, <3>2, <3>3
  <2>6. /\ q.reply \in {"bad_request", "unavailable"} /\ q.tried # None => q.logs = <<F>>
        /\ q.reply = "ok" /\ ~q.stream => q.logs # <<>>
    <3>1. CASE q.pc = "idle"  BY <2>1, <3>1 DEF RequestOK, Final
    <3>2. CASE q.pc # "idle"
      <4>1. q.reply = None  BY <2>1, <3>2 DEF RequestOK
      <4> QED  BY <4>1, NoReplyAssumption DEF Reply
    <3> QED  BY <3>1, <3>2
  <2>7. q.pc = "idle" /\ q.reply = None => q.logs = <<>>
    BY <2>1 DEF RequestOK, Final
  <2> QED  BY <2>3, <2>4, <2>5, <2>6, <2>7 DEF At
<1> QED  BY <1>1, RequestInvariance, PTL
-----------------------------------------------------------------------------
(***************************************************************************)
(* Part three: a circuit that waits for a probe has one under way.         *)
(***************************************************************************)

(* The breaker's entries keep their shape here, too.                       *)
EntriesOK ==
  /\ entries \in [Candidate -> CircuitEntry \cup {None}]
  /\ \A c \in Candidate : WellFormed(entries[c])

Waiting(slot) ==
  slot # None /\ slot.circuit_state = "HalfOpen" /\ ~slot.half_open_allowed

ProbeInv == RequestInv /\ EntriesOK /\ SomebodyProbes

LEMMA ElapseKeepsWaiting ==
  ASSUME NEW slot \in CircuitEntry \cup {None}, WellFormed(slot)
  PROVE  Waiting(Elapse(slot)) => Waiting(slot)
BY ElapseShape DEF Waiting

LEMMA OutcomeEndsWaiting ==
  ASSUME NEW slot \in CircuitEntry \cup {None}, WellFormed(slot),
         NEW v \in {AfterFailure(slot), AfterSuccess(slot)}
  PROVE  v \in CircuitEntry /\ WellFormed(v) /\ ~Waiting(v)
<1>1. CASE v = AfterFailure(slot)
  BY <1>1, AfterFailureShape DEF Waiting
<1>2. CASE v = AfterSuccess(slot)
  <2>1. v = DefaultEntry  BY <1>2, AfterSuccessIsDefault
  <2>2. v.circuit_state = "Closed"  BY <2>1 DEF DefaultEntry
  <2> QED  BY <2>1, <2>2, DefaultShape DEF Waiting
<1> QED  BY <1>1, <1>2

(* An outcome on a candidate ends the wait for it, and changes no other.   *)
LEMMA OutcomeFacts ==
  ASSUME EntriesOK, NEW x,
         \/ entries' = entries
         \/ entries' = [entries EXCEPT ![x] = AfterFailure(@)]
         \/ entries' = [entries EXCEPT ![x] = AfterSuccess(@)]
  PROVE  /\ EntriesOK'
         /\ \A c \in Candidate : Waiting(entries'[c]) => Waiting(entries[c])
         /\ entries' # entries /\ x \in Candidate => ~Waiting(entries'[x])
<1>1. CASE entries' = entries  BY <1>1 DEF EntriesOK
<1>2. CASE x \notin Candidate
  <2>1. entries' = entries  BY <1>2 DEF EntriesOK
  <2> QED  BY <1>1, <2>1
<1>3. CASE x \in Candidate /\ entries' # entries
  <2>1. PICK v \in {AfterFailure(entries[x]), AfterSuccess(entries[x])} :
          entries' = [entries EXCEPT ![x] = v]
    BY <1>3
  <2>2. v \in CircuitEntry /\ WellFormed(v) /\ ~Waiting(v)
    BY <1>3, OutcomeEndsWaiting DEF EntriesOK
  <2>3. /\ entries'[x] = v
        /\ \A c \in Candidate : c # x => entries'[c] = entries[c]
        /\ entries' \in [Candidate -> CircuitEntry \cup {None}]
    BY <1>3, <2>1, <2>2 DEF EntriesOK
  <2> QED  BY <1>3, <2>2, <2>3 DEF EntriesOK
<1> QED  BY <1>1, <1>2, <1>3

(* A status reset and the passing of time go through all the entries.      *)
LEMMA SlotwiseEntries ==
  ASSUME EntriesOK, (\E c \in Credentials : ResetBreaker(c)) \/ Tick
  PROVE  EntriesOK' /\ \A k \in Candidate : Waiting(entries'[k]) => Waiting(entries[k])
<1>1. ASSUME NEW c \in Credentials, ResetBreaker(c)
      PROVE  EntriesOK' /\ \A k \in Candidate : Waiting(entries'[k]) => Waiting(entries[k])
  <2>1. entries' = [k \in Candidate |-> IF k.credential = c THEN None ELSE entries[k]]
    BY <1>1 DEF ResetBreaker
  <2>2. EntriesOK'
    BY <2>1 DEF EntriesOK, WellFormed
  <2>3. \A k \in Candidate : Waiting(entries'[k]) => Waiting(entries[k])
    BY <2>1 DEF Waiting
  <2> QED  BY <2>2, <2>3
<1>2. ASSUME Tick
      PROVE  EntriesOK' /\ \A k \in Candidate : Waiting(entries'[k]) => Waiting(entries[k])
  <2>1. entries' = [k \in Candidate |-> Elapse(entries[k])]
    BY <1>2 DEF Tick
  <2>2. \A k \in Candidate :
          /\ Elapse(entries[k]) \in CircuitEntry \cup {None}
          /\ WellFormed(Elapse(entries[k]))
          /\ Waiting(Elapse(entries[k])) => Waiting(entries[k])
    BY ElapseShape, ElapseKeepsWaiting DEF EntriesOK
  <2> QED  BY <2>1, <2>2 DEF EntriesOK
<1> QED  BY <1>1, <1>2

LEMMA WaitingIs == \A c : WaitingOn(c) <=> Waiting(entries[c])
BY DEF WaitingOn, Waiting

(* The other requests go on as they were.                                  *)
LEMMA ProbesKept ==
  ASSUME SomebodyProbes, NEW r \in Requests,
         \A q \in Requests \ {r} : req'[q] = req[q],
         \A c \in Candidate :
           Waiting(entries'[c]) => Waiting(entries[c]) \/ c \in Attempting(r)',
         \A c \in Attempting(r) : Waiting(entries'[c]) => c \in Attempting(r)'
  PROVE  SomebodyProbes'
<1> SUFFICES ASSUME NEW c \in Candidate, Waiting(entries'[c])
             PROVE  \E q \in Requests : c \in Attempting(q)'
  BY DEF SomebodyProbes, WaitingOn, Waiting
<1>1. CASE c \in Attempting(r)'  BY <1>1
<1>2. CASE c \notin Attempting(r)'
  <2>1. PICK q \in Requests : c \in Attempting(q)
    BY <1>2, WaitingIs DEF SomebodyProbes
  <2>2. q # r  BY <1>2, <2>1
  <2>3. c \in Attempting(q)'  BY <2>1, <2>2 DEF Attempting, Current
  <2> QED  BY <2>3
<1> QED  BY <1>1, <1>2

Underway == {"send", "backoff", "resend", "body"}

(* A request that attempts nothing takes a step that attempts nothing, or  *)
(* a stream of it fails.                                                   *)
LEMMA IdleStep ==
  ASSUME ProbeInv, NEW r \in Requests, req[r].pc \notin Underway,
         NEW n, Become(r, n), NEW x,
         entries' = entries \/ entries' = [entries EXCEPT ![x] = AfterFailure(@)]
  PROVE  EntriesOK' /\ SomebodyProbes'
<1>1. \A q \in Requests \ {r} : req'[q] = req[q]
  BY DEF Become, ProbeInv, RequestInv
<1>2. Attempting(r) = {}  BY DEF Attempting, Underway
<1>3. EntriesOK' /\ \A c \in Candidate : Waiting(entries'[c]) => Waiting(entries[c])
  BY OutcomeFacts DEF ProbeInv
<1> QED  BY <1>1, <1>2, <1>3, ProbesKept DEF ProbeInv

(* An attempt ends with an outcome that the breaker is told of.            *)
LEMMA OutcomeStep ==
  ASSUME ProbeInv, NEW r \in Requests,
         NEW n, Become(r, n),
         \/ entries' = [entries EXCEPT ![Current(r)] = AfterFailure(@)]
         \/ entries' = [entries EXCEPT ![Current(r)] = AfterSuccess(@)]
  PROVE  EntriesOK' /\ SomebodyProbes'
<1>1. \A q \in Requests \ {r} : req'[q] = req[q]
  BY DEF Become, ProbeInv, RequestInv
<1>2. EntriesOK' /\ \A c \in Candidate : Waiting(entries'[c]) => Waiting(entries[c])
  BY OutcomeFacts DEF ProbeInv
<1>3. \A c \in Attempting(r) : ~Waiting(entries'[c])
  <2> SUFFICES ASSUME Current(r) \in Candidate PROVE ~Waiting(entries'[Current(r)])
    BY DEF Attempting
  <2>1. PICK v \in {AfterFailure(entries[Current(r)]), AfterSuccess(entries[Current(r)])} :
          entries' = [entries EXCEPT ![Current(r)] = v]
    OBVIOUS
  <2>2. ~Waiting(v)  BY OutcomeEndsWaiting DEF ProbeInv, EntriesOK
  <2>3. entries'[Current(r)] = v  BY <2>1 DEF ProbeInv, EntriesOK
  <2> QED  BY <2>2, <2>3
<1> QED  BY <1>1, <1>2, <1>3, ProbesKept DEF ProbeInv

(* An attempt goes on.                                                     *)
LEMMA AttemptStep ==
  ASSUME ProbeInv, NEW r \in Requests, NEW pc \in Underway,
         Become(r, [req[r] EXCEPT !.pc = pc]), entries' = entries
  PROVE  EntriesOK' /\ SomebodyProbes'
<1>1. DOMAIN req[r] = Fields  BY DEF ProbeInv, RequestInv, RequestOK
<1>2. /\ \A q \in Requests \ {r} : req'[q] = req[q]
      /\ req'[r] = [req[r] EXCEPT !.pc = pc]
  BY DEF Become, ProbeInv, RequestInv
<1>3. req'[r].pc = pc /\ req'[r].todo = req[r].todo
  BY <1>1, <1>2, MovedFacts
<1>4. \A c \in Attempting(r) : c \in Attempting(r)'
  BY <1>3 DEF Attempting, Current, Underway
<1>5. EntriesOK'  BY DEF ProbeInv, EntriesOK
<1> QED  BY <1>2, <1>4, <1>5, ProbesKept DEF ProbeInv

(* The request that is let through changes one entry at most.              *)
LEMMA TryEntries ==
  ASSUME EntriesOK, NEW r, Try(r)
  PROVE  EntriesOK' /\ \A c \in Candidate : c # Current(r) => entries'[c] = entries[c]
<1> DEFINE x == Current(r)
           v == IF Probes(entries[x]) THEN AfterProbe(entries[x]) ELSE entries[x]
<1>0. entries' = [entries EXCEPT ![x] = v]
  BY DEF Try
<1>1. CASE x \in Candidate
  <2>1. v \in CircuitEntry \cup {None} /\ WellFormed(v)
    BY <1>1, AfterProbeShape DEF EntriesOK
  <2> HIDE DEF v, x
  <2>2. entries' \in [Candidate -> CircuitEntry \cup {None}]
    BY <1>0, <2>1 DEF EntriesOK
  <2>3. \A c \in Candidate : WellFormed(entries'[c])
    BY <1>0, <1>1, <2>1 DEF EntriesOK
  <2>4. \A c \in Candidate : c # x => entries'[c] = entries[c]
    BY <1>0 DEF EntriesOK
  <2> QED  BY <2>2, <2>3, <2>4 DEF EntriesOK, x
<1>2. CASE x \notin Candidate
  <2>1. entries' = entries  BY <1>0, <1>2 DEF EntriesOK
  <2> QED  BY <2>1 DEF EntriesOK
<1> QED  BY <1>1, <1>2

(* A request that is let through by the permit is under way on it.         *)
LEMMA TryStep ==
  ASSUME ProbeInv, NEW r \in Requests, Try(r)
  PROVE  EntriesOK' /\ SomebodyProbes'
<1> DEFINE x == Current(r)
<1>1. DOMAIN req[r] = Fields /\ req[r].pc = "choose"
  BY DEF ProbeInv, RequestInv, RequestOK, Try, At
<1>2. /\ \A q \in Requests \ {r} : req'[q] = req[q]
      /\ req'[r] = [req[r] EXCEPT !.pc = "send", !.tried = x]
  BY DEF Try, Become, ProbeInv, RequestInv
<1>3. req'[r].pc = "send" /\ req'[r].todo = req[r].todo
  BY <1>1, <1>2 DEF Fields
<1>4. Attempting(r) = {}  BY <1>1 DEF Attempting
<1>5. \A c \in Candidate : c = x => c \in Attempting(r)'
  BY <1>3 DEF Attempting, Current
<1>6. EntriesOK' /\ \A c \in Candidate : c # x => entries'[c] = entries[c]
  BY TryEntries DEF ProbeInv
<1> QED  BY <1>2, <1>4, <1>5, <1>6, ProbesKept DEF ProbeInv

OutcomesReported == "Fail" \notin Answers /\ "lost" \notin Bodies /\ ~ClientsLeave

LEMMA ProbeContinues ==
  ASSUME ProbeInv, OutcomesReported, NEW r \in Requests, Continue(r) \/ Forward(r)
  PROVE  EntriesOK' /\ SomebodyProbes'
<1>1. CASE LoadRead(r)
  BY <1>1, IdleStep DEF LoadRead, At, Underway
<1>2. CASE LoadFail(r)
  BY <1>2, IdleStep DEF LoadFail, At, Underway
<1>3. CASE LoadStore(r)
  BY <1>3, IdleStep DEF LoadStore, At, Underway
<1>4. CASE Skip(r)
  BY <1>4, IdleStep DEF Skip, At, Underway
<1>5. CASE Try(r)  BY <1>5, TryStep
<1>6. CASE GiveUp(r)
  BY <1>6, IdleStep DEF GiveUp, At, Underway
<1>7. CASE Success(r)
  <2>1. CASE RecordSuccess(r) /\ Become(r, [req[r] EXCEPT !.pc = "stream"])
    BY <2>1, OutcomeStep DEF RecordSuccess
  <2>2. CASE entries' = entries /\ Become(r, [req[r] EXCEPT !.pc = "body"])
    BY <2>2, AttemptStep DEF Underway
  <2> QED  BY <1>7, <2>1, <2>2 DEF Success
<1>8. CASE Retry(r) \/ WakeUp(r)
  BY <1>8, AttemptStep DEF Retry, WakeUp, Underway
<1>9. CASE FailAgain(r) \/ CredentialFail(r)
  BY <1>9, OutcomeStep DEF FailAgain, CredentialFail, RecordFailure
<1>10. CASE Fail(r) \/ BodyLost(r)
  BY <1>10 DEF Fail, Sent, BodyLost, OutcomesReported
<1>11. CASE BodyWhole(r)
  BY <1>11, OutcomeStep DEF BodyWhole, RecordSuccess
<1>12. CASE \E isQuota \in BOOLEAN : BodyWithError(r, isQuota)
  <2>1. PICK isQuota \in BOOLEAN : BodyWithError(r, isQuota)  BY <1>12
  <2>2. /\ entries' = [entries EXCEPT ![Current(r)] = AfterFailure(@)]
        /\ \E n : Become(r, n)
    BY <2>1 DEF BodyWithError, RecordFailure
  <2> QED  BY <2>2, OutcomeStep
<1>13. CASE BodyMark(r)
  BY <1>13, IdleStep DEF BodyMark, Marking, At, Underway
<1>14. CASE \E usage \in BOOLEAN, error \in Errors :
              StreamChunk(r, usage, error) \/ StreamFinish(r, usage, error)
  <2>1. PICK usage \in BOOLEAN, error \in Errors :
              StreamChunk(r, usage, error) \/ StreamFinish(r, usage, error)
    BY <1>14
  <2>2. /\ req[r].pc \notin Underway
        /\ \E n : Become(r, n)
    BY <2>1 DEF StreamChunk, StreamFinish, At, Underway
  <2>3. entries' = entries \/ entries' = [entries EXCEPT ![Current(r)] = AfterFailure(@)]
    BY <2>1 DEF StreamChunk, StreamFinish, Scans, RecordFailure
  <2> QED  BY <2>2, <2>3, IdleStep
<1>15. CASE StreamMark(r) \/ FinishMark(r)
  BY <1>15, IdleStep DEF StreamMark, FinishMark, Marking, At, Underway
<1>16. CASE StreamStop(r)
  BY <1>16, IdleStep DEF StreamStop, At, Underway
<1> QED
  BY <1>1, <1>2, <1>3, <1>4, <1>5, <1>6, <1>7, <1>8, <1>9, <1>10, <1>11, <1>12,
     <1>13, <1>14, <1>15, <1>16 DEF Continue, Forward

LEMMA ProbeStep ==
  ASSUME OutcomesReported
  PROVE  ProbeInv /\ [Next]_vars => ProbeInv'
<1> SUFFICES ASSUME ProbeInv, [Next]_vars PROVE ProbeInv'
  OBVIOUS
<1>0. RequestInv'  BY RequestStep DEF ProbeInv
<1>1. ASSUME NEW r \in Requests, NEW key, NEW name, NEW stream, Begin(r, key, name, stream)
      PROVE  EntriesOK' /\ SomebodyProbes'
  <2>1. req[r].pc \notin Underway /\ entries' = entries /\ \E n : Become(r, n)
    BY <1>1 DEF Begin, At, Underway
  <2> QED  BY <2>1, IdleStep
<1>2. ASSUME NEW r \in Requests, Continue(r) \/ Forward(r)
      PROVE  EntriesOK' /\ SomebodyProbes'
  BY <1>2, ProbeContinues
<1>3. ASSUME req' = req, entries' = entries PROVE EntriesOK' /\ SomebodyProbes'
  BY <1>3 DEF ProbeInv, EntriesOK, SomebodyProbes, WaitingOn, Attempting, Current
<1>4. ASSUME NEW r \in Requests, NEW c \in Credentials, RunMark(r, c)
      PROVE  EntriesOK' /\ SomebodyProbes'
  BY <1>3, <1>4 DEF RunMark
<1>5. ASSUME NEW c \in Credentials, ClearQuota(c) \/ ResetStatus(c)
      PROVE  EntriesOK' /\ SomebodyProbes'
  BY <1>3, <1>5 DEF ClearQuota, ResetStatus
<1>6. ASSUME NEW key \in ApiKeys, NEW model \in ModelNames, AffinityGone(key, model)
      PROVE  EntriesOK' /\ SomebodyProbes'
  BY <1>3, <1>6 DEF AffinityGone
<1>7. ASSUME SnapshotGone PROVE EntriesOK' /\ SomebodyProbes'
  BY <1>3, <1>7 DEF SnapshotGone
<1>8. ASSUME UNCHANGED vars PROVE EntriesOK' /\ SomebodyProbes'
  BY <1>3, <1>8 DEF vars
<1>9. ASSUME req' = req, EntriesOK',
             \A c \in Candidate : Waiting(entries'[c]) => Waiting(entries[c])
      PROVE  EntriesOK' /\ SomebodyProbes'
  <2> SUFFICES ASSUME NEW c \in Candidate, Waiting(entries'[c])
               PROVE  \E r \in Requests : c \in Attempting(r)'
    BY <1>9 DEF SomebodyProbes, WaitingOn, Waiting
  <2>1. PICK r \in Requests : c \in Attempting(r)
    BY <1>9, WaitingIs DEF ProbeInv, SomebodyProbes
  <2>2. c \in Attempting(r)'  BY <1>9, <2>1 DEF Attempting, Current
  <2> QED  BY <2>2
<1>10. ASSUME NEW c \in Credentials, ResetBreaker(c) PROVE EntriesOK' /\ SomebodyProbes'
  <2>1. req' = req  BY <1>10 DEF ResetBreaker
  <2> QED  BY <1>9, <1>10, <2>1, SlotwiseEntries DEF ProbeInv
<1>11. ASSUME Tick PROVE EntriesOK' /\ SomebodyProbes'
  <2>1. req' = req  BY <1>11 DEF Tick
  <2> QED  BY <1>9, <1>11, <2>1, SlotwiseEntries DEF ProbeInv
<1>12. ASSUME NEW r \in Requests, Drop(r) PROVE FALSE
  BY <1>12 DEF Drop, OutcomesReported
<1> QED
  BY <1>0, <1>1, <1>2, <1>4, <1>5, <1>6, <1>7, <1>8, <1>10, <1>11, <1>12 DEF Next, ProbeInv

(* If upstream gives only answers whose outcome the breaker is told of and *)
(* no client leaves, a half-open circuit without a permit always has a     *)
(* request under way, for any number of requests and candidates, whatever  *)
(* the admin resets.                                                       *)
THEOREM SomebodyProbesHolds ==
  ASSUME OutcomesReported
  PROVE  Spec => []SomebodyProbes
<1>1. Init => ProbeInv
  <2> SUFFICES ASSUME Init PROVE ProbeInv
    OBVIOUS
  <2>1. EntriesOK  BY DEF Init, EntriesOK, WellFormed
  <2>2. SomebodyProbes  BY DEF Init, SomebodyProbes, WaitingOn
  <2> QED  BY <2>1, <2>2, RequestInitInv DEF ProbeInv
<1>2. ProbeInv /\ [Next]_vars => ProbeInv'  BY ProbeStep
<1>3. ProbeInv => SomebodyProbes  BY DEF ProbeInv
<1> QED  BY <1>1, <1>2, <1>3, PTL DEF Spec
-----------------------------------------------------------------------------
(***************************************************************************)
(* Part four: types, and what a request has still to try.                  *)
(***************************************************************************)
Attempted == {"send", "backoff", "resend", "body", "mark"} \cup Streaming
Planned == {"choose"} \cup Attempted

(* Between the plan and the answer every candidate is refused or still to  *)
(* be tried, and what is being tried is the first of those.                *)
RequestTyped(q) ==
  /\ q.key \in ApiKeys \cup {None}
  /\ q.name \in ModelNames \cup {None}
  /\ q.stream \in BOOLEAN
  /\ q.flags \subseteq Credentials
  /\ q.todo \in Seq(Candidate)
  /\ q.tried \in Candidate \cup {None}
  /\ q.refused \subseteq Candidate
  /\ q.usageDone \in BOOLEAN /\ q.errorDone \in BOOLEAN
  /\ q.logs \in Seq(Log)
  /\ q.reply \in Reply \cup {None}
  /\ q.pc \in Attempted => q.todo # <<>> /\ q.tried = Head(q.todo)
  /\ q.pc \in Planned => q.refused \cup ToSet(q.todo) = Candidate
  /\ q.reply = "unavailable" => q.refused = Candidate

LEMMA HeadAndTail ==
  ASSUME NEW A, NEW s \in Seq(A), s # <<>>
  PROVE  /\ Head(s) \in A /\ Tail(s) \in Seq(A)
         /\ ToSet(s) = {Head(s)} \cup ToSet(Tail(s))
<1>1. /\ Head(s) = s[1] /\ Head(s) \in A
      /\ Tail(s) \in Seq(A) /\ Len(Tail(s)) = Len(s) - 1
      /\ \A i \in 1..Len(s) - 1 : Tail(s)[i] = s[i + 1]
      /\ Len(s) \in Nat \ {0}
  OBVIOUS
<1>2. /\ \A x : x \in ToSet(s) <=> \E i \in 1..Len(s) : x = s[i]
      /\ \A x : x \in ToSet(Tail(s)) <=> \E i \in 1..Len(Tail(s)) : x = Tail(s)[i]
  <2>1. \A x : x \in ToSet(s) <=> \E i \in 1..Len(s) : x = s[i]
    BY RangeFacts
  <2>2. Tail(s) \in Seq(A)
    BY <1>1
  <2>3. \A x : x \in ToSet(Tail(s)) <=> \E i \in 1..Len(Tail(s)) : x = Tail(s)[i]
    BY <2>2, RangeFacts
  <2> QED
    BY <2>1, <2>3
<1>3. ASSUME NEW x \in ToSet(s) PROVE x = Head(s) \/ x \in ToSet(Tail(s))
  <2>1. PICK i \in 1..Len(s) : x = s[i]
    BY <1>2
  <2>2. CASE i = 1
    BY <1>1, <2>1, <2>2
  <2>3. CASE i # 1
    <3>1. i - 1 \in 1..Len(Tail(s)) /\ (i - 1) + 1 = i
      BY <1>1, <2>3
    <3>2. Tail(s)[i - 1] = s[i]
      BY <1>1, <3>1
    <3> QED
      BY <1>2, <2>1, <3>1, <3>2
  <2> QED
    BY <2>2, <2>3
<1>4. Head(s) \in ToSet(s)
  BY <1>1, <1>2
<1>5. ASSUME NEW x \in ToSet(Tail(s)) PROVE x \in ToSet(s)
  <2>1. PICK i \in 1..Len(Tail(s)) : x = Tail(s)[i]
    BY <1>2
  <2>2. i + 1 \in 1..Len(s) /\ Tail(s)[i] = s[i + 1]
    BY <1>1
  <2> QED
    BY <1>2, <2>1, <2>2
<1> QED
  BY <1>1, <1>3, <1>4, <1>5

LEMMA TypedMoved ==
  ASSUME NEW q, DOMAIN q = Fields, RequestTyped(q), NEW pc,
         pc \in Attempted => q.pc \in Attempted,
         pc \in Planned => q.pc \in Planned
  PROVE  RequestTyped([q EXCEPT !.pc = pc])
<1> DEFINE n == [q EXCEPT !.pc = pc]
<1>1. /\ n.pc = pc /\ n.key = q.key /\ n.name = q.name /\ n.stream = q.stream
      /\ n.flags = q.flags /\ n.todo = q.todo /\ n.tried = q.tried
      /\ n.refused = q.refused /\ n.usageDone = q.usageDone
      /\ n.errorDone = q.errorDone /\ n.logs = q.logs /\ n.reply = q.reply
  BY DEF Fields
<1> HIDE DEF n
<1>2. RequestTyped(n)
  BY <1>1 DEF RequestTyped
<1> QED
  BY <1>2 DEF n

LEMMA TypedRefuse ==
  ASSUME NEW q, DOMAIN q = Fields, RequestTyped(q), q.pc \in Planned, q.todo # <<>>
  PROVE  RequestTyped(Refuse(q))
<1> DEFINE n == Refuse(q)
<1>1. /\ n.pc = "choose" /\ n.key = q.key /\ n.name = q.name /\ n.stream = q.stream
      /\ n.flags = q.flags /\ n.todo = Tail(q.todo) /\ n.tried = q.tried
      /\ n.refused = q.refused \cup {Head(q.todo)} /\ n.usageDone = q.usageDone
      /\ n.errorDone = q.errorDone /\ n.logs = q.logs /\ n.reply = q.reply
  BY DEF Refuse, Fields
<1> HIDE DEF n
<1>2. q.todo \in Seq(Candidate)
  BY DEF RequestTyped
<1>3. /\ Head(q.todo) \in Candidate /\ Tail(q.todo) \in Seq(Candidate)
      /\ ToSet(q.todo) = {Head(q.todo)} \cup ToSet(Tail(q.todo))
  BY <1>2, HeadAndTail
<1>4. n.refused \subseteq Candidate /\ n.refused \cup ToSet(n.todo) = Candidate
  BY <1>1, <1>3 DEF RequestTyped
<1>5. n.reply = "unavailable" => n.refused = Candidate
  BY <1>1, <1>3 DEF RequestTyped
<1>6. n.pc \notin Attempted
  BY <1>1 DEF Attempted, Streaming
<1>7. RequestTyped(n)
  BY <1>1, <1>3, <1>4, <1>5, <1>6 DEF RequestTyped
<1> QED
  BY <1>7 DEF n

LEMMA TypedAnswered ==
  ASSUME NEW q, DOMAIN q = Fields, RequestTyped(q), NEW reply \in Reply \cup {None},
         reply = "unavailable" => q.refused = Candidate
  PROVE  RequestTyped(Answered(q, reply))
<1> DEFINE n == Answered(q, reply)
<1>1. /\ n.pc = "idle" /\ n.key = None /\ n.name = None /\ n.stream = q.stream
      /\ n.flags = {} /\ n.todo = <<>> /\ n.tried = q.tried
      /\ n.refused = q.refused /\ n.usageDone = q.usageDone
      /\ n.errorDone = q.errorDone /\ n.logs = q.logs /\ n.reply = reply
  BY DEF Answered, Fields
<1> HIDE DEF n
<1>2. n.pc \notin Attempted /\ n.pc \notin Planned
  BY <1>1 DEF Attempted, Planned, Streaming
<1>3. RequestTyped(n)
  BY <1>1, <1>2 DEF RequestTyped
<1> QED
  BY <1>3 DEF n

LEMMA TypedLogged ==
  ASSUME NEW q, DOMAIN q = Fields, RequestTyped(q), q.tried \in Candidate,
         NEW status \in {"success", "failed"}
  PROVE  /\ RequestTyped(Logged(q, status)) /\ DOMAIN Logged(q, status) = Fields
         /\ Logged(q, status).refused = q.refused
<1> DEFINE n == Logged(q, status)
<1>1. /\ n.pc = q.pc /\ n.key = q.key /\ n.name = q.name /\ n.stream = q.stream
      /\ n.flags = q.flags /\ n.todo = q.todo /\ n.tried = q.tried
      /\ n.refused = q.refused /\ n.usageDone = q.usageDone
      /\ n.errorDone = q.errorDone /\ n.reply = q.reply
      /\ n.logs = Append(q.logs, Record(q, status)) /\ DOMAIN n = Fields
  BY DEF Logged, Fields, Record
<1> HIDE DEF n
<1>2. Record(q, status) \in Log
  BY DEF RequestTyped, Record, Log
<1>3. q.logs \in Seq(Log)
  BY DEF RequestTyped
<1>4. n.logs \in Seq(Log)
  BY <1>1, <1>2, <1>3
<1>5. RequestTyped(n)
  BY <1>1, <1>4 DEF RequestTyped
<1> QED
  BY <1>1, <1>5 DEF n

LEMMA TypedScanned ==
  ASSUME NEW q, DOMAIN q = Fields, RequestTyped(q), q.tried \in Candidate,
         NEW usage \in BOOLEAN, NEW error \in Errors
  PROVE  RequestTyped(Scanned(q, usage, error))
<1> DEFINE l == Logged(q, "success")
           seen == IF usage THEN [l EXCEPT !.usageDone = TRUE] ELSE q
           hit == [seen EXCEPT !.errorDone = TRUE]
<1>1. RequestTyped(l) /\ DOMAIN l = Fields /\ l.tried = q.tried
  BY TypedLogged, LoggedFacts
<1> HIDE DEF l
<1>2. RequestTyped(seen) /\ DOMAIN seen = Fields /\ seen.tried = q.tried
  <2>1. CASE usage
    <3> DEFINE n == [l EXCEPT !.usageDone = TRUE]
    <3>1. /\ n.pc = l.pc /\ n.key = l.key /\ n.name = l.name /\ n.stream = l.stream
          /\ n.flags = l.flags /\ n.todo = l.todo /\ n.tried = l.tried
          /\ n.refused = l.refused /\ n.usageDone = TRUE
          /\ n.errorDone = l.errorDone /\ n.logs = l.logs /\ n.reply = l.reply
          /\ DOMAIN n = Fields
      BY <1>1 DEF Fields
    <3> HIDE DEF n
    <3>2. RequestTyped(n)
      BY <1>1, <3>1 DEF RequestTyped
    <3> QED
      BY <1>1, <2>1, <3>1, <3>2 DEF n
  <2>2. CASE ~usage
    BY <2>2
  <2> QED
    BY <2>1, <2>2
<1> HIDE DEF seen
<1>3. RequestTyped(hit) /\ DOMAIN hit = Fields /\ hit.tried = q.tried
  <2>1. /\ hit.pc = seen.pc /\ hit.key = seen.key /\ hit.name = seen.name
        /\ hit.stream = seen.stream /\ hit.flags = seen.flags /\ hit.todo = seen.todo
        /\ hit.tried = seen.tried /\ hit.refused = seen.refused
        /\ hit.usageDone = seen.usageDone /\ hit.errorDone = TRUE
        /\ hit.logs = seen.logs /\ hit.reply = seen.reply /\ DOMAIN hit = Fields
    BY <1>2 DEF Fields
  <2> HIDE DEF hit
  <2>2. RequestTyped(hit)
    BY <1>2, <2>1 DEF RequestTyped
  <2> QED
    BY <1>2, <2>1, <2>2
<1> HIDE DEF hit
<1>4. Scanned(q, usage, error) =
        IF error = "plain" THEN Logged(hit, "failed")
        ELSE IF error = "quota" THEN hit ELSE seen
  BY DEF Scanned, hit, seen, l
<1>5. RequestTyped(Logged(hit, "failed"))
  BY <1>3, TypedLogged
<1> QED
  BY <1>2, <1>3, <1>4, <1>5

SharedOK ==
  /\ exhausted \subseteq Credentials
  /\ snapshot = None \/ snapshot \in SUBSET Credentials
  /\ affinity \in [ApiKeys -> [ModelNames -> Target \cup {None}]]
  /\ marks \subseteq Requests \X Credentials
  /\ resetting \subseteq Credentials
  /\ failing \in [Candidate -> 0..Threshold]

RequestsTyped == \A r \in Requests : RequestTyped(req[r])

TypedInv == RequestInv /\ EntriesOK /\ SharedOK /\ RequestsTyped

LEMMA BecomeTyped ==
  ASSUME RequestInv, RequestsTyped, NEW r \in Requests,
         NEW n, Become(r, n), RequestTyped(n)
  PROVE  RequestsTyped'
BY DEF RequestInv, RequestsTyped, RequestTyped, Become

LEMMA BeginTyped ==
  ASSUME TypedInv, NEW r \in Requests, NEW key \in ApiKeys \cup {None},
         NEW name \in ModelNames \cup {None}, NEW stream \in Kinds,
         Begin(r, key, name, stream)
  PROVE  RequestsTyped'
<1> DEFINE q == [Idle EXCEPT !.key = key, !.stream = stream]
<1>1. /\ DOMAIN q = Fields
      /\ q.key = key /\ q.name = None /\ q.stream = stream /\ q.flags = {}
      /\ q.todo = <<>> /\ q.tried = None /\ q.refused = {} /\ q.usageDone = FALSE
      /\ q.errorDone = FALSE /\ q.logs = <<>> /\ q.reply = None
  BY DEF Idle, Fields
<1>2. stream \in BOOLEAN
  BY UpstreamAssumption
<1>3. None # "unavailable"
  BY NoReplyAssumption DEF Reply
<1> HIDE DEF q
<1>4. CASE snapshot # None
           /\ Become(r, [q EXCEPT !.pc = "choose", !.flags = snapshot,
                                  !.todo = Plan(key, name)])
  <2> DEFINE n == [q EXCEPT !.pc = "choose", !.flags = snapshot,
                            !.todo = Plan(key, name)]
  <2>1. /\ n.pc = "choose" /\ n.key = key /\ n.name = None /\ n.stream = stream
        /\ n.flags = snapshot /\ n.todo = Plan(key, name) /\ n.tried = None
        /\ n.refused = {} /\ n.usageDone = FALSE /\ n.errorDone = FALSE
        /\ n.logs = <<>> /\ n.reply = None
    BY <1>1 DEF Fields
  <2> HIDE DEF n
  <2>2. snapshot \subseteq Credentials
    BY <1>4 DEF TypedInv, SharedOK
  <2>3. n.todo \in Seq(Candidate) /\ ToSet(n.todo) = Candidate
    BY <2>1, PlanRange
  <2>4. n.pc \notin Attempted /\ <<>> \in Seq(Log)
    BY <2>1 DEF Attempted, Streaming
  <2>5. n.refused \cup ToSet(n.todo) = Candidate
    BY <2>1, <2>3
  <2>6. RequestTyped(n)
    BY <1>2, <1>3, <2>1, <2>2, <2>3, <2>4, <2>5 DEF RequestTyped
  <2> QED
    BY <1>4, <2>6, BecomeTyped DEF n, TypedInv
<1>5. CASE Become(r, [q EXCEPT !.pc = "load", !.name = name])
  <2> DEFINE n == [q EXCEPT !.pc = "load", !.name = name]
  <2>1. /\ n.pc = "load" /\ n.key = key /\ n.name = name /\ n.stream = stream
        /\ n.flags = {} /\ n.todo = <<>> /\ n.tried = None
        /\ n.refused = {} /\ n.usageDone = FALSE /\ n.errorDone = FALSE
        /\ n.logs = <<>> /\ n.reply = None
    BY <1>1 DEF Fields
  <2> HIDE DEF n
  <2>2. n.pc \notin Attempted /\ n.pc \notin Planned
    BY <2>1 DEF Attempted, Planned, Streaming
  <2>3. <<>> \in Seq(Log) /\ <<>> \in Seq(Candidate)
    OBVIOUS
  <2>4. RequestTyped(n)
    BY <1>2, <1>3, <2>1, <2>2, <2>3 DEF RequestTyped
  <2> QED
    BY <1>5, <2>4, BecomeTyped DEF n, TypedInv
<1> QED
  BY <1>4, <1>5 DEF Begin, q

(* The steps of a request up to its answer or its stream.                  *)
LEMMA AttemptsTyped ==
  ASSUME TypedInv, NEW r \in Requests,
         \/ LoadRead(r) \/ LoadFail(r) \/ LoadStore(r)
         \/ Skip(r) \/ Try(r) \/ GiveUp(r)
         \/ Success(r) \/ Retry(r) \/ WakeUp(r)
         \/ FailAgain(r) \/ CredentialFail(r) \/ Fail(r)
         \/ BodyLost(r) \/ BodyWhole(r) \/ BodyMark(r) \/ Drop(r)
         \/ \E isQuota \in BOOLEAN : BodyWithError(r, isQuota)
  PROVE  RequestsTyped'
<1> DEFINE q == req[r]
<1>0. DOMAIN q = Fields /\ RequestTyped(q)
  BY DEF TypedInv, RequestInv, RequestOK, RequestsTyped
<1>a. ASSUME NEW n, Become(r, n), RequestTyped(n) PROVE RequestsTyped'
  BY <1>a, BecomeTyped DEF TypedInv
<1>b. ASSUME q.pc \in Attempted
      PROVE  q.tried \in Candidate /\ q.todo # <<>> /\ q.pc \in Planned
  <2>1. q.todo # <<>> /\ q.tried = Head(q.todo) /\ q.todo \in Seq(Candidate)
    BY <1>0, <1>b DEF RequestTyped
  <2> QED
    BY <1>b, <2>1 DEF Planned
<1>c. None \notin Reply
  BY NoReplyAssumption
<1>1. CASE LoadRead(r)
  <2> DEFINE n == [q EXCEPT !.pc = "store", !.flags = exhausted]
  <2>1. /\ n.pc = "store" /\ n.key = q.key /\ n.name = q.name /\ n.stream = q.stream
        /\ n.flags = exhausted /\ n.todo = q.todo /\ n.tried = q.tried
        /\ n.refused = q.refused /\ n.usageDone = q.usageDone
        /\ n.errorDone = q.errorDone /\ n.logs = q.logs /\ n.reply = q.reply
    BY <1>0 DEF Fields
  <2>2. Become(r, n)
    BY <1>1 DEF LoadRead
  <2> HIDE DEF n, q
  <2>3. n.pc \notin Attempted /\ n.pc \notin Planned /\ n.flags \subseteq Credentials
    BY <2>1 DEF Attempted, Planned, Streaming, TypedInv, SharedOK
  <2>4. RequestTyped(n)
    BY <1>0, <2>1, <2>3 DEF RequestTyped
  <2> QED
    BY <1>a, <2>2, <2>4
<1>2. CASE LoadStore(r)
  <2> DEFINE plan == Plan(q.key, q.name)
             n == [q EXCEPT !.pc = "choose", !.name = None, !.todo = plan]
  <2>0. plan \in Seq(Candidate) /\ ToSet(plan) = Candidate
    BY PlanRange
  <2>1. Become(r, n)
    BY <1>2 DEF LoadStore
  <2> HIDE DEF plan
  <2>2. /\ n.pc = "choose" /\ n.key = q.key /\ n.name = None /\ n.stream = q.stream
        /\ n.flags = q.flags /\ n.todo = plan /\ n.tried = q.tried
        /\ n.refused = q.refused /\ n.usageDone = q.usageDone
        /\ n.errorDone = q.errorDone /\ n.logs = q.logs /\ n.reply = q.reply
    BY <1>0 DEF Fields
  <2> HIDE DEF n, q
  <2>3. n.pc \notin Attempted
    BY <2>2 DEF Attempted, Streaming
  <2>4. n.refused \cup ToSet(n.todo) = Candidate
    BY <1>0, <2>0, <2>2 DEF RequestTyped
  <2>5. RequestTyped(n)
    BY <1>0, <2>0, <2>2, <2>3, <2>4 DEF RequestTyped
  <2> QED
    BY <1>a, <2>1, <2>5
<1>3. CASE LoadFail(r) \/ BodyLost(r)
  <2>1. RequestTyped(Answered(q, "internal"))
    BY <1>0, TypedAnswered DEF Reply
  <2> QED
    BY <1>3, <1>a, <2>1 DEF LoadFail, BodyLost
<1>4. CASE Drop(r)
  <2>1. RequestTyped(Answered(q, None))
    BY <1>0, <1>c, TypedAnswered DEF Reply
  <2> QED
    BY <1>4, <1>a, <2>1 DEF Drop
<1>5. CASE Skip(r) \/ FailAgain(r) \/ CredentialFail(r)
  <2>1. q.pc \in Planned /\ q.todo # <<>> /\ Become(r, Refuse(q))
    BY <1>5, <1>b DEF Skip, FailAgain, CredentialFail, Sent, Resent, At, Attempted, Planned
  <2>2. RequestTyped(Refuse(q))
    BY <1>0, <2>1, TypedRefuse
  <2> QED
    BY <1>a, <2>1, <2>2
<1>6. CASE Try(r)
  <2> DEFINE n == [q EXCEPT !.pc = "send", !.tried = Head(q.todo)]
  <2>1. /\ n.pc = "send" /\ n.key = q.key /\ n.name = q.name /\ n.stream = q.stream
        /\ n.flags = q.flags /\ n.todo = q.todo /\ n.tried = Head(q.todo)
        /\ n.refused = q.refused /\ n.usageDone = q.usageDone
        /\ n.errorDone = q.errorDone /\ n.logs = q.logs /\ n.reply = q.reply
    BY <1>0 DEF Fields
  <2>2. Become(r, n) /\ q.pc = "choose" /\ q.todo # <<>>
    BY <1>6 DEF Try, Current, At
  <2> HIDE DEF n, q
  <2>3. q.todo \in Seq(Candidate) /\ q.refused \cup ToSet(q.todo) = Candidate
    BY <1>0, <2>2 DEF RequestTyped, Planned
  <2>4. Head(q.todo) \in Candidate
    BY <2>2, <2>3
  <2>5. RequestTyped(n)
    BY <1>0, <2>1, <2>2, <2>3, <2>4 DEF RequestTyped
  <2> QED
    BY <1>a, <2>2, <2>5
<1>7. CASE GiveUp(r)
  <2> DEFINE l == IF q.tried = None THEN q ELSE Logged(q, "failed")
  <2>1. q.pc = "choose" /\ q.todo = <<>> /\ Become(r, Answered(l, "unavailable"))
    BY <1>7 DEF GiveUp, At
  <2>2. q.refused = Candidate
    <3>1. q.refused \cup ToSet(q.todo) = Candidate
      BY <1>0, <2>1 DEF RequestTyped, Planned
    <3>2. ToSet(<<>>) = {}
      BY DEF ToSet
    <3> QED
      BY <2>1, <3>1, <3>2
  <2>3. RequestTyped(l) /\ DOMAIN l = Fields /\ l.refused = Candidate
    <3>1. q.tried \in Candidate \cup {None}
      BY <1>0 DEF RequestTyped
    <3> QED
      BY <1>0, <2>2, <3>1, TypedLogged
  <2> HIDE DEF l
  <2>4. RequestTyped(Answered(l, "unavailable"))
    BY <2>3, TypedAnswered DEF Reply
  <2> QED
    BY <1>a, <2>1, <2>4
<1>8. CASE Success(r) \/ Retry(r) \/ WakeUp(r)
           \/ \E isQuota \in BOOLEAN : BodyWithError(r, isQuota) /\ isQuota
  <2>1. q.pc \in Attempted
        /\ \E pc \in Attempted : Become(r, [q EXCEPT !.pc = pc])
    BY <1>8 DEF Success, Retry, WakeUp, BodyWithError, Sent, Resent, At, Attempted, Streaming
  <2>2. ASSUME NEW pc \in Attempted PROVE RequestTyped([q EXCEPT !.pc = pc])
    BY <1>0, <1>b, <2>1, TypedMoved
  <2> QED
    BY <1>a, <2>1, <2>2
<1>9. CASE Fail(r) \/ BodyWhole(r) \/ BodyMark(r)
           \/ \E isQuota \in BOOLEAN : BodyWithError(r, isQuota) /\ ~isQuota
  <2>1. /\ q.pc \in Attempted
        /\ \E status \in {"success", "failed"}, reply \in {"ok", "bad_request"} :
             Become(r, Answered(Logged(q, status), reply))
    BY <1>9 DEF Fail, BodyWhole, BodyMark, BodyWithError, Marking, Sent, At, Attempted
  <2>2. ASSUME NEW status \in {"success", "failed"}, NEW reply \in {"ok", "bad_request"}
        PROVE  RequestTyped(Answered(Logged(q, status), reply))
    <3>1. RequestTyped(Logged(q, status)) /\ DOMAIN Logged(q, status) = Fields
      BY <1>0, <1>b, <2>1, TypedLogged
    <3>2. reply \in Reply /\ reply # "unavailable"
      BY DEF Reply
    <3> QED
      BY <3>1, <3>2, TypedAnswered
  <2> QED
    BY <1>a, <2>1, <2>2
<1> QED
  BY <1>1, <1>2, <1>3, <1>4, <1>5, <1>6, <1>7, <1>8, <1>9

(* The task that forwards a stream.                                        *)
LEMMA StreamTyped ==
  ASSUME TypedInv, NEW r \in Requests,
         \/ \E usage \in BOOLEAN, error \in Errors :
              StreamChunk(r, usage, error) \/ StreamFinish(r, usage, error)
         \/ StreamMark(r) \/ StreamStop(r) \/ FinishMark(r)
  PROVE  RequestsTyped'
<1> DEFINE q == req[r]
<1>0. DOMAIN q = Fields /\ RequestTyped(q)
  BY DEF TypedInv, RequestInv, RequestOK, RequestsTyped
<1>a. ASSUME NEW n, Become(r, n), RequestTyped(n) PROVE RequestsTyped'
  BY <1>a, BecomeTyped DEF TypedInv
<1>b. q.pc \in Attempted
  BY DEF StreamChunk, StreamFinish, StreamMark, StreamStop, FinishMark, Marking, At,
         Attempted, Streaming
<1>c. q.tried \in Candidate
  <2>1. q.todo # <<>> /\ q.tried = Head(q.todo) /\ q.todo \in Seq(Candidate)
    BY <1>0, <1>b DEF RequestTyped
  <2> QED
    BY <2>1
<1>d. ASSUME NEW n, DOMAIN n = Fields, RequestTyped(n), n.pc = q.pc,
             NEW pc \in Attempted
      PROVE  RequestTyped([n EXCEPT !.pc = pc])
  BY <1>b, <1>d, TypedMoved DEF Planned
<1>1. ASSUME NEW usage \in BOOLEAN, NEW error \in Errors,
             StreamChunk(r, usage, error) \/ StreamFinish(r, usage, error)
      PROVE  RequestsTyped'
  <2> DEFINE n == Scanned(q, usage, error)
  <2>1. RequestTyped(n)
    BY <1>0, <1>c, TypedScanned
  <2>2. DOMAIN n = Fields /\ n.pc = q.pc
    BY <1>0, ScannedFacts DEF ScanResult
  <2>3. \/ \E pc \in Attempted : Become(r, [n EXCEPT !.pc = pc])
        \/ Become(r, Answered(n, "ok"))
    BY <1>1 DEF StreamChunk, StreamFinish, Attempted, Streaming, Errors
  <2> HIDE DEF n, q
  <2>4. ASSUME NEW pc \in Attempted PROVE RequestTyped([n EXCEPT !.pc = pc])
    BY <1>d, <2>1, <2>2
  <2>5. RequestTyped(Answered(n, "ok"))
    BY <2>1, <2>2, TypedAnswered DEF Reply
  <2> QED
    BY <1>a, <2>3, <2>4, <2>5
<1>2. CASE StreamMark(r) \/ FinishMark(r)
  <2> DEFINE n == Logged(q, "failed")
  <2>1. RequestTyped(n) /\ DOMAIN n = Fields /\ n.pc = q.pc
    BY <1>0, <1>c, TypedLogged, LoggedFacts
  <2>2. Become(r, [n EXCEPT !.pc = "finish"]) \/ Become(r, Answered(n, "ok"))
    BY <1>2 DEF StreamMark, FinishMark
  <2> HIDE DEF n, q
  <2>3. RequestTyped([n EXCEPT !.pc = "finish"])
    BY <1>d, <2>1 DEF Attempted, Streaming
  <2>4. RequestTyped(Answered(n, "ok"))
    BY <2>1, TypedAnswered DEF Reply
  <2> QED
    BY <1>a, <2>2, <2>3, <2>4
<1>3. CASE StreamStop(r)
  <2>1. Become(r, [q EXCEPT !.pc = "finish"])
    BY <1>3 DEF StreamStop
  <2>2. RequestTyped([q EXCEPT !.pc = "finish"])
    BY <1>0, <1>d DEF Attempted, Streaming
  <2> QED
    BY <1>a, <2>1, <2>2
<1> QED
  BY <1>1, <1>2, <1>3

LEMMA RequestsTypedStep == TypedInv /\ [Next]_vars => RequestsTyped'
<1> SUFFICES ASSUME TypedInv, [Next]_vars PROVE RequestsTyped'
  OBVIOUS
<1>1. ASSUME NEW r \in Requests, NEW key \in ApiKeys \cup {None},
             NEW name \in ModelNames \cup {None}, NEW stream \in Kinds,
             Begin(r, key, name, stream)
      PROVE  RequestsTyped'
  BY <1>1, BeginTyped
<1>2. ASSUME NEW r \in Requests, Continue(r) \/ Forward(r) \/ Drop(r)
      PROVE  RequestsTyped'
  BY <1>2, AttemptsTyped, StreamTyped DEF Continue, Forward
<1>3. ASSUME req' = req PROVE RequestsTyped'
  BY <1>3 DEF TypedInv, RequestsTyped, RequestTyped
<1>4. ASSUME NEW r \in Requests, NEW c \in Credentials, RunMark(r, c) PROVE RequestsTyped'
  BY <1>3, <1>4 DEF RunMark
<1>5. ASSUME NEW c \in Credentials, ClearQuota(c) \/ ResetStatus(c) \/ ResetBreaker(c)
      PROVE  RequestsTyped'
  BY <1>3, <1>5 DEF ClearQuota, ResetStatus, ResetBreaker
<1>6. ASSUME NEW key \in ApiKeys, NEW model \in ModelNames, AffinityGone(key, model)
      PROVE  RequestsTyped'
  BY <1>3, <1>6 DEF AffinityGone
<1>7. CASE SnapshotGone \/ Tick  BY <1>3, <1>7 DEF SnapshotGone, Tick
<1>8. CASE UNCHANGED vars  BY <1>3, <1>8 DEF vars
<1> QED  BY <1>1, <1>2, <1>4, <1>5, <1>6, <1>7, <1>8 DEF Next

LEMMA EntriesStep == EntriesOK /\ [Next]_vars => EntriesOK'
<1> SUFFICES ASSUME EntriesOK, [Next]_vars PROVE EntriesOK'
  OBVIOUS
<1>1. ASSUME entries' = entries PROVE EntriesOK'
  BY <1>1 DEF EntriesOK
<1>2. ASSUME NEW x,
             \/ entries' = entries
             \/ entries' = [entries EXCEPT ![x] = AfterFailure(@)]
             \/ entries' = [entries EXCEPT ![x] = AfterSuccess(@)]
      PROVE  EntriesOK'
  BY <1>2, OutcomeFacts
<1>3. ASSUME NEW r \in Requests, Continue(r) \/ Forward(r)
      PROVE  EntriesOK'
  <2>1. CASE Try(r)  BY <2>1, TryEntries
  <2>2. CASE \/ LoadRead(r) \/ LoadFail(r) \/ LoadStore(r) \/ Skip(r) \/ GiveUp(r)
             \/ Retry(r) \/ WakeUp(r) \/ Fail(r) \/ BodyLost(r) \/ BodyMark(r)
             \/ StreamMark(r) \/ StreamStop(r) \/ FinishMark(r)
    BY <1>1, <2>2
    DEF LoadRead, LoadFail, LoadStore, Skip, GiveUp, Retry, WakeUp, Fail, BodyLost,
        BodyMark, StreamMark, StreamStop, FinishMark, Marking
  <2>3. CASE \/ Success(r) \/ FailAgain(r) \/ CredentialFail(r) \/ BodyWhole(r)
             \/ \E isQuota \in BOOLEAN : BodyWithError(r, isQuota)
    BY <1>2, <2>3
    DEF Success, FailAgain, CredentialFail, BodyWhole, BodyWithError, RecordSuccess,
        RecordFailure
  <2>4. CASE \E usage \in BOOLEAN, error \in Errors :
               StreamChunk(r, usage, error) \/ StreamFinish(r, usage, error)
    BY <1>2, <2>4 DEF StreamChunk, StreamFinish, Scans, RecordFailure
  <2> QED  BY <1>3, <2>1, <2>2, <2>3, <2>4 DEF Continue, Forward
<1>4. CASE (\E c \in Credentials : ResetBreaker(c)) \/ Tick
  BY <1>4, SlotwiseEntries
<1>5. ASSUME NEW r \in Requests,
             \/ \E key \in ApiKeys \cup {None}, name \in ModelNames \cup {None},
                   stream \in Kinds : Begin(r, key, name, stream)
             \/ Drop(r) \/ \E c \in Credentials : RunMark(r, c)
      PROVE  EntriesOK'
  BY <1>1, <1>5 DEF Begin, Drop, RunMark
<1>6. CASE \/ \E c \in Credentials : ClearQuota(c) \/ ResetStatus(c)
           \/ \E key \in ApiKeys, model \in ModelNames : AffinityGone(key, model)
           \/ SnapshotGone \/ UNCHANGED vars
  BY <1>1, <1>6 DEF ClearQuota, ResetStatus, AffinityGone, SnapshotGone, vars
<1> QED  BY <1>3, <1>4, <1>5, <1>6 DEF Next

(* What is being tried is a candidate of the schedule.                     *)
LEMMA CurrentIs ==
  ASSUME TypedInv, NEW r \in Requests, req[r].pc \in Attempted
  PROVE  Current(r) \in Candidate /\ Current(r).credential \in Credentials
<1>1. req[r].todo # <<>> /\ req[r].todo \in Seq(Candidate)
  BY DEF TypedInv, RequestsTyped, RequestTyped
<1>2. Current(r) \in Candidate
  BY <1>1 DEF Current
<1> QED
  BY <1>2 DEF Credentials

LEMMA FailingTyped ==
  ASSUME SharedOK, NEW c \in Candidate,
         failing' = failing \/ CountFailing(c) \/ NotFailing(c)
  PROVE  failing' \in [Candidate -> 0..Threshold]
<1>1. /\ failing \in [Candidate -> 0..Threshold] /\ Threshold \in Nat
      /\ failing[c] \in 0..Threshold
  BY ThresholdAssumption DEF SharedOK
<1>2. (IF failing[c] < Threshold THEN failing[c] + 1 ELSE failing[c]) \in 0..Threshold
  BY <1>1
<1> QED
  BY <1>1, <1>2 DEF CountFailing, NotFailing

LEMMA AffinityTyped ==
  ASSUME TypedInv, NEW r \in Requests, req[r].pc \in Attempted,
         affinity' = affinity \/ RecordSuccess(r)
  PROVE  affinity' \in [ApiKeys -> [ModelNames -> Target \cup {None}]]
<1> DEFINE k == req[r].key
           c == Current(r)
           t == [provider |-> c.provider, credential |-> c.credential]
<1>1. affinity \in [ApiKeys -> [ModelNames -> Target \cup {None}]]
  BY DEF TypedInv, SharedOK
<1>2. CASE affinity' = affinity \/ k = None
  BY <1>1, <1>2 DEF RecordSuccess
<1>3. CASE RecordSuccess(r) /\ k # None
  <2>1. c \in Candidate /\ c.credential \in Credentials
    BY CurrentIs
  <2>2. k \in ApiKeys
    BY <1>3 DEF TypedInv, RequestsTyped, RequestTyped
  <2>3. t \in Target /\ c.model \in ModelNames
    BY <2>1 DEF Target, ModelNames
  <2>4. affinity' = [affinity EXCEPT ![k][c.model] = t]
    BY <1>3 DEF RecordSuccess
  <2> HIDE DEF k, c, t
  <2>5. affinity[k] \in [ModelNames -> Target \cup {None}]
    BY <1>1, <2>2
  <2>6. [affinity[k] EXCEPT ![c.model] = t] \in [ModelNames -> Target \cup {None}]
    BY <2>3, <2>5
  <2>7. affinity' = [affinity EXCEPT ![k] = [affinity[k] EXCEPT ![c.model] = t]]
    BY <2>4
  <2> QED
    BY <1>1, <2>2, <2>6, <2>7
<1> QED
  BY <1>2, <1>3

LEMMA SharedStep == TypedInv /\ [Next]_vars => SharedOK'
<1> SUFFICES ASSUME TypedInv, [Next]_vars PROVE SharedOK'
  OBVIOUS
<1>0. SharedOK
  BY DEF TypedInv
<1>1. CASE UNCHANGED <<shared, affinity, failing>>
  BY <1>0, <1>1 DEF SharedOK, shared
<1>2. ASSUME NEW c \in Credentials, exhausted' \subseteq exhausted \cup {c},
             UNCHANGED <<snapshot, affinity, failing>>,
             marks' \subseteq marks, resetting' \subseteq resetting \cup {c}
      PROVE  SharedOK'
  <2>1. exhausted' \subseteq Credentials /\ resetting' \subseteq Credentials
    BY <1>0, <1>2 DEF SharedOK
  <2>2. marks' \subseteq Requests \X Credentials
    BY <1>0, <1>2 DEF SharedOK
  <2>3. snapshot' = snapshot /\ affinity' = affinity /\ failing' = failing
    BY <1>2
  <2> QED
    BY <1>0, <2>1, <2>2, <2>3 DEF SharedOK
<1>3. ASSUME NEW r \in Requests, req[r].pc \in Attempted,
             affinity' = affinity \/ RecordSuccess(r),
             failing' = failing \/ CountFailing(Current(r)) \/ NotFailing(Current(r)),
             \/ UNCHANGED shared
             \/ /\ UNCHANGED <<exhausted, snapshot, resetting>>
                /\ marks' = marks \cup {<<r, Current(r).credential>>}
      PROVE  SharedOK'
  <2>1. Current(r) \in Candidate /\ Current(r).credential \in Credentials
    BY <1>3, CurrentIs
  <2>2. /\ affinity' \in [ApiKeys -> [ModelNames -> Target \cup {None}]]
        /\ failing' \in [Candidate -> 0..Threshold]
    BY <1>0, <1>3, <2>1, AffinityTyped, FailingTyped
  <2>3. marks' \subseteq Requests \X Credentials
    BY <1>0, <1>3, <2>1 DEF SharedOK, shared
  <2>4. exhausted' = exhausted /\ snapshot' = snapshot /\ resetting' = resetting
    BY <1>3 DEF shared
  <2> QED
    BY <1>0, <2>2, <2>3, <2>4 DEF SharedOK
<1>4. ASSUME NEW r \in Requests, Continue(r) \/ Forward(r)
      PROVE  SharedOK'
  <2>1. CASE \/ LoadRead(r) \/ LoadFail(r) \/ Skip(r) \/ Try(r) \/ GiveUp(r)
             \/ Retry(r) \/ WakeUp(r) \/ Fail(r) \/ BodyLost(r) \/ StreamStop(r)
             \/ \E usage \in BOOLEAN, error \in Errors : StreamChunk(r, usage, error)
    BY <1>1, <2>1
    DEF LoadRead, LoadFail, Skip, Try, GiveUp, Retry, WakeUp, Fail, BodyLost, StreamStop,
        StreamChunk, Scans
  <2>2. CASE LoadStore(r)
    <3>1. /\ snapshot' = req[r].flags
          /\ UNCHANGED <<exhausted, marks, resetting, affinity, failing>>
      BY <2>2 DEF LoadStore
    <3>2. req[r].flags \subseteq Credentials
      BY DEF TypedInv, RequestsTyped, RequestTyped
    <3> QED
      BY <1>0, <3>1, <3>2 DEF SharedOK
  <2>3. CASE Success(r) \/ BodyWhole(r)
    <3>1. /\ req[r].pc \in Attempted /\ UNCHANGED shared
          /\ affinity' = affinity \/ RecordSuccess(r)
          /\ failing' = failing \/ NotFailing(Current(r))
      BY <2>3 DEF Success, BodyWhole, Sent, Resent, At, Attempted
    <3> QED
      BY <1>3, <3>1
  <2>4. CASE FailAgain(r) \/ CredentialFail(r)
             \/ \E isQuota \in BOOLEAN : BodyWithError(r, isQuota)
    <3>1. /\ req[r].pc \in Attempted /\ affinity' = affinity /\ CountFailing(Current(r))
          /\ \/ UNCHANGED shared
             \/ /\ UNCHANGED <<exhausted, snapshot, resetting>>
                /\ marks' = marks \cup {<<r, Current(r).credential>>}
      BY <2>4
      DEF FailAgain, CredentialFail, BodyWithError, Sent, Resent, At, Attempted
    <3> QED
      BY <1>3, <3>1
  <2>5. CASE \E usage \in BOOLEAN, error \in Errors : StreamFinish(r, usage, error)
    <3>1. /\ req[r].pc \in Attempted /\ UNCHANGED shared /\ affinity' = affinity
          /\ CountFailing(Current(r)) \/ NotFailing(Current(r))
      BY <2>5 DEF StreamFinish, Scans, At, Attempted, Streaming
    <3> QED
      BY <1>3, <3>1
  <2>6. CASE BodyMark(r) \/ StreamMark(r) \/ FinishMark(r)
    <3>1. /\ req[r].pc \in Attempted
          /\ exhausted' \subseteq exhausted \cup {Current(r).credential}
          /\ UNCHANGED <<snapshot, affinity, marks, resetting, failing>>
      BY <2>6 DEF BodyMark, StreamMark, FinishMark, Marking, At, Attempted, Streaming
    <3>2. Current(r).credential \in Credentials
      BY <3>1, CurrentIs
    <3> QED
      BY <1>2, <3>1, <3>2
  <2> QED
    BY <1>4, <2>1, <2>2, <2>3, <2>4, <2>5, <2>6 DEF Continue, Forward
<1>5. ASSUME NEW r \in Requests, NEW key \in ApiKeys \cup {None},
             NEW name \in ModelNames \cup {None}, NEW stream \in Kinds,
             Begin(r, key, name, stream)
      PROVE  SharedOK'
  BY <1>1, <1>5 DEF Begin
<1>6. ASSUME NEW r \in Requests, Drop(r) PROVE SharedOK'
  <2>1. CASE exhausted' = exhausted
    BY <1>1, <1>6, <2>1 DEF Drop, shared
  <2>2. CASE At(r, "mark") /\ exhausted' = exhausted \cup {Current(r).credential}
    <3>1. Current(r).credential \in Credentials
      BY <2>2, CurrentIs DEF At, Attempted
    <3> QED
      BY <1>2, <1>6, <2>2, <3>1 DEF Drop
  <2> QED
    BY <1>6, <2>1, <2>2 DEF Drop
<1>7. ASSUME NEW r \in Requests, NEW c \in Credentials, RunMark(r, c) PROVE SharedOK'
  BY <1>2, <1>7 DEF RunMark
<1>8. ASSUME NEW c \in Credentials, ClearQuota(c) \/ ResetStatus(c) PROVE SharedOK'
  BY <1>2, <1>8 DEF ClearQuota, ResetStatus
<1>9. ASSUME NEW c \in Credentials, ResetBreaker(c) PROVE SharedOK'
  <2>1. /\ UNCHANGED <<exhausted, snapshot, affinity, marks>>
        /\ resetting' = resetting \ {c}
        /\ failing' = [k \in Candidate |-> IF k.credential = c THEN 0 ELSE failing[k]]
    BY <1>9 DEF ResetBreaker
  <2>2. failing' \in [Candidate -> 0..Threshold]
    BY <1>0, <2>1, ThresholdAssumption DEF SharedOK
  <2> QED
    BY <1>0, <2>1, <2>2 DEF SharedOK
<1>10. ASSUME NEW key \in ApiKeys, NEW model \in ModelNames, AffinityGone(key, model)
       PROVE  SharedOK'
  <2>1. /\ UNCHANGED <<shared, failing>>
        /\ affinity' = [affinity EXCEPT ![key] = [affinity[key] EXCEPT ![model] = None]]
    BY <1>10 DEF AffinityGone
  <2>2. affinity[key] \in [ModelNames -> Target \cup {None}]
    BY <1>0 DEF SharedOK
  <2>3. [affinity[key] EXCEPT ![model] = None] \in [ModelNames -> Target \cup {None}]
    BY <2>2
  <2>4. affinity' \in [ApiKeys -> [ModelNames -> Target \cup {None}]]
    BY <1>0, <2>1, <2>3 DEF SharedOK
  <2> QED
    BY <1>0, <2>1, <2>4 DEF SharedOK, shared
<1>11. CASE SnapshotGone
  BY <1>0, <1>11 DEF SnapshotGone, SharedOK
<1>12. CASE Tick
  BY <1>1, <1>12 DEF Tick
<1>13. CASE UNCHANGED vars
  BY <1>1, <1>13 DEF vars, shared
<1> QED
  BY <1>4, <1>5, <1>6, <1>7, <1>8, <1>9, <1>10, <1>11, <1>12, <1>13 DEF Next

LEMMA TypedInit == Init => TypedInv
<1> SUFFICES ASSUME Init PROVE TypedInv
  OBVIOUS
<1>1. RequestInv
  BY RequestInitInv
<1>2. EntriesOK
  BY DEF Init, EntriesOK, WellFormed
<1>3. SharedOK
  BY ThresholdAssumption DEF Init, SharedOK
<1>4. /\ Idle.pc = "idle" /\ Idle.key = None /\ Idle.name = None /\ Idle.stream = FALSE
      /\ Idle.flags = {} /\ Idle.todo = <<>> /\ Idle.tried = None /\ Idle.refused = {}
      /\ Idle.usageDone = FALSE /\ Idle.errorDone = FALSE /\ Idle.logs = <<>>
      /\ Idle.reply = None
  BY DEF Idle
<1>5. /\ Idle.pc \notin Attempted /\ Idle.pc \notin Planned
      /\ <<>> \in Seq(Candidate) /\ <<>> \in Seq(Log)
      /\ None # "unavailable"
  BY <1>4, NoReplyAssumption DEF Attempted, Planned, Streaming, Reply
<1>6. RequestTyped(Idle)
  BY <1>4, <1>5 DEF RequestTyped
<1>7. RequestsTyped
  BY <1>6 DEF Init, RequestsTyped
<1> QED
  BY <1>1, <1>2, <1>3, <1>7 DEF TypedInv

(* The types, the records, and that what a request has refused and what it *)
(* has still to try make up the whole schedule.                            *)
THEOREM TypedInvariance == Spec => []TypedInv
<1>1. Init => TypedInv
  BY TypedInit
<1>2. TypedInv /\ [Next]_vars => TypedInv'
  BY RequestStep, EntriesStep, SharedStep, RequestsTypedStep DEF TypedInv
<1> QED
  BY <1>1, <1>2, PTL DEF Spec

(* Every variable of the proxy keeps its type, for any schedule, any       *)
(* number of requests and keys, and whatever upstream and the admin do.    *)
THEOREM RequestTypesHold == Spec => []TypeOK
<1>1. TypedInv => TypeOK
  <2> SUFFICES ASSUME TypedInv PROVE TypeOK
    OBVIOUS
  <2>1. ASSUME NEW r \in Requests
        PROVE  /\ req[r].pc \in PC
               /\ req[r].key \in ApiKeys \cup {None}
               /\ req[r].name \in ModelNames \cup {None}
               /\ req[r].stream \in BOOLEAN
               /\ req[r].flags \subseteq Credentials
               /\ ToSet(req[r].todo) \subseteq Candidate
               /\ req[r].tried \in Candidate \cup {None}
               /\ req[r].refused \subseteq Candidate
               /\ {req[r].usageDone, req[r].errorDone} \subseteq BOOLEAN
               /\ ToSet(req[r].logs) \subseteq Log
               /\ req[r].reply \in Reply \cup {None}
    <3>1. RequestTyped(req[r]) /\ RequestOK(req[r])
      BY DEF TypedInv, RequestsTyped, RequestInv
    <3>2. req[r].pc \in PC
      BY <3>1 DEF RequestOK, Unrecorded, Streaming, PC
    <3>3. req[r].todo \in Seq(Candidate) /\ req[r].logs \in Seq(Log)
      BY <3>1 DEF RequestTyped
    <3>4. ToSet(req[r].todo) \subseteq Candidate
      BY <3>3, RangeFacts
    <3>5. ToSet(req[r].logs) \subseteq Log
      BY <3>3, RangeFacts
    <3> QED
      BY <3>1, <3>2, <3>4, <3>5 DEF RequestTyped
  <2> QED
    BY <2>1 DEF TypedInv, EntriesOK, SharedOK, TypeOK
<1> QED
  BY <1>1, TypedInvariance, PTL

(* "All providers failed" is only said when every model, map and           *)
(* credential of the schedule was skipped or has failed, for any schedule  *)
(* the scheduler builds: whatever the affinity cache holds, neither        *)
(* reordering and no `continue` loses a candidate.                         *)
THEOREM UnavailableMeansAllRefusedHolds == Spec => []UnavailableMeansAllRefused
<1>1. TypedInv => UnavailableMeansAllRefused
  BY DEF TypedInv, RequestsTyped, RequestTyped, UnavailableMeansAllRefused
<1> QED
  BY <1>1, TypedInvariance, PTL
=============================================================================
