-------------------------- MODULE AgentLoop_proofs --------------------------
(***************************************************************************)
(* One agent's conversation, for any queries, replies, calls, failures and *)
(* restarts.  "All" is the conversation as it will be once the open calls  *)
(* are answered: appending a result does not change it, and a resumed turn *)
(* finds the same open calls in what was saved.  That every request can be *)
(* answered, and that no saved call is carried out twice, follows from it. *)
(***************************************************************************)
EXTENDS AgentLoop, WellFoundedInduction, TLAPS

(* Numbers and sequences *)

LEMMA Least ==
    ASSUME NEW T \in SUBSET Nat, T # {}
    PROVE  \E x \in T : \A y \in T : x <= y
<1> DEFINE less == OpToRel(<, Nat)
<1>1. PICK x \in T : \A y \in T : ~(<<y, x>> \in less)
  BY NatLessThanWellFounded, WFMin
<1>2. ASSUME NEW y \in T, y < x PROVE FALSE
  <2>1. <<y, x>> \in less
    BY <1>2 DEF OpToRel
  <2> QED  BY <2>1, <1>1
<1> HIDE DEF less
<1>3. \A y \in T : x <= y
  BY <1>2
<1> QED  BY <1>3

LEMMA Greatest ==
    ASSUME NEW n \in Nat, NEW T \in SUBSET (1 .. n), T # {}
    PROVE  \E x \in T : \A y \in T : y <= x
<1> DEFINE U == {m \in Nat : \E t \in T : m = n - t}
<1>1. \A t \in T : t \in Nat /\ n - t \in Nat
  OBVIOUS
<1>2. PICK u \in U : \A v \in U : u <= v
  <2>1. U \in SUBSET Nat /\ U # {}
    BY <1>1
  <2> QED  BY <2>1, Least
<1>3. PICK x \in T : u = n - x
  BY <1>2
<1>4. ASSUME NEW y \in T PROVE y <= x
  <2>1. n - y \in U
    BY <1>1
  <2>2. n - x <= n - y /\ x \in Nat /\ y \in Nat
    BY <1>2, <1>3, <1>1, <2>1
  <2> QED  BY <2>2
<1> QED  BY <1>4

LEMMA AsFunction ==
    ASSUME NEW S, NEW s \in Seq(S)
    PROVE  s \in [1 .. Len(s) -> S] /\ Len(s) \in Nat
OBVIOUS

LEMMA Joined ==
    ASSUME NEW S, NEW s \in Seq(S), NEW t \in Seq(S)
    PROVE  /\ s \o t \in Seq(S) /\ Len(s \o t) = Len(s) + Len(t)
           /\ \A i \in 1 .. Len(s) : (s \o t)[i] = s[i]
           /\ \A i \in 1 .. Len(t) : (s \o t)[Len(s) + i] = t[i]
OBVIOUS

LEMMA Longer ==
    ASSUME NEW S, NEW s \in Seq(S), NEW e \in S
    PROVE  /\ Append(s, e) \in Seq(S) /\ Len(Append(s, e)) = Len(s) + 1
           /\ \A i \in 1 .. Len(s) : Append(s, e)[i] = s[i]
           /\ Append(s, e)[Len(s) + 1] = e
           /\ Range(Append(s, e)) = Range(s) \union {e}
<1>1. /\ Append(s, e) \in Seq(S) /\ Len(Append(s, e)) = Len(s) + 1
      /\ \A i \in 1 .. Len(s) : Append(s, e)[i] = s[i]
      /\ Append(s, e)[Len(s) + 1] = e
      /\ DOMAIN Append(s, e) = 1 .. Len(s) + 1 /\ DOMAIN s = 1 .. Len(s)
      /\ Len(s) \in Nat
  OBVIOUS
<1>2. ASSUME NEW x PROVE x \in Range(Append(s, e)) <=> x \in Range(s) \union {e}
  <2>1. x \in Range(Append(s, e)) <=> \E i \in 1 .. Len(s) + 1 : x = Append(s, e)[i]
    BY <1>1 DEF Range
  <2>2. x \in Range(s) <=> \E i \in 1 .. Len(s) : x = s[i]
    BY <1>1 DEF Range
  <2>3. \A i \in 1 .. Len(s) + 1 : i \in 1 .. Len(s) \/ i = Len(s) + 1
    BY <1>1
  <2>4. 1 .. Len(s) \subseteq 1 .. Len(s) + 1 /\ Len(s) + 1 \in 1 .. Len(s) + 1
    BY <1>1
  <2> QED  BY <2>1, <2>2, <2>3, <2>4, <1>1
<1> QED  BY <1>1, <1>2

\* What is left of a sequence after its first d members.
LEMMA Rest ==
    ASSUME NEW S, NEW s \in Seq(S), NEW d \in Nat, d <= Len(s)
    PROVE  /\ From(s, d + 1) \in Seq(S) /\ Len(From(s, d + 1)) = Len(s) - d
           /\ \A i \in 1 .. Len(s) - d : From(s, d + 1)[i] = s[i + d]
<1> DEFINE rest == From(s, d + 1)
<1>1. /\ rest \in Seq(S) /\ Len(rest) = Len(s) - (d + 1) + 1 /\ Len(s) \in Nat
      /\ \A i \in 1 .. Len(s) - (d + 1) + 1 : rest[i] = s[i + (d + 1) - 1]
  BY DEF From
<1> HIDE DEF rest
<1>2. Len(s) - (d + 1) + 1 = Len(s) - d
  BY <1>1
<1>3. ASSUME NEW i \in 1 .. Len(s) - d PROVE rest[i] = s[i + d]
  <2>1. i + (d + 1) - 1 = i + d
    BY <1>1
  <2> QED  BY <1>1, <1>2, <2>1
<1> QED  BY <1>1, <1>2, <1>3 DEF rest

LEMMA FirstOnes ==
    ASSUME NEW S, NEW s \in Seq(S), NEW m \in Nat, m <= Len(s)
    PROVE  /\ SubSeq(s, 1, m) \in Seq(S) /\ Len(SubSeq(s, 1, m)) = m
           /\ \A i \in 1 .. m : SubSeq(s, 1, m)[i] = s[i]
OBVIOUS

LEMMA RangeType ==
    ASSUME NEW S, NEW s \in Seq(S)
    PROVE  Range(s) \subseteq S
BY DEF Range

LEMMA Shifted ==
    ASSUME NEW n \in Nat, NEW d \in Nat, d <= n
    PROVE  /\ \A i \in 1 .. n - d : i \in Nat \ {0} /\ i + d \in 1 .. n
           /\ \A i \in 1 .. n : i \in Nat /\ (i > d => i - d \in 1 .. n - d /\ (i - d) + d = i)
OBVIOUS

(* Messages *)

\* What every message has, whatever its kind.
Fields == [kind : {"user", "assistant", "result", "managed"}, no : Nat, calls : Ids]

LEMMA IdSeqs ==
    ASSUME NEW s \in Ids
    PROVE  /\ s \in Seq(CallIds) /\ Len(s) \in 0 .. 2 /\ DOMAIN s = 1 .. Len(s)
           /\ Len(s) = 0 <=> s = <<>>
           /\ s # <<>> => Head(s) = s[1] /\ Head(s) \in CallIds /\ Tail(s) \in Ids
                          /\ Len(Tail(s)) = Len(s) - 1
                          /\ \A i \in 1 .. Len(Tail(s)) : Tail(s)[i] = s[i + 1]
<1>1. PICK n \in 0 .. 2 : s \in [1 .. n -> CallIds]
  BY DEF Ids
<1>2. /\ s \in Seq(CallIds) /\ Len(s) = n /\ DOMAIN s = 1 .. n /\ n \in Nat /\ n <= 2
      /\ Len(s) = 0 <=> s = <<>>
  BY <1>1
<1>3. ASSUME s # <<>>
      PROVE  /\ Head(s) = s[1] /\ Head(s) \in CallIds /\ Len(Tail(s)) = Len(s) - 1
             /\ \A i \in 1 .. Len(Tail(s)) : Tail(s)[i] = s[i + 1]
             /\ Tail(s) \in [1 .. n - 1 -> CallIds] /\ n - 1 \in 0 .. 2
  <2>1. /\ Head(s) = s[1] /\ Head(s) \in CallIds /\ Len(Tail(s)) = n - 1
        /\ \A i \in 1 .. Len(Tail(s)) : Tail(s)[i] = s[i + 1]
        /\ Tail(s) \in Seq(CallIds) /\ n # 0
    BY <1>2, <1>3
  <2>2. Tail(s) \in [1 .. n - 1 -> CallIds]
    <3>1. Tail(s) \in [1 .. Len(Tail(s)) -> CallIds]
      BY <2>1, AsFunction
    <3> QED  BY <2>1, <3>1
  <2>3. Len(Tail(s)) = Len(s) - 1 /\ n - 1 \in 0 .. 2
    BY <1>2, <2>1
  <2> QED  BY <2>1, <2>2, <2>3
<1> QED  BY <1>1, <1>2, <1>3 DEF Ids

LEMMA IdSeqsAre ==
    ASSUME NEW s \in Seq(CallIds), Len(s) <= 2
    PROVE  s \in Ids
<1>1. Len(s) \in 0 .. 2 /\ s \in [1 .. Len(s) -> CallIds]
  <2>1. Len(s) \in Nat /\ s \in [1 .. Len(s) -> CallIds]
    BY AsFunction
  <2> QED  BY <2>1
<1> QED  BY <1>1 DEF Ids

LEMMA NoIds == <<>> \in Ids
<1>1. <<>> \in [1 .. 0 -> CallIds]
  OBVIOUS
<1> QED  BY <1>1 DEF Ids

LEMMA MessageFields == Messages \subseteq Fields /\ Nodes \subseteq Fields
<1>1. \A q \in 0 .. MaxQueries : User(q) \in Fields
  BY NoIds, LoopAssumption DEF User, Fields
<1>2. \A id \in CallIds : Result(id) \in Fields
  BY NoIds, LoopAssumption DEF Result, Fields, CallIds
<1>3. \A n \in 1 .. MaxReplies, ids \in Ids : Reply(n, ids) \in Fields
  BY LoopAssumption DEF Reply, Fields
<1>4. \A n \in 1 .. MaxAppends : Managed(n) \in Fields
  BY NoIds, LoopAssumption DEF Managed, Fields
<1> QED  BY <1>1, <1>2, <1>3, <1>4 DEF Messages, Nodes

\* Only a result is a result; only a reply has calls.
LEMMA MessageKinds ==
    ASSUME NEW m \in Messages
    PROVE  /\ m.kind = "result" => m.no \in CallIds /\ m = Result(m.no)
           /\ m.kind = "assistant" => m.no \in 0 .. MaxReplies
           /\ m.calls # <<>> => m.kind = "assistant"
           /\ m.kind # "managed"
<1>1. CASE \E q \in 0 .. MaxQueries : m = User(q)
  BY <1>1 DEF User
<1>2. CASE \E id \in CallIds : m = Result(id)
  BY <1>2 DEF Result
<1>3. CASE \E n \in 1 .. MaxReplies, ids \in Ids : m = Reply(n, ids)
  <2>1. PICK n \in 1 .. MaxReplies, ids \in Ids : m = Reply(n, ids)
    BY <1>3
  <2>2. m.kind = "assistant" /\ m.no = n
    BY <2>1 DEF Reply
  <2> QED  BY <2>2, LoopAssumption
<1> QED  BY <1>1, <1>2, <1>3 DEF Messages

LEMMA Conversations ==
    ASSUME NEW ms \in Seq(Messages)
    PROVE  /\ Len(ms) \in Nat /\ DOMAIN ms = 1 .. Len(ms) /\ Range(ms) \subseteq Messages
           /\ \A i \in 1 .. Len(ms) : /\ ms[i] \in Messages /\ ms[i] \in Fields
                                      /\ ms[i].calls \in Ids
                                      /\ DOMAIN ms[i].calls = 1 .. Len(ms[i].calls)
                                      /\ Len(ms[i].calls) \in 0 .. 2
<1>1. /\ Len(ms) \in Nat /\ DOMAIN ms = 1 .. Len(ms) /\ Range(ms) \subseteq Messages
      /\ \A i \in 1 .. Len(ms) : ms[i] \in Messages
  BY DEF Range
<1>2. \A i \in 1 .. Len(ms) : ms[i] \in Fields
  BY <1>1, MessageFields
<1>3. \A i \in 1 .. Len(ms) : ms[i].calls \in Ids
  BY <1>2 DEF Fields
<1> QED  BY <1>1, <1>2, <1>3, IdSeqs

LEMMA CallsOf ==
    ASSUME NEW ms \in Seq(Messages), NEW i \in DOMAIN ms, NEW k \in DOMAIN ms[i].calls
    PROVE  /\ i \in Nat \ {0} /\ i <= Len(ms) /\ k \in Nat \ {0} /\ k <= Len(ms[i].calls)
           /\ \A l \in 1 .. k : l \in DOMAIN ms[i].calls
<1>1. i \in 1 .. Len(ms) /\ Len(ms) \in Nat
  BY Conversations
<1>2. DOMAIN ms[i].calls = 1 .. Len(ms[i].calls) /\ Len(ms[i].calls) \in Nat
  BY <1>1, Conversations
<1> QED  BY <1>1, <1>2

(* The operators of the model *)

LEMMA LastReplies ==
    ASSUME NEW ms \in Seq(Messages)
    PROVE  LastReply(ms) \in 0 .. MaxReplies
<1> DEFINE replied == {i \in DOMAIN ms : ms[i].kind = "assistant"}
           last == CHOOSE i \in replied : \A j \in replied : j <= i
<1>1. CASE replied = {}
  BY <1>1, LoopAssumption DEF LastReply
<1>2. CASE replied # {}
  <2>1. last \in replied
    <3>1. \E i \in replied : \A j \in replied : j <= i
      BY <1>2, Conversations, Greatest, ZenonT(60)
    <3> HIDE DEF replied
    <3> QED  BY <3>1
  <2>2. LastReply(ms) = ms[last].no
    BY <1>2 DEF LastReply
  <2>3. ms[last] \in Messages /\ ms[last].kind = "assistant"
    BY <2>1, Conversations
  <2> QED  BY <2>2, <2>3, MessageKinds
<1> QED  BY <1>1, <1>2

\* The function that Keep computes along a reply's calls, of which there are two.
Kept(s, ids, f) ==
    [k \in 0 .. Len(s) |->
        IF k = 0 THEN <<>> ELSE IF s[k] \in ids THEN Append(f[k - 1], s[k]) ELSE f[k - 1]]

LEMMA KeepIsKept ==
    ASSUME NEW s \in Ids, NEW ids
    PROVE  \E f : f = Kept(s, ids, f) /\ Keep(s, ids) = f[Len(s)]
<1> DEFINE one == IF s[1] \in ids THEN Append(<<>>, s[1]) ELSE <<>>
           two == IF s[2] \in ids THEN Append(one, s[2]) ELSE one
           g == [k \in 0 .. Len(s) |-> IF k = 0 THEN <<>> ELSE IF k = 1 THEN one ELSE two]
           h == CHOOSE f : f = Kept(s, ids, f)
<1>1. g = Kept(s, ids, g)
  <2>1. Len(s) \in 0 .. 2
    BY IdSeqs
  <2>2. ASSUME NEW k \in 0 .. Len(s) PROVE g[k] = Kept(s, ids, g)[k]
    <3>1. k = 0 \/ k = 1 \/ (k = 2 /\ 1 \in 0 .. Len(s))
      <4> HIDE DEF g, h, one, two
      <4>1. Len(s) \in Nat /\ Len(s) <= 2
        BY <2>1
      <4>2. k \in Nat /\ k <= Len(s)
        BY <2>2, <4>1
      <4> QED  BY <4>1, <4>2
    <3>2. CASE k = 0
      BY <2>1, <3>2 DEF Kept
    <3>3. CASE k = 1
      <4>1. g[0] = <<>> /\ g[1] = one
        BY <2>1, <3>3
      <4> HIDE DEF g
      <4>2. Kept(s, ids, g)[1] = IF s[1] \in ids THEN Append(g[0], s[1]) ELSE g[0]
        BY <2>1, <3>3 DEF Kept
      <4> QED  BY <4>1, <4>2, <3>3
    <3>4. CASE k = 2 /\ 1 \in 0 .. Len(s)
      <4>1. g[1] = one /\ g[2] = two
        BY <2>1, <3>4
      <4> HIDE DEF g, one
      <4>2. Kept(s, ids, g)[2] = IF s[2] \in ids THEN Append(g[1], s[2]) ELSE g[1]
        BY <2>1, <3>4 DEF Kept
      <4> QED  BY <4>1, <4>2, <3>4
    <3> QED  BY <3>1, <3>2, <3>3, <3>4
  <2> HIDE DEF one, two
  <2> QED  BY <2>2 DEF Kept
<1>2. h = Kept(s, ids, h)
  <2> HIDE DEF g
  <2> QED  BY <1>1
<1>3. Keep(s, ids) = h[Len(s)]
  BY DEF Keep, Kept
<1> HIDE DEF h
<1> QED  BY <1>2, <1>3

LEMMA Keeping ==
    ASSUME NEW s \in Ids, NEW ids
    PROVE  /\ Keep(s, ids) \in Ids
           /\ \A n \in 0 .. Len(s) :
                 (\A k \in 1 .. Len(s) : s[k] \in ids <=> n < k) =>
                    /\ Len(Keep(s, ids)) = Len(s) - n
                    /\ \A k \in 1 .. Len(s) - n : Keep(s, ids)[k] = s[n + k]
<1>1. PICK f : f = Kept(s, ids, f) /\ Keep(s, ids) = f[Len(s)]
  BY KeepIsKept
<1>2. Len(s) \in 0 .. 2 /\ \A k \in 1 .. Len(s) : s[k] \in CallIds
  BY IdSeqs
<1>3. f[0] = <<>> /\ \A k \in 1 .. Len(s) : f[k] = IF s[k] \in ids THEN Append(f[k - 1], s[k]) ELSE f[k - 1]
  <2>1. \A k \in 0 .. Len(s) : f[k] = Kept(s, ids, f)[k]
    BY <1>1
  <2>2. \A k \in 0 .. Len(s) : Kept(s, ids, f)[k] =
            IF k = 0 THEN <<>> ELSE IF s[k] \in ids THEN Append(f[k - 1], s[k]) ELSE f[k - 1]
    BY DEF Kept
  <2>3. /\ 0 \in 0 .. Len(s)
        /\ \A k \in 1 .. Len(s) : k \in 0 .. Len(s) /\ k # 0
    BY <1>2
  <2> QED  BY <2>1, <2>2, <2>3
<1>4. <<>> \in Seq(CallIds) /\ Len(<<>>) = 0
  OBVIOUS
<1>5. CASE Len(s) = 0
  BY <1>1, <1>3, <1>5, NoIds
<1>6. CASE Len(s) = 1
  <2>1. 1 \in 1 .. Len(s) /\ s[1] \in CallIds
    BY <1>2, <1>6
  <2>2. f[1] = IF s[1] \in ids THEN Append(<<>>, s[1]) ELSE <<>>
    <3>1. f[1] = IF s[1] \in ids THEN Append(f[1 - 1], s[1]) ELSE f[1 - 1]
      BY <1>3, <2>1
    <3>2. 1 - 1 = 0
      OBVIOUS
    <3> QED  BY <1>3, <3>1, <3>2
  <2>3. CASE s[1] \in ids
    <3>1. /\ f[1] \in Seq(CallIds) /\ Len(f[1]) = 1 /\ f[1][1] = s[1]
      BY <2>1, <2>2, <2>3, <1>4, Longer
    <3>2. Keep(s, ids) = f[1] /\ f[1] \in Ids
      <4>1. Keep(s, ids) = f[1] /\ Len(f[1]) <= 2
        BY <3>1, <1>1, <1>6
      <4> QED  BY <3>1, <4>1, IdSeqsAre
    <3> QED  BY <1>6, <2>1, <2>3, <3>1, <3>2
  <2>4. CASE s[1] \notin ids
    <3>1. Keep(s, ids) = <<>>
      BY <1>1, <1>6, <2>2, <2>4
    <3> QED  BY <1>4, <1>6, <2>1, <2>4, <3>1, NoIds
  <2> QED  BY <2>3, <2>4
<1>7. CASE Len(s) = 2
  <2>1. 1 \in 1 .. Len(s) /\ 2 \in 1 .. Len(s) /\ s[1] \in CallIds /\ s[2] \in CallIds
    BY <1>2, <1>7
  <2>2. f[1] = IF s[1] \in ids THEN Append(<<>>, s[1]) ELSE <<>>
    <3>1. f[1] = IF s[1] \in ids THEN Append(f[1 - 1], s[1]) ELSE f[1 - 1]
      BY <1>3, <2>1
    <3>2. 1 - 1 = 0
      OBVIOUS
    <3> QED  BY <1>3, <3>1, <3>2
  <2>3. f[2] = IF s[2] \in ids THEN Append(f[1], s[2]) ELSE f[1]
    BY <1>3, <2>1
  <2>4. /\ f[1] \in Seq(CallIds)
        /\ s[1] \in ids => Len(f[1]) = 1 /\ f[1][1] = s[1]
        /\ s[1] \notin ids => Len(f[1]) = 0
    BY <2>1, <2>2, <1>4, Longer
  <2>5. /\ f[2] \in Seq(CallIds)
        /\ s[2] \in ids => /\ Len(f[2]) = Len(f[1]) + 1 /\ f[2][Len(f[1]) + 1] = s[2]
                           /\ \A i \in 1 .. Len(f[1]) : f[2][i] = f[1][i]
        /\ s[2] \notin ids => f[2] = f[1]
    BY <2>1, <2>3, <2>4, Longer
  <2>6. Keep(s, ids) = f[2]
    BY <1>1, <1>7
  <2>7. Len(f[1]) <= 1 /\ Len(f[2]) <= 2
    BY <2>4, <2>5
  <2>8. Keep(s, ids) \in Ids
    BY <2>5, <2>6, <2>7, IdSeqsAre
  <2>9. ASSUME NEW n \in 0 .. Len(s), \A k \in 1 .. Len(s) : s[k] \in ids <=> n < k
        PROVE  Len(f[2]) = 2 - n /\ \A k \in 1 .. 2 - n : f[2][k] = s[n + k]
    <3>1. n \in Nat /\ (n = 0 \/ n = 1 \/ n = 2)
      BY <1>7
    <3>2. CASE n = 0
      <4>1. s[1] \in ids /\ s[2] \in ids
        BY <2>9, <2>1, <3>2
      <4>2. /\ Len(f[1]) = 1 /\ f[1][1] = s[1] /\ Len(f[2]) = Len(f[1]) + 1
            /\ f[2][Len(f[1]) + 1] = s[2] /\ \A i \in 1 .. Len(f[1]) : f[2][i] = f[1][i]
        BY <4>1, <2>4, <2>5
      <4>3. Len(f[2]) = 2 /\ f[2][2] = s[2] /\ f[2][1] = s[1]
        <5> DEFINE a == f[1]
                   b == f[2]
        <5>1. /\ Len(a) = 1 /\ a[1] = s[1] /\ Len(b) = Len(a) + 1
              /\ b[Len(a) + 1] = s[2] /\ \A i \in 1 .. Len(a) : b[i] = a[i]
          BY <4>2
        <5> HIDE DEF a, b
        <5>2. Len(b) = 2 /\ b[2] = s[2] /\ b[1] = s[1]
          BY <5>1
        <5> QED  BY <5>2 DEF b
      <4> QED  BY <4>3, <3>2
    <3>3. CASE n = 1
      <4>1. s[1] \notin ids /\ s[2] \in ids
        BY <2>9, <2>1, <3>3
      <4>2. Len(f[1]) = 0 /\ Len(f[2]) = Len(f[1]) + 1 /\ f[2][Len(f[1]) + 1] = s[2]
        BY <4>1, <2>4, <2>5
      <4>3. Len(f[2]) = 1 /\ f[2][1] = s[2]
        <5> DEFINE a == f[1]
                   b == f[2]
        <5>1. Len(a) = 0 /\ Len(b) = Len(a) + 1 /\ b[Len(a) + 1] = s[2]
          BY <4>2
        <5> HIDE DEF a, b
        <5>2. Len(b) = 1 /\ b[1] = s[2]
          BY <5>1
        <5> QED  BY <5>2 DEF b
      <4> QED  BY <4>3, <3>3
    <3>4. CASE n = 2
      <4>1. s[1] \notin ids /\ s[2] \notin ids
        BY <2>9, <2>1, <3>4
      <4>2. Len(f[2]) = 0
        BY <4>1, <2>4, <2>5
      <4> QED  BY <4>2, <3>4
    <3> QED  BY <3>1, <3>2, <3>3, <3>4
  <2> QED  BY <2>6, <2>8, <2>9, <1>7
<1> QED  BY <1>2, <1>5, <1>6, <1>7

(* Conversations that can be answered *)

Results(ids) == [k \in DOMAIN ids |-> Result(ids[k])]

\* The conversation once the open calls have their results.
All(ms, ids) == ms \o Results(ids)

\* After every reply its results, in the order of its calls.
Answered(ms) ==
    \A i \in DOMAIN ms : \A k \in DOMAIN ms[i].calls :
        i + k \in DOMAIN ms /\ ms[i + k] = Result(ms[i].calls[k])

\* Every result is one of a reply before it.
Caused(ms) ==
    \A i \in DOMAIN ms : ms[i].kind = "result" =>
        \E j \in DOMAIN ms : \E k \in DOMAIN ms[j].calls : i = j + k

\* No call has two results.
Single(ms) ==
    \A i, j \in DOMAIN ms :
        ms[i].kind = "result" /\ ms[j].kind = "result" /\ ms[i].no = ms[j].no => i = j

Paired(ms) == Answered(ms) /\ Caused(ms) /\ Single(ms)

ResultIds(ms) == {m.no : m \in {n \in Range(ms) : n.kind = "result"}}

LEMMA ResultIsOne ==
    ASSUME NEW id \in CallIds
    PROVE  /\ Result(id) \in Messages /\ Result(id).kind = "result" /\ Result(id).no = id
           /\ Result(id).calls = <<>> /\ DOMAIN Result(id).calls = {}
BY DEF Result, Messages

LEMMA Alls ==
    ASSUME NEW ms \in Seq(Messages), NEW ids \in Ids
    PROVE  /\ All(ms, ids) \in Seq(Messages) /\ Len(All(ms, ids)) = Len(ms) + Len(ids)
           /\ \A i \in 1 .. Len(ms) : All(ms, ids)[i] = ms[i]
           /\ \A k \in 1 .. Len(ids) : All(ms, ids)[Len(ms) + k] = Result(ids[k])
<1>1. /\ Len(ids) \in Nat /\ DOMAIN ids = 1 .. Len(ids)
      /\ \A k \in 1 .. Len(ids) : ids[k] \in CallIds
  BY IdSeqs
<1>2. \A k \in 1 .. Len(ids) : Result(ids[k]) \in Messages
  BY <1>1, ResultIsOne
<1>3. Results(ids) \in Seq(Messages) /\ Len(Results(ids)) = Len(ids)
  BY <1>1, <1>2 DEF Results
<1>4. \A k \in 1 .. Len(ids) : Results(ids)[k] = Result(ids[k])
  BY <1>1 DEF Results
<1> DEFINE r == Results(ids)
<1>5. r \in Seq(Messages) /\ Len(r) = Len(ids) /\ \A k \in 1 .. Len(ids) : r[k] = Result(ids[k])
  BY <1>3, <1>4
<1> HIDE DEF r
<1>6. /\ ms \o r \in Seq(Messages) /\ Len(ms \o r) = Len(ms) + Len(r)
      /\ \A i \in 1 .. Len(ms) : (ms \o r)[i] = ms[i]
      /\ \A i \in 1 .. Len(r) : (ms \o r)[Len(ms) + i] = r[i]
  <2>1. r \in Seq(Messages)
    BY <1>5
  <2> QED  BY <2>1, Joined
<1>7. All(ms, ids) = ms \o r
  BY DEF All, r
<1> QED  BY <1>5, <1>6, <1>7

LEMMA Same ==
    ASSUME NEW S, NEW s \in Seq(S), NEW t \in Seq(S), Len(s) = Len(t),
           \A i \in 1 .. Len(s) : s[i] = t[i]
    PROVE  s = t
OBVIOUS

LEMMA AllOfNone ==
    ASSUME NEW ms \in Seq(Messages)
    PROVE  All(ms, <<>>) = ms
<1>1. Len(<<>>) = 0 /\ Len(ms) \in Nat
  OBVIOUS
<1>2. All(ms, <<>>) \in Seq(Messages) /\ Len(All(ms, <<>>)) = Len(ms)
      /\ \A i \in 1 .. Len(ms) : All(ms, <<>>)[i] = ms[i]
  BY <1>1, Alls, NoIds
<1> QED  BY <1>2, Same

\* The result of the next open call is already in it.
LEMMA NextResult ==
    ASSUME NEW ms \in Seq(Messages), NEW ids \in Ids, ids # <<>>
    PROVE  /\ Append(ms, Result(Head(ids))) \in Seq(Messages) /\ Tail(ids) \in Ids
           /\ All(Append(ms, Result(Head(ids))), Tail(ids)) = All(ms, ids)
<1> DEFINE more == Append(ms, Result(Head(ids)))
<1>1. /\ Head(ids) = ids[1] /\ Head(ids) \in CallIds /\ Tail(ids) \in Ids
      /\ Len(ids) \in Nat \ {0} /\ Len(Tail(ids)) = Len(ids) - 1
      /\ \A i \in 1 .. Len(Tail(ids)) : Tail(ids)[i] = ids[i + 1]
  BY IdSeqs
<1>2. /\ more \in Seq(Messages) /\ Len(more) = Len(ms) + 1
      /\ \A i \in 1 .. Len(ms) : more[i] = ms[i]
      /\ more[Len(ms) + 1] = Result(ids[1]) /\ Len(ms) \in Nat
  BY <1>1, ResultIsOne, Longer
<1> DEFINE rest == Tail(ids)
<1> HIDE DEF more
<1>0. /\ rest \in Ids /\ Len(rest) = Len(ids) - 1
      /\ \A i \in 1 .. Len(rest) : rest[i] = ids[i + 1]
  BY <1>1
<1> HIDE DEF rest
<1>3. /\ All(more, rest) \in Seq(Messages)
      /\ Len(All(more, rest)) = Len(ms) + Len(ids)
      /\ \A i \in 1 .. Len(ms) + 1 : All(more, rest)[i] = more[i]
      /\ \A k \in 1 .. Len(ids) - 1 : All(more, rest)[Len(ms) + 1 + k] = Result(ids[k + 1])
  <2>1. /\ All(more, rest) \in Seq(Messages)
        /\ Len(All(more, rest)) = Len(more) + Len(rest)
        /\ \A i \in 1 .. Len(more) : All(more, rest)[i] = more[i]
        /\ \A k \in 1 .. Len(rest) : All(more, rest)[Len(more) + k] = Result(rest[k])
    BY <1>0, <1>2, Alls
  <2> QED  BY <2>1, <1>0, <1>1, <1>2
<1>4. /\ All(ms, ids) \in Seq(Messages) /\ Len(All(ms, ids)) = Len(ms) + Len(ids)
      /\ \A i \in 1 .. Len(ms) : All(ms, ids)[i] = ms[i]
      /\ \A k \in 1 .. Len(ids) : All(ms, ids)[Len(ms) + k] = Result(ids[k])
  BY Alls
<1>5. ASSUME NEW i \in 1 .. Len(ms) + Len(ids)
      PROVE  All(more, rest)[i] = All(ms, ids)[i]
  <2>1. CASE i \in 1 .. Len(ms)
    BY <1>2, <1>3, <1>4, <2>1
  <2>2. CASE i = Len(ms) + 1
    BY <1>1, <1>2, <1>3, <1>4, <2>2
  <2>3. CASE i > Len(ms) + 1
    <3>1. PICK k \in 1 .. Len(ids) - 1 : i = Len(ms) + 1 + k
      <4>1. i - Len(ms) - 1 \in 1 .. Len(ids) - 1 /\ i = Len(ms) + 1 + (i - Len(ms) - 1)
        BY <1>1, <1>2, <2>3
      <4> QED  BY <4>1
    <3>2. k + 1 \in 1 .. Len(ids) /\ i = Len(ms) + (k + 1)
      BY <1>1, <1>2, <3>1
    <3> QED  BY <1>3, <1>4, <3>1, <3>2
  <2> QED  BY <1>1, <1>2, <2>1, <2>2, <2>3
<1>6. All(more, rest) = All(ms, ids)
  BY <1>3, <1>4, <1>5, Same
<1> QED  BY <1>1, <1>2, <1>6 DEF more, rest

LEMMA NothingSaid == Paired(<<>>) /\ <<>> \in Seq(Messages) /\ ResultIds(<<>>) = {} /\ Range(<<>>) = {}
BY DEF Paired, Answered, Caused, Single, ResultIds, Range

\* Something that is neither a result nor has calls can be said at any time.
LEMMA Saying ==
    ASSUME NEW ms \in Seq(Messages), Paired(ms),
           NEW m \in Messages, m.kind # "result", m.calls = <<>>
    PROVE  Paired(Append(ms, m))
<1> DEFINE more == Append(ms, m)
<1>1. /\ Len(ms) \in Nat /\ DOMAIN ms = 1 .. Len(ms) /\ DOMAIN m.calls = {}
      /\ more \in Seq(Messages) /\ Len(more) = Len(ms) + 1 /\ DOMAIN more = 1 .. Len(ms) + 1
      /\ \A i \in 1 .. Len(ms) : more[i] = ms[i]
      /\ more[Len(ms) + 1] = m
  BY Longer
<1> HIDE DEF more
<1>2. \A i \in DOMAIN more : i \in DOMAIN ms \/ i = Len(ms) + 1
  BY <1>1
<1>3. \A i \in DOMAIN ms : i \in DOMAIN more /\ more[i] = ms[i]
  BY <1>1
<1>4. Answered(more)
  BY <1>1, <1>2, <1>3 DEF Paired, Answered
<1>5. Caused(more)
  BY <1>1, <1>2, <1>3 DEF Paired, Caused
<1>6. Single(more)
  BY <1>1, <1>2, <1>3 DEF Paired, Single
<1> QED  BY <1>4, <1>5, <1>6 DEF Paired, more

LEMMA Starting ==
    ASSUME NEW ms \in Seq(Messages), Paired(ms),
           NEW m \in Messages, m.kind # "result", m.calls = <<>>
    PROVE  Paired(<<m>> \o ms)
<1> DEFINE more == <<m>> \o ms
<1>1. /\ Len(ms) \in Nat /\ DOMAIN ms = 1 .. Len(ms) /\ DOMAIN m.calls = {}
      /\ <<m>> \in Seq(Messages) /\ Len(<<m>>) = 1 /\ <<m>>[1] = m
  OBVIOUS
<1>2. /\ more \in Seq(Messages) /\ Len(more) = Len(ms) + 1 /\ DOMAIN more = 1 .. Len(ms) + 1
      /\ more[1] = m
      /\ \A i \in 1 .. Len(ms) : more[1 + i] = ms[i]
  BY <1>1, Joined
<1> HIDE DEF more
<1>3. \A i \in DOMAIN more : i = 1 \/ (i - 1 \in DOMAIN ms /\ more[i] = ms[i - 1])
  <2>1. ASSUME NEW i \in 1 .. Len(ms) + 1, i # 1
        PROVE  i - 1 \in 1 .. Len(ms) /\ i = 1 + (i - 1)
    BY <1>1, <2>1
  <2> QED  BY <1>1, <1>2, <2>1
<1>4. \A i \in DOMAIN ms : i \in Nat /\ i + 1 \in DOMAIN more /\ more[i + 1] = ms[i]
  BY <1>1, <1>2
<1>5. Answered(more)
  <2>1. ASSUME NEW i \in DOMAIN more, NEW k \in DOMAIN more[i].calls
        PROVE  i + k \in DOMAIN more /\ more[i + k] = Result(more[i].calls[k])
    <3>1. i - 1 \in DOMAIN ms /\ more[i] = ms[i - 1]
      BY <1>1, <1>2, <1>3, <2>1
    <3>2. (i - 1) + k \in DOMAIN ms /\ ms[(i - 1) + k] = Result(ms[i - 1].calls[k])
      BY <3>1 DEF Paired, Answered
    <3>3. k \in Nat /\ i \in Nat
      BY <1>1, <1>2, <3>1, Conversations
    <3>4. ((i - 1) + k) + 1 = i + k
      BY <3>3
    <3> QED  BY <3>1, <3>2, <3>4, <1>4
  <2> QED  BY <2>1 DEF Answered
<1>6. Caused(more)
  <2>1. ASSUME NEW i \in DOMAIN more, more[i].kind = "result"
        PROVE  \E j \in DOMAIN more : \E k \in DOMAIN more[j].calls : i = j + k
    <3>1. i - 1 \in DOMAIN ms /\ more[i] = ms[i - 1]
      BY <1>2, <1>3, <2>1
    <3>2. PICK j \in DOMAIN ms : \E k \in DOMAIN ms[j].calls : i - 1 = j + k
      BY <2>1, <3>1 DEF Paired, Caused
    <3>3. PICK k \in DOMAIN ms[j].calls : i - 1 = j + k
      BY <3>2
    <3>4. k \in Nat /\ i \in Nat /\ j \in Nat
      BY <1>1, <1>2, Conversations
    <3>5. i = (j + 1) + k
      BY <3>3, <3>4
    <3> QED  BY <3>5, <1>4
  <2> QED  BY <2>1 DEF Caused
<1>7. Single(more)
  <2>1. ASSUME NEW i \in DOMAIN more, NEW j \in DOMAIN more,
               more[i].kind = "result", more[j].kind = "result", more[i].no = more[j].no
        PROVE  i = j
    <3>1. /\ i - 1 \in DOMAIN ms /\ more[i] = ms[i - 1]
          /\ j - 1 \in DOMAIN ms /\ more[j] = ms[j - 1]
      BY <1>2, <1>3, <2>1
    <3>2. i - 1 = j - 1 /\ i \in Nat /\ j \in Nat
      BY <1>1, <1>2, <2>1, <3>1 DEF Paired, Single
    <3> QED  BY <3>2
  <2> QED  BY <2>1 DEF Single
<1> QED  BY <1>5, <1>6, <1>7 DEF Paired, more

\* A conversation may be cut before anything but a result.
LEMMA Cutting ==
    ASSUME NEW ms \in Seq(Messages), Paired(ms),
           NEW d \in Nat, d <= Len(ms),
           d = 0 \/ d = Len(ms) \/ ms[d + 1].kind # "result"
    PROVE  Paired(From(ms, d + 1))
<1> DEFINE rest == From(ms, d + 1)
<1>1. /\ Len(ms) \in Nat /\ DOMAIN ms = 1 .. Len(ms)
      /\ rest \in Seq(Messages) /\ Len(rest) = Len(ms) - d
      /\ \A i \in 1 .. Len(ms) - d : rest[i] = ms[i + d]
  <2>1. Len(ms) \in Nat /\ DOMAIN ms = 1 .. Len(ms)
    OBVIOUS
  <2> QED  BY <2>1, Rest
<1> HIDE DEF rest
<1>2. DOMAIN rest = 1 .. Len(ms) - d
  <2>1. rest \in Seq(Messages) /\ Len(rest) = Len(ms) - d
    BY <1>1
  <2>2. DOMAIN rest = 1 .. Len(rest)
    BY <2>1, Conversations
  <2> QED  BY <2>1, <2>2
<1>3. \A i \in DOMAIN rest : i \in Nat \ {0} /\ i + d \in DOMAIN ms /\ rest[i] = ms[i + d]
  <2>1. ASSUME NEW i \in 1 .. Len(ms) - d PROVE i \in Nat \ {0} /\ i + d \in 1 .. Len(ms)
    <3>1. Len(ms) \in Nat
      BY <1>1
    <3> QED  BY <3>1, Shifted
  <2> QED  BY <1>1, <1>2, <2>1
<1>4. \A i \in DOMAIN ms : i \in Nat /\ (i > d => i - d \in DOMAIN rest /\ rest[i - d] = ms[i])
  <2>1. ASSUME NEW i \in 1 .. Len(ms), i > d
        PROVE  i - d \in 1 .. Len(ms) - d /\ (i - d) + d = i
    <3>1. Len(ms) \in Nat
      BY <1>1
    <3> QED  BY <2>1, <3>1, Shifted
  <2>2. \A i \in DOMAIN ms : i \in 1 .. Len(ms) /\ i \in Nat
    <3>1. Len(ms) \in Nat
      OBVIOUS
    <3>2. \A i \in 1 .. Len(ms) : i \in Nat
      BY <3>1, Shifted
    <3> QED  BY <3>2, Conversations
  <2> QED  BY <1>1, <1>2, <2>1, <2>2
<1>5. Answered(rest)
  <2>1. ASSUME NEW i \in DOMAIN rest, NEW k \in DOMAIN rest[i].calls
        PROVE  i + k \in DOMAIN rest /\ rest[i + k] = Result(rest[i].calls[k])
    <3>1. i + d \in DOMAIN ms /\ rest[i] = ms[i + d] /\ i \in Nat \ {0}
      BY <1>3
    <3>2. (i + d) + k \in DOMAIN ms /\ ms[(i + d) + k] = Result(ms[i + d].calls[k])
      BY <3>1 DEF Paired, Answered
    <3>3. k \in Nat /\ i \in Nat
      BY <1>1, <3>1, CallsOf
    <3>4. (i + d) + k > d /\ ((i + d) + k) - d = i + k
      BY <3>1, <3>3
    <3> QED  BY <3>1, <3>2, <3>4, <1>4
  <2> QED  BY <2>1 DEF Answered
<1>6. Caused(rest)
  <2>1. ASSUME NEW i \in DOMAIN rest, rest[i].kind = "result"
        PROVE  \E j \in DOMAIN rest : \E k \in DOMAIN rest[j].calls : i = j + k
    <3>1. i + d \in DOMAIN ms /\ rest[i] = ms[i + d] /\ i \in Nat \ {0}
      BY <1>3
    <3>2. PICK j \in DOMAIN ms : \E k \in DOMAIN ms[j].calls : i + d = j + k
      BY <2>1, <3>1 DEF Paired, Caused
    <3>3. PICK k \in DOMAIN ms[j].calls : i + d = j + k
      BY <3>2
    <3>4. j \in Nat /\ j <= Len(ms)
      BY CallsOf
    <3>5. k \in Nat \ {0} /\ \A l \in 1 .. k : l \in DOMAIN ms[j].calls
      BY CallsOf
    <3>6. j > d
      <4>1. SUFFICES ASSUME j <= d PROVE FALSE
        BY <3>4
      <4>2. (d + 1) - j \in DOMAIN ms[j].calls /\ j + ((d + 1) - j) = d + 1
        <5>1. (d + 1) - j \in 1 .. k /\ j + ((d + 1) - j) = d + 1
          BY <3>1, <3>3, <3>4, <3>5, <4>1
        <5> QED  BY <3>5, <5>1
      <4>3. d + 1 \in DOMAIN ms /\ ms[d + 1] = Result(ms[j].calls[(d + 1) - j])
        BY <4>2 DEF Paired, Answered
      <4>4. ms[d + 1].kind = "result"
        BY <4>3 DEF Result
      <4>5. d # 0 /\ d # Len(ms)
        BY <1>1, <3>4, <4>1, <4>3
      <4> QED  BY <4>4, <4>5
    <3>7. j - d \in DOMAIN rest /\ rest[j - d] = ms[j] /\ i = (j - d) + k
      <4>1. i = (j - d) + k
        <5>1. i \in Nat /\ j \in Nat /\ k \in Nat /\ i + d = j + k
          BY <3>1, <3>3, <3>4, <3>5
        <5> QED  BY <5>1
      <4> QED  BY <1>4, <3>6, <4>1
    <3> QED  BY <3>3, <3>7
  <2> QED  BY <2>1 DEF Caused
<1>7. Single(rest)
  <2>1. ASSUME NEW i \in DOMAIN rest, NEW j \in DOMAIN rest,
               rest[i].kind = "result", rest[j].kind = "result", rest[i].no = rest[j].no
        PROVE  i = j
    <3>1. i + d = j + d /\ i \in Nat /\ j \in Nat
      BY <1>3, <2>1 DEF Paired, Single
    <3> QED  BY <3>1
  <2> QED  BY <2>1 DEF Single
<1> QED  BY <1>5, <1>6, <1>7 DEF Paired, rest

\* Cutting what was said leaves the open calls open.
LEMMA CuttingOpen ==
    ASSUME NEW ms \in Seq(Messages), NEW ids \in Ids, Paired(All(ms, ids)),
           NEW d \in Nat, d <= Len(ms),
           d = 0 \/ (d = Len(ms) /\ ids = <<>>) \/ (d < Len(ms) /\ ms[d + 1].kind # "result")
    PROVE  From(ms, d + 1) \in Seq(Messages) /\ Paired(All(From(ms, d + 1), ids))
<1> DEFINE rest == From(ms, d + 1)
           all == All(ms, ids)
<1>1. /\ Len(ms) \in Nat /\ Len(ids) \in Nat
      /\ rest \in Seq(Messages) /\ Len(rest) = Len(ms) - d
      /\ \A i \in 1 .. Len(ms) - d : rest[i] = ms[i + d]
  <2>1. Len(ms) \in Nat /\ Len(ids) \in Nat
    BY IdSeqs
  <2> QED  BY <2>1, Rest
<1>2. /\ all \in Seq(Messages) /\ Len(all) = Len(ms) + Len(ids)
      /\ \A i \in 1 .. Len(ms) : all[i] = ms[i]
      /\ \A k \in 1 .. Len(ids) : all[Len(ms) + k] = Result(ids[k])
  BY Alls
<1> HIDE DEF all, rest
<1>3. /\ From(all, d + 1) \in Seq(Messages) /\ Len(From(all, d + 1)) = Len(ms) + Len(ids) - d
      /\ \A i \in 1 .. Len(ms) + Len(ids) - d : From(all, d + 1)[i] = all[i + d]
  <2>1. d <= Len(all)
    BY <1>1, <1>2
  <2>2. /\ From(all, d + 1) \in Seq(Messages) /\ Len(From(all, d + 1)) = Len(all) - d
        /\ \A i \in 1 .. Len(all) - d : From(all, d + 1)[i] = all[i + d]
    <3>1. all \in Seq(Messages)
      BY <1>2
    <3> QED  BY <3>1, <2>1, Rest
  <2> QED  BY <1>2, <2>2
<1>4. /\ All(rest, ids) \in Seq(Messages) /\ Len(All(rest, ids)) = Len(ms) - d + Len(ids)
      /\ \A i \in 1 .. Len(ms) - d : All(rest, ids)[i] = rest[i]
      /\ \A k \in 1 .. Len(ids) : All(rest, ids)[Len(ms) - d + k] = Result(ids[k])
  <2>1. /\ All(rest, ids) \in Seq(Messages) /\ Len(All(rest, ids)) = Len(rest) + Len(ids)
        /\ \A i \in 1 .. Len(rest) : All(rest, ids)[i] = rest[i]
        /\ \A k \in 1 .. Len(ids) : All(rest, ids)[Len(rest) + k] = Result(ids[k])
    BY <1>1, Alls
  <2> QED  BY <1>1, <2>1
<1>5. ASSUME NEW i \in 1 .. Len(ms) + Len(ids) - d PROVE From(all, d + 1)[i] = All(rest, ids)[i]
  <2>1. CASE i <= Len(ms) - d
    <3>1. i \in 1 .. Len(ms) - d /\ i + d \in 1 .. Len(ms)
      BY <1>1, <2>1
    <3> QED  BY <1>1, <1>2, <1>3, <1>4, <3>1
  <2>2. CASE i > Len(ms) - d
    <3>1. /\ i - (Len(ms) - d) \in 1 .. Len(ids)
          /\ i = Len(ms) - d + (i - (Len(ms) - d)) /\ i + d = Len(ms) + (i - (Len(ms) - d))
      BY <1>1, <2>2
    <3> QED  BY <1>2, <1>3, <1>4, <3>1, ZenonT(60)
  <2> QED  BY <1>1, <2>1, <2>2
<1>6. From(all, d + 1) = All(rest, ids)
  <2>1. Len(ms) - d + Len(ids) = Len(ms) + Len(ids) - d
    BY <1>1
  <2> QED  BY <1>3, <1>4, <1>5, <2>1, Same
<1>7. d <= Len(all) /\ (d = 0 \/ d = Len(all) \/ all[d + 1].kind # "result")
  <2>1. CASE d = 0
    BY <1>1, <1>2, <2>1
  <2>2. CASE d = Len(ms) /\ ids = <<>>
    BY <1>1, <1>2, <2>2
  <2>3. CASE d < Len(ms) /\ ms[d + 1].kind # "result"
    <3>1. d + 1 \in 1 .. Len(ms)
      BY <1>1, <2>3
    <3> QED  BY <1>1, <1>2, <2>3, <3>1
  <2> QED  BY <2>1, <2>2, <2>3
<1>8. Paired(all)
  BY DEF all
<1>9. Paired(From(all, d + 1))
  BY <1>2, <1>7, <1>8, Cutting
<1> QED  BY <1>1, <1>6, <1>9 DEF rest

\* A reply whose calls are new: they are open, and can be answered.
LEMMA Asking ==
    ASSUME NEW ms \in Seq(Messages), Paired(ms), NEW n \in 1 .. MaxReplies, NEW ids \in Ids,
           \A i, j \in DOMAIN ids : i # j => ids[i] # ids[j],
           Range(ids) \cap ResultIds(ms) = {}
    PROVE  /\ Reply(n, ids) \in Messages /\ Append(ms, Reply(n, ids)) \in Seq(Messages)
           /\ Paired(All(Append(ms, Reply(n, ids)), ids))
<1> DEFINE m == Reply(n, ids)
           said == Append(ms, m)
           all == All(said, ids)
<1>1. /\ m \in Messages /\ m.kind = "assistant" /\ m.calls = ids
      /\ Len(ms) \in Nat /\ DOMAIN ms = 1 .. Len(ms)
      /\ Len(ids) \in Nat /\ DOMAIN ids = 1 .. Len(ids)
      /\ \A k \in DOMAIN ids : ids[k] \in CallIds /\ k \in Nat \ {0}
  BY IdSeqs DEF Reply, Messages
<1> HIDE DEF m
<1>2. /\ said \in Seq(Messages) /\ Len(said) = Len(ms) + 1
      /\ \A i \in 1 .. Len(ms) : said[i] = ms[i]
      /\ said[Len(ms) + 1] = m
  BY <1>1, Longer
<1> HIDE DEF said
<1>3. /\ all \in Seq(Messages) /\ Len(all) = Len(ms) + 1 + Len(ids)
      /\ \A i \in 1 .. Len(ms) + 1 : all[i] = said[i]
      /\ \A k \in 1 .. Len(ids) : all[Len(ms) + 1 + k] = Result(ids[k])
  <2>1. /\ all \in Seq(Messages) /\ Len(all) = Len(said) + Len(ids)
        /\ \A i \in 1 .. Len(said) : all[i] = said[i]
        /\ \A k \in 1 .. Len(ids) : all[Len(said) + k] = Result(ids[k])
    BY <1>2, Alls
  <2> QED  BY <1>2, <2>1
<1> HIDE DEF all
<1>4. DOMAIN all = 1 .. Len(ms) + 1 + Len(ids)
  BY <1>3
<1>5. \A i \in DOMAIN ms : i \in DOMAIN all /\ all[i] = ms[i] /\ i \in Nat /\ i <= Len(ms)
  BY <1>1, <1>2, <1>3, <1>4
<1>6. Len(ms) + 1 \in DOMAIN all /\ all[Len(ms) + 1] = m
  BY <1>1, <1>2, <1>3, <1>4
<1>7. \A k \in DOMAIN ids : /\ Len(ms) + 1 + k \in DOMAIN all
                            /\ all[Len(ms) + 1 + k] = Result(ids[k])
  BY <1>1, <1>3, <1>4
<1>8. \A i \in DOMAIN all : \/ i \in DOMAIN ms \/ i = Len(ms) + 1
                            \/ \E k \in DOMAIN ids : i = Len(ms) + 1 + k
  <2>1. ASSUME NEW i \in 1 .. Len(ms) + 1 + Len(ids), i \notin 1 .. Len(ms), i # Len(ms) + 1
        PROVE  i - (Len(ms) + 1) \in 1 .. Len(ids) /\ i = Len(ms) + 1 + (i - (Len(ms) + 1))
    BY <1>1, <2>1
  <2> QED  BY <1>1, <1>4, <2>1
<1>9. \A k \in DOMAIN ids : /\ all[Len(ms) + 1 + k].kind = "result"
                            /\ all[Len(ms) + 1 + k].no = ids[k]
                            /\ DOMAIN all[Len(ms) + 1 + k].calls = {}
  BY <1>1, <1>7, ResultIsOne
<1>10. Answered(all)
  <2>1. ASSUME NEW i \in DOMAIN all, NEW k \in DOMAIN all[i].calls
        PROVE  i + k \in DOMAIN all /\ all[i + k] = Result(all[i].calls[k])
    <3>1. CASE i \in DOMAIN ms
      <4>1. i + k \in DOMAIN ms /\ ms[i + k] = Result(ms[i].calls[k]) /\ all[i] = ms[i]
        BY <1>5, <3>1 DEF Paired, Answered
      <4> QED  BY <4>1, <1>5
    <3>2. CASE i = Len(ms) + 1
      <4>1. k \in DOMAIN ids /\ all[i].calls[k] = ids[k]
        BY <1>1, <1>6, <3>2
      <4> QED  BY <4>1, <1>7, <3>2
    <3>3. CASE \E j \in DOMAIN ids : i = Len(ms) + 1 + j
      BY <1>9, <3>3
    <3> QED  BY <1>8, <3>1, <3>2, <3>3
  <2> QED  BY <2>1 DEF Answered
<1>11. Caused(all)
  <2>1. ASSUME NEW i \in DOMAIN all, all[i].kind = "result"
        PROVE  \E j \in DOMAIN all : \E k \in DOMAIN all[j].calls : i = j + k
    <3>1. CASE i \in DOMAIN ms
      <4>1. ms[i].kind = "result"
        BY <1>5, <2>1, <3>1
      <4>2. PICK j \in DOMAIN ms : \E k \in DOMAIN ms[j].calls : i = j + k
        BY <3>1, <4>1 DEF Paired, Caused
      <4> QED  BY <4>2, <1>5
    <3>2. CASE i = Len(ms) + 1
      BY <1>1, <1>6, <2>1, <3>2
    <3>3. CASE \E k \in DOMAIN ids : i = Len(ms) + 1 + k
      BY <1>1, <1>6, <3>3
    <3> QED  BY <1>8, <3>1, <3>2, <3>3
  <2> QED  BY <2>1 DEF Caused
<1>12. Single(all)
  <2>1. \A i \in DOMAIN ms, k \in DOMAIN ids : ms[i].kind = "result" => ms[i].no # ids[k]
    BY DEF ResultIds, Range
  <2>2. ASSUME NEW i \in DOMAIN all, NEW j \in DOMAIN all,
               all[i].kind = "result", all[j].kind = "result", all[i].no = all[j].no
        PROVE  i = j
    <3>1. i # Len(ms) + 1 /\ j # Len(ms) + 1
      BY <1>1, <1>6, <2>2
    <3>2. CASE i \in DOMAIN ms /\ j \in DOMAIN ms
      BY <1>5, <2>2, <3>2 DEF Paired, Single
    <3>3. CASE i \in DOMAIN ms /\ \E k \in DOMAIN ids : j = Len(ms) + 1 + k
      BY <1>5, <1>9, <2>1, <2>2, <3>3
    <3>4. CASE j \in DOMAIN ms /\ \E k \in DOMAIN ids : i = Len(ms) + 1 + k
      BY <1>5, <1>9, <2>1, <2>2, <3>4
    <3>5. CASE /\ \E k \in DOMAIN ids : i = Len(ms) + 1 + k
               /\ \E k \in DOMAIN ids : j = Len(ms) + 1 + k
      <4>1. PICK k \in DOMAIN ids : i = Len(ms) + 1 + k
        BY <3>5
      <4>2. PICK l \in DOMAIN ids : j = Len(ms) + 1 + l
        BY <3>5
      <4>3. ids[k] = ids[l]
        BY <1>9, <2>2, <4>1, <4>2
      <4> QED  BY <4>1, <4>2, <4>3
    <3> QED  BY <1>8, <3>1, <3>2, <3>3, <3>4, <3>5
  <2> QED  BY <2>2 DEF Single
<1> QED  BY <1>1, <1>2, <1>10, <1>11, <1>12 DEF Paired, m, said, all

\* A resumed turn finds in what was saved the calls that were open.
LEMMA OpenFound ==
    ASSUME NEW ms \in Seq(Messages), NEW open \in Ids, Paired(All(ms, open))
    PROVE  Unpaired(ms) = open
<1> DEFINE all == All(ms, open)
           n == Len(ms)
           p == Len(open)
           calling == {i \in DOMAIN ms : ms[i].calls # <<>>}
           last == CHOOSE i \in calling : \A j \in calling : j <= i
           left == {id \in CallIds : \A j \in last + 1 .. Len(ms) : ms[j] # Result(id)}
<1>1. /\ n \in Nat /\ DOMAIN ms = 1 .. n
      /\ p \in Nat /\ DOMAIN open = 1 .. p /\ (p = 0 <=> open = <<>>)
      /\ \A k \in 1 .. p : open[k] \in CallIds
  BY IdSeqs
<1>2. /\ all \in Seq(Messages) /\ Len(all) = n + p /\ DOMAIN all = 1 .. n + p
      /\ \A i \in 1 .. n : all[i] = ms[i]
      /\ \A k \in 1 .. p : all[n + k] = Result(open[k])
  <2>1. /\ all \in Seq(Messages) /\ Len(all) = n + p
        /\ \A i \in 1 .. n : all[i] = ms[i]
        /\ \A k \in 1 .. p : all[n + k] = Result(open[k])
    BY Alls
  <2>2. DOMAIN all = 1 .. n + p
    <3>1. DOMAIN all = 1 .. Len(all)
      BY <2>1
    <3> QED  BY <2>1, <3>1
  <2> QED  BY <2>1, <2>2
<1>3. Answered(all) /\ Caused(all) /\ Single(all)
  BY DEF Paired
<1>4. Unpaired(ms) = IF calling = {} THEN <<>> ELSE Keep(ms[last].calls, left)
  BY DEF Unpaired
<1>5. \A i \in 1 .. n : ms[i].calls \in Ids
  BY Conversations
<1>6. calling = {i \in 1 .. n : ms[i].calls # <<>>}
  BY <1>1
<1>7. left = {id \in CallIds : \A j \in last + 1 .. n : ms[j] # Result(id)}
  OBVIOUS
<1>8. calling # {} => last \in calling /\ \A j \in calling : j <= last
  <2>1. ASSUME calling # {} PROVE \E i \in calling : \A j \in calling : j <= i
    BY <1>1, <2>1, Greatest
  <2> HIDE DEF calling
  <2> QED  BY <2>1
<1> HIDE DEF all, n, p, calling, last, left
<1>9. \A i \in 1 .. n + p : i \in Nat /\ (i \in 1 .. n \/ (i - n \in 1 .. p /\ i = n + (i - n)))
  BY <1>1
\* Only what was said has calls.
<1>10. ASSUME NEW j \in 1 .. n + p, NEW k \in DOMAIN all[j].calls
       PROVE  j \in calling /\ j \in 1 .. n
  <2>1. j \in 1 .. n
    <3>1. SUFFICES ASSUME j \notin 1 .. n PROVE FALSE
      OBVIOUS
    <3>2. all[j] = Result(open[j - n]) /\ open[j - n] \in CallIds
      BY <1>1, <1>2, <1>9, <3>1
    <3>3. DOMAIN all[j].calls = {}
      BY <3>2, ResultIsOne
    <3> QED  BY <3>3
  <2>2. all[j].calls # <<>>
    OBVIOUS
  <2> QED  BY <1>2, <1>6, <2>1, <2>2
<1>11. CASE p = 0
  <2>1. CASE calling = {}
    BY <1>1, <1>4, <1>11, <2>1
  <2>2. CASE calling # {}
    <3> DEFINE s == ms[last].calls
               q == Len(s)
    <3>1. last \in 1 .. n /\ s \in Ids /\ all[last] = ms[last]
      BY <1>2, <1>5, <1>6, <1>8, <2>2
    <3>2. q \in 0 .. 2 /\ DOMAIN s = 1 .. q /\ \A k \in 1 .. q : s[k] \in CallIds /\ k \in Nat
      BY <3>1, IdSeqs
    <3>3. ASSUME NEW k \in 1 .. q
          PROVE  last + k \in 1 .. n + p /\ all[last + k] = Result(s[k])
      <4>1. last \in DOMAIN all /\ k \in DOMAIN all[last].calls /\ all[last].calls[k] = s[k]
        BY <1>1, <1>2, <3>1, <3>2
      <4> HIDE DEF s
      <4>2. last + k \in DOMAIN all /\ all[last + k] = Result(all[last].calls[k])
        BY <1>3, <4>1 DEF Answered
      <4> QED  BY <1>2, <4>1, <4>2
    <3> HIDE DEF s
    <3>4. ASSUME NEW k \in 1 .. q PROVE s[k] \notin left
      <4>1. last + k \in 1 .. n /\ last + k \in last + 1 .. n /\ ms[last + k] = Result(s[k])
        BY <1>1, <1>2, <1>11, <3>1, <3>2, <3>3
      <4> QED  BY <1>7, <4>1
    <3>5. q \in 0 .. Len(s) /\ \A k \in 1 .. Len(s) : s[k] \in left <=> q < k
      BY <3>2, <3>4
    <3>6. Keep(s, left) \in Ids /\ Len(Keep(s, left)) = 0
      <4>1. Len(Keep(s, left)) = Len(s) - q
        BY <3>1, <3>5, Keeping
      <4> QED  BY <3>1, <3>2, <4>1, Keeping
    <3>7. Keep(s, left) = <<>>
      BY <3>6, IdSeqs
    <3> QED  BY <1>1, <1>4, <1>11, <2>2, <3>7 DEF s
  <2> QED  BY <2>1, <2>2
<1>12. CASE p > 0
  \* The last open call is one of the last reply with calls, and its last one.
  <2>1. n + p \in 1 .. n + p /\ p \in 1 .. p /\ all[n + p].kind = "result"
    <3>1. n + p \in 1 .. n + p /\ p \in 1 .. p /\ all[n + p] = Result(open[p]) /\ open[p] \in CallIds
      BY <1>1, <1>2, <1>12
    <3> QED  BY <3>1, ResultIsOne
  <2>2. PICK j \in 1 .. n + p : \E k \in DOMAIN all[j].calls : n + p = j + k
    BY <1>2, <1>3, <2>1 DEF Caused
  <2>3. PICK k \in DOMAIN all[j].calls : n + p = j + k
    BY <2>2
  <2>4. j \in calling /\ j \in 1 .. n
    BY <1>10
  <2>5. /\ k \in Nat \ {0} /\ k <= Len(all[j].calls) /\ j \in Nat
        /\ \A l \in 1 .. k : l \in DOMAIN all[j].calls
    BY <1>2, CallsOf
  <2>6. last \in calling /\ j <= last /\ last \in 1 .. n /\ last \in Nat
    <3>1. last \in calling /\ j <= last
      BY <1>8, <2>4
    <3> QED  BY <1>1, <1>6, <3>1
  <2>7. j = last
    <3>1. SUFFICES ASSUME j < last PROVE FALSE
      BY <2>5, <2>6
    <3>2. last - j \in 1 .. k /\ j + (last - j) = last
      BY <1>1, <2>3, <2>5, <2>6, <3>1
    <3>3. last - j \in DOMAIN all[j].calls
      BY <2>5, <3>2
    <3>4. all[last] = Result(all[j].calls[last - j])
      BY <1>2, <1>3, <3>2, <3>3 DEF Answered
    <3>5. all[last] = ms[last] /\ ms[last].calls # <<>>
      BY <1>2, <1>6, <2>6
    <3> QED  BY <3>4, <3>5 DEF Result
  <2> DEFINE s == ms[last].calls
             q == Len(s)
             d == n - last
  <2>8. s \in Ids /\ all[last] = ms[last] /\ d \in Nat
    BY <1>1, <1>2, <1>5, <2>6
  <2>9. q \in 0 .. 2 /\ DOMAIN s = 1 .. q /\ \A m \in 1 .. q : s[m] \in CallIds /\ m \in Nat
    BY <2>8, IdSeqs
  <2>10. ASSUME NEW m \in 1 .. q
         PROVE  last + m \in 1 .. n + p /\ all[last + m] = Result(s[m])
    <3>1. last \in DOMAIN all /\ m \in DOMAIN all[last].calls /\ all[last].calls[m] = s[m]
      BY <1>1, <1>2, <2>6, <2>8, <2>9
    <3> HIDE DEF s
    <3>2. last + m \in DOMAIN all /\ all[last + m] = Result(all[last].calls[m])
      BY <1>3, <3>1 DEF Answered
    <3> QED  BY <1>2, <3>1, <3>2
  <2>11. k <= q
    BY <2>5, <2>7, <2>8
  <2> HIDE DEF s
  <2>12. n + p = last + q /\ q = d + p
    <3>1. q \in 1 .. q
      BY <2>5, <2>9, <2>11
    <3>2. last + q <= n + p
      BY <2>10, <3>1, <1>1
    <3>3. n + p = last + k
      BY <2>3, <2>7
    <3> QED  BY <1>1, <2>5, <2>6, <2>9, <2>11, <3>2, <3>3
  <2> HIDE DEF q, d
  <2>13. \A m \in 1 .. d : m \in 1 .. q /\ last + m \in last + 1 .. n /\ ms[last + m] = Result(s[m])
    <3>1. ASSUME NEW m \in 1 .. d
          PROVE  m \in 1 .. q /\ last + m \in last + 1 .. n /\ last + m \in 1 .. n
      BY <1>1, <2>6, <2>8, <2>12, <3>1 DEF d
    <3> QED  BY <1>2, <2>10, <3>1
  <2>14. ASSUME NEW m \in 1 .. q, m <= d PROVE s[m] \notin left
    <3>1. m \in 1 .. d
      BY <2>8, <2>9, <2>14
    <3> QED  BY <1>7, <2>13, <3>1
  <2>15. ASSUME NEW m \in 1 .. q, d < m PROVE s[m] \in left
    <3>1. SUFFICES ASSUME NEW i \in last + 1 .. n, ms[i] = Result(s[m]) PROVE FALSE
      BY <1>7, <2>9
    <3>2. i - last \in 1 .. d /\ last + (i - last) = i /\ i \in 1 .. n
      BY <1>1, <2>6 DEF d
    <3>3. all[i] = Result(s[m]) /\ all[last + m] = Result(s[m]) /\ last + m \in 1 .. n + p /\ i \in 1 .. n + p
      BY <1>1, <1>2, <2>10, <3>1, <3>2
    <3>4. all[i].kind = "result" /\ all[i].no = all[last + m].no /\ all[last + m].kind = "result"
      BY <2>9, <3>3, ResultIsOne
    <3>5. i = last + m
      BY <1>2, <1>3, <3>3, <3>4 DEF Single
    <3> QED  BY <2>6, <2>8, <2>9, <2>15, <3>2, <3>5 DEF d
  <2>16. d \in 0 .. Len(s) /\ \A m \in 1 .. Len(s) : s[m] \in left <=> d < m
    <3>1. d \in 0 .. q /\ q \in Nat /\ d \in Nat
      BY <1>1, <2>8, <2>9, <2>12
    <3>2. \A m \in 1 .. q : m <= d \/ d < m
      BY <3>1
    <3> QED  BY <2>14, <2>15, <3>1, <3>2 DEF q
  <2>17. /\ Keep(s, left) \in Ids /\ Len(Keep(s, left)) = Len(s) - d
         /\ \A m \in 1 .. Len(s) - d : Keep(s, left)[m] = s[d + m]
    BY <2>8, <2>16, Keeping
  <2>18. Len(s) - d = p
    BY <1>1, <2>8, <2>12 DEF q
  <2>19. ASSUME NEW m \in 1 .. p PROVE open[m] = s[d + m]
    <3>1. d + m \in 1 .. q /\ n + m = last + (d + m)
      BY <1>1, <2>6, <2>8, <2>12 DEF d
    <3>2. Result(open[m]) = Result(s[d + m])
      BY <1>2, <2>10, <3>1
    <3> QED  BY <3>2 DEF Result
  <2>20. Keep(s, left) = open
    <3>1. Keep(s, left) \in Seq(CallIds) /\ open \in Seq(CallIds)
      BY <2>17, IdSeqs
    <3>2. Len(Keep(s, left)) = Len(open) /\ \A m \in 1 .. Len(Keep(s, left)) : Keep(s, left)[m] = open[m]
      BY <2>17, <2>18, <2>19 DEF p
    <3> QED  BY <3>1, <3>2, Same
  <2> QED  BY <1>4, <2>6, <2>20 DEF s
<1> QED  BY <1>1, <1>11, <1>12

LEMMA UnpairedType ==
    ASSUME NEW ms \in Seq(Messages)
    PROVE  Unpaired(ms) \in Ids
<1> DEFINE calling == {i \in DOMAIN ms : ms[i].calls # <<>>}
           last == CHOOSE i \in calling : \A j \in calling : j <= i
           left == {id \in CallIds : \A j \in last + 1 .. Len(ms) : ms[j] # Result(id)}
<1>1. Unpaired(ms) = IF calling = {} THEN <<>> ELSE Keep(ms[last].calls, left)
  BY DEF Unpaired
<1>2. ASSUME calling # {} PROVE ms[last].calls \in Ids
  <2>1. \E i \in calling : \A j \in calling : j <= i
    BY <1>2, Conversations, Greatest, ZenonT(60)
  <2>2. \A i \in calling : ms[i].calls \in Ids
    BY Conversations
  <2> HIDE DEF calling
  <2>3. last \in calling
    BY <2>1
  <2> QED  BY <2>2, <2>3
<1> HIDE DEF calling, last, left
<1> QED  BY <1>1, <1>2, NoIds, Keeping

(* Types *)

LEMMA Bounds ==
    /\ MaxQueries \in Nat /\ MaxSteps \in Nat /\ MaxCalls \in Nat
    /\ MaxReplies \in Nat /\ MaxAppends \in Nat /\ MaxMishaps \in Nat
BY LoopAssumption

Answering  == {"after", "replied", "tools", "result"}
Compacting == {"compact", "organize", "tail"}

\* Where the open calls are, and where a compaction that is under way cuts.
Shape ==
    /\ loop.todo # <<>> => \/ loop.pc \in Answering \union {"finish"}
                           \/ loop.pc \in Compacting /\ loop.back = "replied"
    /\ loop.pc = "result" => loop.todo # <<>>
    /\ loop.pc \in Compacting =>
          /\ loop.back \in {"replied", "assemble", "mark"}
          /\ loop.drop <= Len(loop.messages)
          /\ \/ loop.drop = 0
             \/ loop.drop = Len(loop.messages) /\ loop.todo = <<>>
             \/ loop.drop < Len(loop.messages)
                  /\ loop.messages[loop.drop + 1].kind \in {"user", "assistant"}
    /\ loop.pc \in {"assemble", "peek", "request"}
         \/ (loop.pc \in Compacting /\ loop.back = "assemble") => loop.steps < MaxSteps
    /\ preempter <= turns

LEMMA Spoken ==
    ASSUME NEW ms \in Seq(Messages), NEW m \in Messages
    PROVE  Append(ms, m) \in Seq(Messages)
BY Longer

LEMMA Said ==
    /\ \A q \in 0 .. MaxQueries : User(q) \in Messages /\ User(q).kind = "user" /\ User(q).calls = <<>>
    /\ \A id \in CallIds : Result(id) \in Messages
    /\ \A n \in 1 .. MaxReplies, ids \in Ids : Reply(n, ids) \in Messages
    /\ Handoff \in Messages /\ Handoff.kind = "user" /\ Handoff.calls = <<>>
<1>1. 0 \in 0 .. MaxQueries
  BY Bounds
<1> QED  BY <1>1 DEF Messages, User, Handoff

LEMMA Cutters ==
    ASSUME NEW ms \in Seq(Messages), NEW d \in Cuts(ms)
    PROVE  /\ d \in Nat /\ d <= Len(ms)
           /\ d = 0 \/ (d < Len(ms) /\ ms[d + 1].kind \in {"user", "assistant"})
<1>1. Len(ms) \in Nat /\ DOMAIN ms = 1 .. Len(ms)
  OBVIOUS
<1>2. CASE d = 0
  BY <1>1, <1>2
<1>3. CASE d # 0
  <2>1. PICK i \in 1 .. Len(ms) : ms[i].kind \in {"user", "assistant"} /\ d = i - 1
    BY <1>1, <1>3 DEF Cuts
  <2>2. d \in Nat /\ d < Len(ms) /\ d + 1 = i
    BY <1>1, <2>1
  <2> QED  BY <1>1, <2>1, <2>2
<1> QED  BY <1>2, <1>3

LEMMA TurnStarts ==
    ASSUME NEW ms \in Seq(Messages), TurnStart(ms) > 1
    PROVE  /\ TurnStart(ms) - 1 \in Nat /\ TurnStart(ms) - 1 < Len(ms)
           /\ TurnStart(ms) = (TurnStart(ms) - 1) + 1 /\ ms[TurnStart(ms)].kind = "user"
<1> DEFINE users == {i \in DOMAIN ms : ms[i].kind = "user"}
           last == CHOOSE i \in users : \A j \in users : j <= i
<1>1. Len(ms) \in Nat /\ DOMAIN ms = 1 .. Len(ms)
  OBVIOUS
<1>2. TurnStart(ms) = IF users = {} THEN 1 ELSE last
  BY DEF TurnStart
<1>3. users # {}
  BY <1>2
<1>4. last \in users
  <2>1. \E i \in users : \A j \in users : j <= i
    BY <1>1, <1>3, Greatest
  <2> HIDE DEF users
  <2> QED  BY <2>1
<1>5. last \in 1 .. Len(ms) /\ ms[last].kind = "user"
  BY <1>1, <1>4
<1> HIDE DEF users, last
<1> QED  BY <1>1, <1>2, <1>3, <1>5

LEMMA PersistTypes ==
    ASSUME TypeOK, NEW l \in Loops, Persist(l)
    PROVE  /\ loop' \in Loops /\ checkpoint' \in Checkpoints \union {None}
           /\ settled' \subseteq CallIds /\ mishaps' \in 0 .. MaxMishaps
<1>1. l.messages \in Seq(Messages) /\ Snapshot(l) \in Checkpoints
  BY DEF Loops, Snapshot, Checkpoints
<1>2. {m.no : m \in {n \in Range(l.messages) : n.kind = "result"}} \subseteq CallIds
  BY <1>1, Conversations, MessageKinds
<1>3. [l EXCEPT !.pc = "finish", !.err = "fatal"] \in Loops
  BY DEF Loops, Steps, Errors
<1>4. mishaps \in 0 .. MaxMishaps /\ settled \subseteq CallIds
      /\ checkpoint \in Checkpoints \union {None}
  BY DEF TypeOK
<1>5. Mishap => mishaps' \in 0 .. MaxMishaps
  BY <1>4, Bounds DEF Mishap
<1> QED  BY <1>1, <1>2, <1>3, <1>4, <1>5 DEF Persist

LEMMA DiscardTypes ==
    ASSUME TypeOK, NEW l \in Loops, NEW failed \in Steps, DiscardReact(l, failed)
    PROVE  /\ loop' \in Loops /\ checkpoint' \in Checkpoints \union {None}
           /\ settled' \subseteq CallIds /\ mishaps' \in 0 .. MaxMishaps
<1>1. [loop EXCEPT !.pc = failed, !.err = "fatal"] \in Loops
  BY ZenonT(60) DEF TypeOK, Loops, Steps, Errors
<1>2. mishaps \in 0 .. MaxMishaps /\ settled \subseteq CallIds
      /\ checkpoint \in Checkpoints \union {None}
  BY DEF TypeOK
<1>3. Mishap => mishaps' \in 0 .. MaxMishaps
  BY <1>2, Bounds DEF Mishap
<1> QED  BY <1>1, <1>2, <1>3 DEF DiscardReact

LEMMA Names ==
    /\ "idle" \in Steps /\ "restore" \in Steps /\ "next" \in Steps /\ "wait" \in Steps
    /\ "begin" \in Steps /\ "step" \in Steps /\ "assemble" \in Steps /\ "peek" \in Steps
    /\ "request" \in Steps /\ "after" \in Steps /\ "replied" \in Steps /\ "tools" \in Steps
    /\ "result" \in Steps /\ "commit" \in Steps /\ "mark" \in Steps /\ "discard" \in Steps
    /\ "finish" \in Steps /\ "compact" \in Steps /\ "organize" \in Steps /\ "tail" \in Steps
    /\ "known" \in Steps /\ "returned" \in Steps /\ "stopped" \in Steps
    /\ "none" \in Errors /\ "canceled" \in Errors /\ "lifecycle" \in Errors
    /\ "recoverable" \in Errors /\ "fatal" \in Errors
BY DEF Steps, Errors

LEMMA QueryNumbers == \A q \in Queries : q \in 0 .. MaxQueries /\ q \in 1 .. MaxQueries
BY Bounds DEF Queries

LEMMA TypeFacts ==
    ASSUME TypeOK
    PROVE  /\ loop \in Loops /\ loop.pc \in Steps /\ loop.query \in 0 .. MaxQueries
           /\ loop.messages \in Seq(Messages)
           /\ loop.used \subseteq CallIds /\ loop.todo \in Ids /\ loop.steps \in 0 .. MaxSteps
           /\ loop.snap \subseteq Nodes /\ loop.snapRev \in Nat /\ loop.drop \in Nat
           /\ loop.back \in Steps /\ loop.err \in Errors
           /\ loop.active \in BOOLEAN /\ loop.canceled \in BOOLEAN /\ loop.preempted \in BOOLEAN
           /\ loop.committed \in BOOLEAN
BY DEF TypeOK, Loops

LEMMA SavedFacts ==
    ASSUME TypeOK, checkpoint # None
    PROVE  /\ checkpoint \in Checkpoints /\ checkpoint.messages \in Seq(Messages)
           /\ checkpoint.used \subseteq CallIds /\ checkpoint.query \in 0 .. MaxQueries
           /\ checkpoint.committed \in BOOLEAN
BY DEF TypeOK, Checkpoints

LEMMA BegunType ==
    ASSUME TypeOK, NEW l \in Loops, NEW q \in 0 .. MaxQueries, NEW resume \in BOOLEAN
    PROVE  Begun(l, q, resume) \in Loops
<1>1. 0 \in 0 .. MaxSteps /\ stopping \in BOOLEAN
  BY Bounds DEF TypeOK
<1> QED  BY <1>1, Names DEF Begun, Loops

LEMMA RunTurnTypes ==
    ASSUME TypeOK, NEW q \in 0 .. MaxQueries, RunTurn(q)
    PROVE  loop' \in Loops /\ turns' \in Nat /\ final' \in [Queries -> 0 .. MaxReplies]
<1>1. [loop EXCEPT !.committed = FALSE] \in Loops
  BY DEF TypeOK, Loops
<1>2. loop' \in Loops
  BY <1>1, BegunType DEF RunTurn
<1>3. turns' = turns + 1 /\ final' = [final EXCEPT ![q] = 0]
  BY DEF RunTurn
<1>4. turns \in Nat /\ final \in [Queries -> 0 .. MaxReplies] /\ 0 \in 0 .. MaxReplies
  BY Bounds DEF TypeOK
<1>5. final' \in [Queries -> 0 .. MaxReplies]
  BY <1>3, <1>4
<1> QED  BY <1>2, <1>3, <1>4, <1>5

LEMMA Moves ==
    ASSUME TypeOK
    PROVE  \A p \in Steps, e \in Errors : /\ [loop EXCEPT !.pc = p] \in Loops
                                          /\ [loop EXCEPT !.pc = p, !.err = e] \in Loops
BY DEF TypeOK, Loops

\* What the model may answer with: at most two calls.
LEMMA CallSeqs ==
    \A used \in SUBSET CallIds :
        LET new == {id \in CallIds : \A u \in used : u < id}
        IN /\ <<>> \in Ids /\ \A id \in used : <<id>> \in Ids
           /\ \A id \in new : <<id>> \in Ids /\ <<id, id>> \in Ids
           /\ \A id \in new \ {MaxCalls} : <<id, id + 1>> \in Ids
<1>1. \A id \in CallIds : <<id>> \in Ids
  <2>1. ASSUME NEW id \in CallIds PROVE <<id>> \in Ids
    <3>1. <<id>> \in Seq(CallIds) /\ Len(<<id>>) <= 2
      OBVIOUS
    <3> QED  BY <3>1, IdSeqsAre
  <2> QED  BY <2>1
<1>2. \A a, b \in CallIds : <<a, b>> \in Ids
  <2>1. ASSUME NEW a \in CallIds, NEW b \in CallIds PROVE <<a, b>> \in Ids
    <3>1. <<a, b>> \in Seq(CallIds) /\ Len(<<a, b>>) <= 2
      OBVIOUS
    <3> QED  BY <3>1, IdSeqsAre
  <2> QED  BY <2>1
<1>3. \A id \in CallIds \ {MaxCalls} : id + 1 \in CallIds
  BY Bounds DEF CallIds
<1> QED  BY <1>1, <1>2, <1>3, NoIds

LEMMA TypeStep ==
    ASSUME TypeOK, Shape, [Next]_vars
    PROVE  TypeOK'
<1>1. CASE Run
  <2>1. loop' \in Loops
    BY <1>1, Names, Moves DEF Run, Goto, Fail
  <2> QED
    BY <1>1, <2>1 DEF Run, TypeOK, told, counters
<1>2. ASSUME NEW q \in Queries, Ask(q) PROVE TypeOK'
  <2>1. loop \in Loops /\ q \in 0 .. MaxQueries /\ 0 \in 0 .. MaxReplies
    BY <1>2, Bounds, QueryNumbers DEF TypeOK
  <2>2. loop' = [loop EXCEPT !.pc = "restore", !.query = q, !.err = "none", !.answer = 0]
    BY <1>2 DEF Ask
  <2>3. loop' \in Loops
    BY <2>1, <2>2, Names DEF Loops
  <2> QED
    BY <1>2, <2>1, <2>3 DEF Ask, TypeOK, told, counters
<1>3. CASE Restore
  <2>1. CASE Queued(kind)
    <3>1. loop' \in Loops
      BY <1>3, <2>1, Names, TypeFacts DEF Restore, Loops, Goto
    <3> QED  BY <1>3, <2>1, <3>1 DEF Restore, TypeOK, told, counters
  <2>2. CASE ~Queued(kind)
    <3>1. loop' \in Loops /\ turns' \in Nat /\ final' \in [Queries -> 0 .. MaxReplies]
      BY <1>3, <2>2, TypeFacts, RunTurnTypes DEF Restore
    <3> QED  BY <1>3, <3>1 DEF Restore, TypeOK, told, counters
  <2> QED  BY <2>1, <2>2
<1>4. CASE ContinueTurn
  <2> DEFINE l == [loop EXCEPT !.messages = checkpoint.messages, !.used = checkpoint.used,
                               !.committed = checkpoint.committed, !.query = checkpoint.query]
  <2>1. l \in Loops /\ l.query \in 0 .. MaxQueries
    BY <1>4, TypeFacts, SavedFacts DEF ContinueTurn, Loops
  <2>2. [l EXCEPT !.pc = "known"] \in Loops
    BY <2>1, Names DEF Loops
  <2> HIDE DEF l
  <2>3. Begun(l, l.query, TRUE) \in Loops
    BY <2>1, BegunType
  <2>4. \/ loop' = [l EXCEPT !.pc = "known"] /\ turns' = turns
        \/ loop' = Begun(l, l.query, TRUE) /\ turns' = turns + 1
    BY <1>4 DEF ContinueTurn, l
  <2>5. loop' \in Loops /\ turns' \in Nat
    <3>1. turns \in Nat
      BY DEF TypeOK
    <3>2. turns + 1 \in Nat
      BY <3>1
    <3> QED  BY <2>2, <2>3, <2>4, <3>1, <3>2
  <2> QED  BY <1>4, <2>5 DEF ContinueTurn, TypeOK, told, counters
<1>5. CASE FinishCommitted
  <2> DEFINE l == [loop EXCEPT !.pc = IF Queued(kind) THEN "next" ELSE "returned",
                               !.answer = LastReply(loop.messages)]
             failed == IF Queued(kind) THEN "stopped" ELSE "returned"
  <2>1. l \in Loops /\ failed \in Steps
    BY Names, TypeFacts, LastReplies DEF Loops
  <2>2. DiscardReact(l, failed)
    BY <1>5 DEF FinishCommitted
  <2> HIDE DEF l, failed
  <2>3. /\ loop' \in Loops /\ checkpoint' \in Checkpoints \union {None}
        /\ settled' \subseteq CallIds /\ mishaps' \in 0 .. MaxMishaps
    BY <2>1, <2>2, DiscardTypes
  <2> QED  BY <1>5, <2>3 DEF FinishCommitted, TypeOK, told, counters
<1>6. CASE Next1
  <2>1. CASE queue = <<>>
    <3>1. loop' \in Loops
      BY <1>6, <2>1, Names, TypeFacts DEF Next1, Loops, Goto
    <3> QED  BY <1>6, <2>1, <3>1 DEF Next1, TypeOK, told, counters
  <2>2. CASE queue # <<>>
    <3>1. Head(queue) \in Queries /\ Tail(queue) \in Seq(Queries)
      BY <2>2 DEF TypeOK
    <3>2. loop' \in Loops /\ turns' \in Nat /\ final' \in [Queries -> 0 .. MaxReplies]
      BY <1>6, <2>2, <3>1, QueryNumbers, RunTurnTypes DEF Next1
    <3> QED  BY <1>6, <2>2, <3>1, <3>2 DEF Next1, TypeOK, told, counters
  <2> QED  BY <2>1, <2>2
<1>7. CASE Woken
  <2>1. loop' \in Loops
    BY <1>7, Names, TypeFacts, Bounds DEF Woken, TypeOK, Loops, Goto, Fail
  <2> QED
    BY <1>7, <2>1 DEF Woken, TypeOK, told, counters, Mishap
<1>8. CASE NextCanceled
  <2>1. loop' \in Loops
    BY <1>8, Names, Moves DEF NextCanceled, Goto, Fail
  <2> QED
    BY <1>8, <2>1 DEF NextCanceled, TypeOK, told, counters
<1>9. CASE Begin
  <2>1. CASE loop.resume
    <3>1. Unpaired(loop.messages) \in Ids
      BY TypeFacts, UnpairedType
    <3> DEFINE open == Unpaired(loop.messages)
               to == IF open # <<>> THEN "tools"
                     ELSE IF Complete(loop.messages) THEN "commit" ELSE "step"
    <3>2. loop' = [loop EXCEPT !.pc = to, !.todo = open] /\ to \in Steps
      BY <1>9, <2>1, Names DEF Begin
    <3> HIDE DEF open, to
    <3>3. loop' \in Loops
      BY <3>1, <3>2, TypeFacts DEF Loops, open
    <3> QED  BY <1>9, <2>1, <3>3 DEF Begin, TypeOK, told, counters
  <2>2. CASE ~loop.resume
    <3> DEFINE l == [loop EXCEPT !.pc = "step", !.messages = Append(@, User(loop.query))]
    <3>1. Append(loop.messages, User(loop.query)) \in Seq(Messages)
      BY TypeFacts, Said, Spoken
    <3>2. l \in Loops
      BY <3>1, Names, TypeFacts DEF Loops
    <3>3. Persist(l)
      BY <1>9, <2>2 DEF Begin
    <3> HIDE DEF l
    <3>4. /\ loop' \in Loops /\ checkpoint' \in Checkpoints \union {None}
          /\ settled' \subseteq CallIds /\ mishaps' \in 0 .. MaxMishaps
      BY <3>2, <3>3, PersistTypes
    <3> QED  BY <1>9, <3>4 DEF Begin, TypeOK, told, counters
  <2> QED  BY <2>1, <2>2
<1>10. CASE Step
  <2>1. \/ loop' = [loop EXCEPT !.pc = "finish", !.err = "recoverable"]
        \/ loop' = [loop EXCEPT !.pc = "finish", !.err = "canceled"]
        \/ loop' = [loop EXCEPT !.pc = "assemble", !.packed = FALSE]
    BY <1>10 DEF Step, Goto, Fail, Interrupted
  <2>2. /\ [loop EXCEPT !.pc = "finish", !.err = "recoverable"] \in Loops
        /\ [loop EXCEPT !.pc = "finish", !.err = "canceled"] \in Loops
        /\ [loop EXCEPT !.pc = "assemble", !.packed = FALSE] \in Loops
    BY Names, TypeFacts DEF Loops
  <2>3. loop' \in Loops
    BY <2>1, <2>2
  <2> QED
    BY <1>10, <2>3 DEF Step, TypeOK, told, counters
<1>11. CASE Assemble
  <2>1. \/ loop' = [loop EXCEPT !.pc = "finish", !.err = "lifecycle"]
        \/ loop' = [loop EXCEPT !.pc = "request"]
        \/ loop' = [loop EXCEPT !.pc = "peek", !.cached = memory]
    BY <1>11 DEF Assemble, Projection, Goto, Fail, Interrupted
  <2>0. memory \subseteq Nodes /\ revision \in Nat
    BY DEF TypeOK
  <2>2. /\ [loop EXCEPT !.pc = "finish", !.err = "lifecycle"] \in Loops
        /\ [loop EXCEPT !.pc = "request"] \in Loops
        /\ [loop EXCEPT !.pc = "peek", !.cached = memory] \in Loops
    BY Names, TypeFacts, <2>0 DEF Loops
  <2>3. loop' \in Loops
    BY <2>1, <2>2
  <2> QED
    BY <1>11, <2>3 DEF Assemble, TypeOK, told, counters
<1>12. CASE Peek
  <2>1. revision \in Nat
    BY DEF TypeOK
  <2>2. loop' \in Loops
    BY <1>12, <2>1, Names, TypeFacts DEF Peek, Loops
  <2> QED  BY <1>12, <2>2 DEF Peek, TypeOK, told, counters
<1>13. CASE CompactBeforeRequest
  <2>1. PICK drop \in Cuts(loop.messages) :
          loop' = [loop EXCEPT !.pc = "compact", !.back = "assemble", !.packed = TRUE, !.drop = drop]
    BY <1>13 DEF CompactBeforeRequest
  <2>2. drop \in Nat
    BY TypeFacts, Cutters
  <2>3. loop' \in Loops
    BY <2>1, <2>2, Names, TypeFacts DEF Loops
  <2> QED  BY <1>13, <2>3 DEF CompactBeforeRequest, TypeOK, told, counters
<1>14. CASE ResetSession
  <2> DEFINE start == TurnStart(loop.messages)
             l == [loop EXCEPT !.pc = "assemble", !.packed = TRUE,
                               !.messages = <<Handoff>> \o From(@, start)]
  <2>1. <<Handoff>> \o From(loop.messages, start) \in Seq(Messages)
    <3>1. start - 1 \in Nat /\ start - 1 < Len(loop.messages) /\ start = (start - 1) + 1
      BY <1>14, TypeFacts, TurnStarts DEF ResetSession
    <3> HIDE DEF start
    <3>2. From(loop.messages, start) \in Seq(Messages)
      <4>1. start - 1 <= Len(loop.messages)
        BY <3>1, TypeFacts
      <4> QED  BY <3>1, <4>1, TypeFacts, Rest
    <3>3. <<Handoff>> \in Seq(Messages)
      BY Said
    <3> QED  BY <3>2, <3>3, Joined
  <2>2. l \in Loops
    <3> HIDE DEF start
    <3> QED  BY <2>1, Names, TypeFacts DEF Loops
  <2>3. Persist(l)
    BY <1>14 DEF ResetSession
  <2> HIDE DEF l
  <2>4. /\ loop' \in Loops /\ checkpoint' \in Checkpoints \union {None}
        /\ settled' \subseteq CallIds /\ mishaps' \in 0 .. MaxMishaps
    BY <2>2, <2>3, PersistTypes
  <2> QED  BY <1>14, <2>4 DEF ResetSession, TypeOK, told, counters
<1>15. ASSUME NEW ids \in ModelCalls, Generate(ids) PROVE TypeOK'
  <2> DEFINE reply == Reply(replies + 1, ids)
             s == [loop EXCEPT !.steps = @ + 1]
             l == [s EXCEPT !.pc = "after", !.used = @ \union Range(ids), !.todo = ids,
                            !.messages = Append(@, reply)]
  <2>1. /\ ids \in Ids /\ Range(ids) \subseteq CallIds
        /\ replies + 1 \in 0 .. MaxReplies /\ replies + 1 \in 1 .. MaxReplies
        /\ loop.steps + 1 \in 0 .. MaxSteps
    <3>1. replies + 1 \in 0 .. MaxReplies /\ replies + 1 \in 1 .. MaxReplies
      BY <1>15, Bounds, SMTT(30) DEF Generate, TypeOK
    <3>2. loop.steps + 1 \in 0 .. MaxSteps
      BY <1>15, Bounds, TypeFacts DEF Generate, Shape
    <3>3. ids \in Ids
      BY <1>15, TypeFacts, Bounds, CallSeqs DEF ModelCalls
    <3> QED  BY <3>1, <3>2, <3>3, IdSeqs, RangeType
  <2>2. reply \in Messages /\ Append(loop.messages, reply) \in Seq(Messages) /\ reply.no = replies + 1
    BY <2>1, TypeFacts, Said, Spoken DEF Reply
  <2> HIDE DEF reply
  <2>3. l \in Loops /\ [s EXCEPT !.pc = "finish", !.err = "fatal"] \in Loops
    BY <2>1, <2>2, Names, TypeFacts DEF Loops
  <2>4. \/ /\ loop' = [s EXCEPT !.pc = "finish", !.err = "fatal"]
           /\ UNCHANGED <<checkpoint, settled, mishaps, final>>
        \/ /\ Persist(l)
           /\ final' = final \/ final' = [final EXCEPT ![loop.query] = reply.no]
    BY <1>15 DEF Generate, reply
  <2> HIDE DEF s, l
  <2>5. /\ loop' \in Loops /\ checkpoint' \in Checkpoints \union {None}
        /\ settled' \subseteq CallIds /\ mishaps' \in 0 .. MaxMishaps
    BY <2>3, <2>4, PersistTypes DEF TypeOK
  <2>6. final' \in [Queries -> 0 .. MaxReplies]
    BY <2>1, <2>2, <2>4 DEF TypeOK
  <2>7. replies' \in 0 .. MaxReplies
    BY <1>15, <2>1 DEF Generate
  <2> QED  BY <1>15, <2>5, <2>6, <2>7 DEF Generate, TypeOK
<1>16. CASE GenerateFails
  <2>1. loop' \in Loops
    BY <1>16, Names, TypeFacts, ZenonT(60) DEF GenerateFails, Loops, Fail
  <2>2. mishaps' \in 0 .. MaxMishaps
    BY <1>16, Bounds DEF GenerateFails, TypeOK, Mishap
  <2> QED  BY <1>16, <2>1, <2>2 DEF GenerateFails, TypeOK, told, counters
<1>17. CASE Overflow
  <2>1. PICK drop \in Cuts(loop.messages) :
          loop' = [loop EXCEPT !.pc = "compact", !.back = "replied", !.drop = drop]
    BY <1>17 DEF Overflow
  <2>2. drop \in Nat
    BY TypeFacts, Cutters
  <2>3. loop' \in Loops
    BY <2>1, <2>2, Names, TypeFacts DEF Loops
  <2> QED  BY <1>17, <2>3 DEF Overflow, TypeOK, told, counters
<1>18. CASE Replied
  <2>1. loop' \in Loops
    BY <1>18, Names, Moves DEF Replied, Goto, Fail
  <2> QED
    BY <1>18, <2>1 DEF Replied, TypeOK, told, counters
<1>19. CASE Execute
  <2>1. loop' \in Loops
    BY <1>19, Names, Moves DEF Execute, Goto, Fail
  <2> QED
    BY <1>19, <2>1 DEF Execute, TypeOK, told, counters
<1>20. CASE ToolResult
  <2> DEFINE l == [loop EXCEPT !.pc = "tools", !.todo = Tail(@),
                               !.messages = Append(@, Result(Head(loop.todo)))]
  <2>1. l \in Loops
    <3>1. loop.todo # <<>>
      BY <1>20 DEF ToolResult, Shape
    <3> QED  BY <3>1, Names, TypeFacts, NextResult DEF Loops
  <2>2. Persist(l)
    BY <1>20 DEF ToolResult
  <2> HIDE DEF l
  <2>3. /\ loop' \in Loops /\ checkpoint' \in Checkpoints \union {None}
        /\ settled' \subseteq CallIds /\ mishaps' \in 0 .. MaxMishaps
    BY <2>1, <2>2, PersistTypes
  <2> QED  BY <1>20, <2>3 DEF ToolResult, TypeOK, told, counters
<1>21. CASE ToolHookFails
  <2>1. loop' \in Loops
    BY <1>21, Names, TypeFacts DEF ToolHookFails, Loops, Fail
  <2>2. mishaps' \in 0 .. MaxMishaps
    BY <1>21, Bounds DEF ToolHookFails, TypeOK, Mishap
  <2> QED  BY <1>21, <2>1, <2>2 DEF ToolHookFails, TypeOK, told, counters
<1>22. CASE ToolsDone
  <2>1. \/ loop' = [loop EXCEPT !.pc = "finish", !.err = "canceled"]
        \/ loop' = [loop EXCEPT !.pc = "step"]
    BY <1>22 DEF ToolsDone, Goto, Fail, Interrupted
  <2>2. /\ [loop EXCEPT !.pc = "finish", !.err = "canceled"] \in Loops
        /\ [loop EXCEPT !.pc = "step"] \in Loops
    BY Names, TypeFacts DEF Loops
  <2>3. loop' \in Loops
    BY <2>1, <2>2
  <2> QED
    BY <1>22, <2>3 DEF ToolsDone, TypeOK, told, counters
<1>23. CASE Commit
  <2>1. LastReply(loop.messages) \in 0 .. MaxReplies /\ Len(loop.messages) \in Nat
    BY TypeFacts, LastReplies
  <2>2. loop' \in Loops
    BY <1>23, <2>1, Names, TypeFacts DEF Commit, Loops
  <2> QED  BY <1>23, <2>2 DEF Commit, TypeOK, told, counters
<1>24. CASE Mark
  <2> DEFINE l == [loop EXCEPT !.pc = "discard", !.committed = TRUE]
  <2>1. l \in Loops
    BY <1>24, Names, TypeFacts, Bounds DEF Mark, Loops
  <2>2. Persist(l)
    BY <1>24 DEF Mark
  <2> HIDE DEF l
  <2>3. /\ loop' \in Loops /\ checkpoint' \in Checkpoints \union {None}
        /\ settled' \subseteq CallIds /\ mishaps' \in 0 .. MaxMishaps
    BY <2>1, <2>2, PersistTypes
  <2> QED  BY <1>24, <2>3 DEF Mark, TypeOK, told, counters
<1>25. CASE Discard
  <2> DEFINE l == [loop EXCEPT !.pc = "finish"]
             failed == "finish"
  <2>1. l \in Loops /\ failed \in Steps
    BY Names, TypeFacts, LastReplies DEF Loops
  <2>2. DiscardReact(l, failed)
    BY <1>25 DEF Discard
  <2> HIDE DEF l, failed
  <2>3. /\ loop' \in Loops /\ checkpoint' \in Checkpoints \union {None}
        /\ settled' \subseteq CallIds /\ mishaps' \in 0 .. MaxMishaps
    BY <2>1, <2>2, DiscardTypes
  <2> QED  BY <1>25, <2>3 DEF Discard, TypeOK, told, counters
<1>26. CASE Finish
  <2> DEFINE err == IF loop.preempted /\ loop.err = "canceled" THEN "none"
                    ELSE IF ~loop.preempted /\ stopping /\ loop.err = "none" THEN "canceled"
                    ELSE loop.err
  <2>1. err \in Errors /\ After(err) \in Steps
    BY Names, TypeFacts DEF After
  <2>2. TurnOver(loop) \in Loops
    BY TypeFacts, NoIds DEF TurnOver, Loops
  <2>3. loop' = [TurnOver(loop) EXCEPT !.pc = After(err), !.err = err]
    BY <1>26 DEF Finish
  <2> HIDE DEF err
  <2>4. loop' \in Loops
    <3> DEFINE t == TurnOver(loop)
    <3> HIDE DEF t
    <3>1. t \in Loops /\ loop' = [t EXCEPT !.pc = After(err), !.err = err]
      BY <2>2, <2>3 DEF t
    <3> QED  BY <2>1, <3>1 DEF Loops
  <2> QED  BY <1>26, <2>4 DEF Finish, TypeOK, told, counters
<1>27. CASE ReadMemory
  <2>1. \/ loop' = [loop EXCEPT !.pc = "organize", !.snap = memory, !.snapRev = revision]
        \/ loop' = [loop EXCEPT !.pc = "finish", !.err = "canceled"]
        \/ loop' = [loop EXCEPT !.pc = "finish", !.err = "lifecycle"]
    BY <1>27 DEF ReadMemory, Goto, Fail, Interrupted
  <2>0. memory \subseteq Nodes /\ revision \in Nat
    BY DEF TypeOK
  <2>2. /\ [loop EXCEPT !.pc = "organize", !.snap = memory, !.snapRev = revision] \in Loops
        /\ [loop EXCEPT !.pc = "finish", !.err = "canceled"] \in Loops
        /\ [loop EXCEPT !.pc = "finish", !.err = "lifecycle"] \in Loops
    BY Names, TypeFacts, <2>0 DEF Loops
  <2>3. loop' \in Loops
    BY <2>1, <2>2
  <2> QED
    BY <1>27, <2>3 DEF ReadMemory, TypeOK, told, counters
<1>28. CASE Organize
  <2>1. loop' \in Loops
    BY <1>28, Names, TypeFacts DEF Organize, Loops, Goto
  <2>2. Conversation(SubSeq(loop.messages, 1, loop.drop)) \subseteq Nodes
    <3>1. loop.drop \in Nat /\ loop.drop <= Len(loop.messages)
      BY <1>28, TypeFacts DEF Organize, Shape, Compacting
    <3>2. SubSeq(loop.messages, 1, loop.drop) \in Seq(Messages)
      BY <3>1, TypeFacts, FirstOnes
    <3> QED  BY <3>2, Conversations DEF Conversation, Nodes
  <2>3. memory' \subseteq Nodes
    BY <1>28, <2>2, TypeFacts DEF Organize, Compacted, SaveMemory, Unmanaged, TypeOK
  <2>4. revision' \in Nat
    <3>1. loop.snapRev + 0 \in Nat /\ loop.snapRev + 1 \in Nat /\ revision \in Nat
      BY TypeFacts DEF TypeOK
    <3> QED  BY <1>28, <3>1 DEF Organize, Compacted, SaveMemory
  <2> QED  BY <1>28, <2>1, <2>3, <2>4 DEF Organize, TypeOK, told, counters
<1>29. CASE OrganizeFails
  <2>1. \/ loop' = [loop EXCEPT !.pc = "finish", !.err = "canceled"]
        \/ loop' = [loop EXCEPT !.pc = "finish", !.err = "lifecycle"]
        \/ loop' = [loop EXCEPT !.pc = "finish", !.err = "recoverable"]
        \/ loop' = [loop EXCEPT !.pc = "finish", !.err = "fatal"]
    BY <1>29 DEF OrganizeFails, Goto, Fail, Interrupted
  <2>2. /\ [loop EXCEPT !.pc = "finish", !.err = "canceled"] \in Loops
        /\ [loop EXCEPT !.pc = "finish", !.err = "lifecycle"] \in Loops
        /\ [loop EXCEPT !.pc = "finish", !.err = "recoverable"] \in Loops
        /\ [loop EXCEPT !.pc = "finish", !.err = "fatal"] \in Loops
    BY Names, TypeFacts DEF Loops
  <2>3. loop' \in Loops
    BY <2>1, <2>2
  <2>4. mishaps' \in 0 .. MaxMishaps
    BY <1>29, Bounds DEF OrganizeFails, TypeOK, Mishap
  <2> QED  BY <1>29, <2>3, <2>4 DEF OrganizeFails, TypeOK, told, counters
<1>30. CASE KeepTail
  <2> DEFINE l == [loop EXCEPT !.pc = loop.back, !.messages = From(@, loop.drop + 1),
                               !.drop = 0, !.snap = {}, !.snapRev = 0]
  <2>1. l \in Loops
    <3>1. loop.drop <= Len(loop.messages) /\ loop.drop \in Nat
      BY <1>30, TypeFacts DEF KeepTail, Shape, Compacting
    <3>2. From(loop.messages, loop.drop + 1) \in Seq(Messages)
      BY <3>1, TypeFacts, Rest
    <3> QED  BY <3>2, TypeFacts DEF Loops
  <2>2. Persist(l)
    BY <1>30 DEF KeepTail
  <2> HIDE DEF l
  <2>3. /\ loop' \in Loops /\ checkpoint' \in Checkpoints \union {None}
        /\ settled' \subseteq CallIds /\ mishaps' \in 0 .. MaxMishaps
    BY <2>1, <2>2, PersistTypes
  <2> QED  BY <1>30, <2>3 DEF KeepTail, TypeOK, told, counters
<1>31. CASE Enqueue
  <2>1. asked + 1 \in 0 .. MaxQueries /\ asked + 1 \in Queries
    BY <1>31, Bounds DEF Enqueue, TypeOK, Queries
  <2>2. queue' \in Seq(Queries)
    BY <1>31, <2>1 DEF Enqueue, TypeOK
  <2> QED  BY <1>31, <2>1, <2>2 DEF Enqueue, TypeOK, told, counters
<1>32. CASE Signal
  <2>1. 0 \in 0 .. MaxQueries
    BY Bounds
  <2> QED  BY <1>32, <2>1 DEF Signal, TypeOK, told, counters
<1>33. CASE Preempt
  <2>1. loop' \in Loops
    BY <1>33, Names, TypeFacts DEF Preempt, Loops, Fail
  <2>2. mishaps' \in 0 .. MaxMishaps
    BY <1>33, Bounds, SMTT(30) DEF Preempt, TypeOK, Mishap
  <2> QED  BY <1>33, <2>1, <2>2 DEF Preempt, TypeOK, told, counters
<1>34. CASE PreemptCancels
  <2>1. loop' \in Loops
    BY <1>34, Names, TypeFacts, Bounds, ZenonT(60) DEF PreemptCancels, TypeOK, Loops, Goto, Fail
  <2> QED
    BY <1>34, <2>1 DEF PreemptCancels, TypeOK, told, counters, Mishap
<1>35. CASE Stop
  <2>1. loop' \in Loops
    BY <1>35, Names, TypeFacts DEF Stop, Loops, Fail
  <2>2. mishaps' \in 0 .. MaxMishaps
    BY <1>35, Bounds, SMTT(30) DEF Stop, TypeOK, Mishap
  <2> QED  BY <1>35, <2>1, <2>2 DEF Stop, TypeOK, told, counters
<1>36. CASE AppendNode
  <2>1. /\ appends + 1 \in 1 .. MaxAppends /\ appends + 1 \in 0 .. MaxAppends
        /\ mishaps' \in 0 .. MaxMishaps
    BY <1>36, Bounds DEF AppendNode, TypeOK, Mishap
  <2>2. Managed(appends + 1) \in Nodes
    BY <2>1 DEF Nodes
  <2> QED  BY <1>36, <2>1, <2>2 DEF AppendNode, TypeOK, told
<1>37. CASE Crash
  <2>1. /\ 0 \in 0 .. MaxQueries /\ 0 \in 0 .. MaxSteps /\ 0 \in 0 .. MaxReplies
        /\ <<>> \in Seq(Messages) /\ <<>> \in Seq(Queries) /\ <<>> \in Ids
    BY Bounds, NoIds
  <2>2. loop' \in Loops
    BY <1>37, <2>1, Names DEF Crash, Fresh, Loops
  <2>3. mishaps' \in 0 .. MaxMishaps
    BY <1>37, Bounds DEF Crash, TypeOK, Mishap
  <2> QED  BY <1>37, <2>1, <2>2, <2>3 DEF Crash, TypeOK, told, counters
<1>38. CASE UNCHANGED vars
  BY <1>38 DEF vars, told, counters, TypeOK
<1> QED
  BY <1>1, <1>2, <1>3, <1>4, <1>5, <1>6, <1>7, <1>8, <1>9, <1>10, <1>11, <1>12,
     <1>13, <1>14, <1>15, <1>16, <1>17, <1>18, <1>19, <1>20, <1>21, <1>22, <1>23,
     <1>24, <1>25, <1>26, <1>27, <1>28, <1>29, <1>30, <1>31, <1>32, <1>33, <1>34,
     <1>35, <1>36, <1>37, <1>38 DEF Next, Goes, Turn

\* What startTurn leaves as it was, and what it sets.
LEMMA TurnBegins ==
    ASSUME TypeOK, NEW l \in Loops, NEW q \in 0 .. MaxQueries, NEW resume \in BOOLEAN,
           loop' = Begun(l, q, resume)
    PROVE  /\ loop'.pc = "begin" /\ loop'.messages = l.messages /\ loop'.used = l.used
           /\ loop'.todo = l.todo /\ loop'.committed = l.committed /\ loop'.resume = resume
           /\ loop'.active = TRUE /\ loop'.canceled = stopping /\ loop'.preempted = FALSE
           /\ loop'.err = "none" /\ loop'.steps = 0
BY DEF Begun, Loops

LEMMA RunTurnBegins ==
    ASSUME TypeOK, NEW q \in 0 .. MaxQueries, RunTurn(q)
    PROVE  /\ loop'.pc = "begin" /\ loop'.messages = loop.messages /\ loop'.used = loop.used
           /\ loop'.todo = loop.todo /\ loop'.committed = FALSE /\ loop'.resume = FALSE
           /\ loop'.active = TRUE /\ loop'.canceled = stopping /\ loop'.preempted = FALSE
           /\ loop'.err = "none" /\ loop'.steps = 0
           /\ turns' = turns + 1
<1> DEFINE l == [loop EXCEPT !.committed = FALSE]
<1>1. l \in Loops /\ l.committed = FALSE /\ l.messages = loop.messages /\ l.used = loop.used
      /\ l.todo = loop.todo
  BY TypeFacts DEF Loops
<1>2. loop' = Begun(l, q, FALSE) /\ turns' = turns + 1
  BY DEF RunTurn
<1> HIDE DEF l
<1> QED  BY <1>1, <1>2, TurnBegins

LEMMA Turns == ASSUME TypeOK PROVE turns \in Nat /\ preempter \in Nat /\ turns <= turns + 1 /\ 0 <= turns
              /\ (preempter <= turns => preempter # turns + 1)
BY DEF TypeOK

(* What the ways to leave a step do to the loop *)

\* Nothing but where the loop is, why, and what the requests are made of.
OnlyMoves(l, m) ==
    /\ m.messages = l.messages /\ m.used = l.used /\ m.todo = l.todo
    /\ m.committed = l.committed /\ m.steps = l.steps /\ m.drop = l.drop /\ m.back = l.back
    /\ m.active = l.active /\ m.canceled = l.canceled /\ m.preempted = l.preempted

LEMMA FailIs ==
    ASSUME TypeOK, NEW why, Fail(why)
    PROVE  loop'.pc = "finish" /\ loop'.err = why /\ OnlyMoves(loop, loop')
BY TypeFacts DEF Fail, Loops, OnlyMoves

LEMMA GotoIs ==
    ASSUME TypeOK, NEW step, Goto(step)
    PROVE  loop'.pc = step /\ OnlyMoves(loop, loop')
BY TypeFacts DEF Goto, Loops, OnlyMoves

LEMMA PersistIs ==
    ASSUME NEW l \in Loops, Persist(l)
    PROVE  loop'.pc \in {l.pc, "finish"} /\ OnlyMoves(l, loop')
<1>1. CASE loop' = l
  BY <1>1 DEF OnlyMoves
<1>2. CASE loop' = [l EXCEPT !.pc = "finish", !.err = "fatal"]
  BY <1>2 DEF Loops, OnlyMoves
<1> QED  BY <1>1, <1>2 DEF Persist

\* What Step, Assemble, ToolsDone and ReadMemory come to.
LEMMA StepIs ==
    ASSUME TypeOK, Step
    PROVE  /\ loop.pc = "step" /\ OnlyMoves(loop, loop')
           /\ \/ loop'.pc = "finish" /\ loop'.err \in {"recoverable", "canceled"}
              \/ loop'.pc = "assemble" /\ ~(loop.steps >= MaxSteps)
<1>1. \/ Fail("recoverable") \/ Fail("canceled")
      \/ /\ loop' = [loop EXCEPT !.pc = "assemble", !.packed = FALSE]
         /\ ~(loop.steps >= MaxSteps)
  BY DEF Step
<1>2. loop' = [loop EXCEPT !.pc = "assemble", !.packed = FALSE]
        => loop'.pc = "assemble" /\ OnlyMoves(loop, loop')
  BY TypeFacts DEF Loops, OnlyMoves
<1>3. loop.pc = "step"
  BY DEF Step
<1> QED  BY <1>1, <1>2, <1>3, FailIs

LEMMA AssembleIs ==
    ASSUME TypeOK, Assemble
    PROVE  /\ loop.pc = "assemble" /\ OnlyMoves(loop, loop')
           /\ \/ loop'.pc = "finish" /\ loop'.err = "lifecycle"
              \/ loop'.pc \in {"request", "peek"}
<1>1. \/ Goto("request") \/ Fail("lifecycle")
      \/ loop' = [loop EXCEPT !.pc = "peek", !.cached = Projection]
  BY DEF Assemble
<1>2. loop' = [loop EXCEPT !.pc = "peek", !.cached = Projection]
        => loop'.pc = "peek" /\ OnlyMoves(loop, loop')
  BY TypeFacts DEF Loops, OnlyMoves
<1>3. loop.pc = "assemble"
  BY DEF Assemble
<1> QED  BY <1>1, <1>2, <1>3, FailIs, GotoIs

LEMMA ToolsDoneIs ==
    ASSUME TypeOK, ToolsDone
    PROVE  /\ loop.pc = "tools" /\ loop.todo = <<>> /\ OnlyMoves(loop, loop')
           /\ \/ loop'.pc = "finish" /\ loop'.err = "canceled"
              \/ loop'.pc = "step"
<1>1. Fail("canceled") \/ Goto("step")
  BY DEF ToolsDone
<1>2. loop.pc = "tools" /\ loop.todo = <<>>
  BY DEF ToolsDone
<1> QED  BY <1>1, <1>2, FailIs, GotoIs

LEMMA ReadMemoryIs ==
    ASSUME TypeOK, ReadMemory
    PROVE  /\ loop.pc = "compact" /\ OnlyMoves(loop, loop')
           /\ \/ loop'.pc = "finish" /\ loop'.err = IF loop.back = "replied" THEN "lifecycle"
                                                                         ELSE "canceled"
              \/ loop'.pc = "organize"
<1>1. \/ loop.back = "replied" /\ Fail("lifecycle")
      \/ loop.back # "replied" /\ Fail("canceled")
      \/ loop' = [loop EXCEPT !.pc = "organize", !.snap = memory, !.snapRev = revision]
  BY DEF ReadMemory, Interrupted
<1>2. loop' = [loop EXCEPT !.pc = "organize", !.snap = memory, !.snapRev = revision]
        => loop'.pc = "organize" /\ OnlyMoves(loop, loop')
  BY TypeFacts DEF Loops, OnlyMoves
<1>3. loop.pc = "compact"
  BY DEF ReadMemory
<1> QED  BY <1>1, <1>2, <1>3, FailIs

LEMMA OrganizeFailsIs ==
    ASSUME TypeOK, OrganizeFails
    PROVE  loop.pc = "organize" /\ loop'.pc = "finish" /\ OnlyMoves(loop, loop')
<1>1. \E why \in {"lifecycle", "canceled", "recoverable", "fatal"} : Fail(why)
  BY DEF OrganizeFails, Interrupted
<1> QED  BY <1>1, FailIs DEF OrganizeFails

\* A step that leads nowhere where calls or a cut are needed.
LEMMA ShapeKept ==
    ASSUME Shape, UNCHANGED <<turns, preempter>>,
           loop'.pc \notin Compacting \union {"result"},
           loop'.todo # <<>> => loop'.pc \in Answering \union {"finish"},
           loop'.pc \in {"assemble", "peek", "request"} => loop'.steps < MaxSteps
    PROVE  Shape'
BY DEF Shape, Answering, Compacting

LEMMA ShapeStep ==
    ASSUME TypeOK, Shape, [Next]_vars
    PROVE  Shape'
<1>1. CASE Run
  BY <1>1, TypeFacts DEF Run, Loops, Shape, Answering, Compacting, told, counters, Goto
<1>2. ASSUME NEW q \in Queries, Ask(q) PROVE Shape'
  BY <1>2, TypeFacts DEF Ask, Loops, Shape, Answering, Compacting, told, counters
<1>3. CASE Restore
  <2>1. \/ loop' = [loop EXCEPT !.pc = "next"] /\ UNCHANGED turns
        \/ RunTurn(loop.query)
    BY <1>3 DEF Restore, Goto
  <2>2. loop'.pc \in {"next", "begin"} /\ loop'.todo = loop.todo
    <3>1. CASE loop' = [loop EXCEPT !.pc = "next"]
      BY <3>1, TypeFacts DEF Loops
    <3> QED  BY <2>1, <3>1, TypeFacts, RunTurnBegins
  <2>3. turns' \in {turns, turns + 1} /\ preempter' = preempter /\ loop.todo = <<>>
    BY <1>3, <2>1, TypeFacts, RunTurnBegins DEF Restore, Shape, Answering, Compacting
  <2>4. preempter' <= turns'
    BY <2>3, Turns DEF Shape
  <2> QED  BY <2>2, <2>3, <2>4 DEF Shape, Answering, Compacting
<1>4. CASE ContinueTurn
  <2> DEFINE l == [loop EXCEPT !.messages = checkpoint.messages, !.used = checkpoint.used,
                               !.committed = checkpoint.committed, !.query = checkpoint.query]
  <2>1. l \in Loops /\ l.todo = loop.todo /\ loop.todo = <<>>
    BY <1>4, TypeFacts, SavedFacts DEF ContinueTurn, Loops, Shape, Answering, Compacting
  <2>2. preempter' = preempter /\ (turns' = turns \/ turns' = turns + 1)
    BY <1>4 DEF ContinueTurn
  <2>3. loop' = [l EXCEPT !.pc = "known"] \/ loop' = Begun(l, l.query, TRUE)
    BY <1>4 DEF ContinueTurn
  <2> HIDE DEF l
  <2>4. loop'.pc \in {"known", "begin"} /\ loop'.todo = <<>>
    BY <2>1, <2>3 DEF Begun, Loops
  <2>5. preempter' <= turns'
    BY <2>2, Turns DEF Shape
  <2> QED  BY <2>4, <2>5 DEF Shape, Answering, Compacting
<1>5. CASE FinishCommitted
  <2>1. loop'.pc \in {"next", "stopped", "returned"} /\ loop'.todo = loop.todo
    BY <1>5, TypeFacts DEF FinishCommitted, DiscardReact, Loops
  <2>2. loop.todo = <<>> /\ UNCHANGED <<turns, preempter>>
    BY <1>5 DEF FinishCommitted, Shape, Answering, Compacting
  <2> QED  BY <2>1, <2>2, ShapeKept DEF Compacting
<1>6. CASE Next1
  <2>1. \/ loop' = [loop EXCEPT !.pc = "wait"] /\ UNCHANGED turns
        \/ queue # <<>> /\ RunTurn(Head(queue))
    BY <1>6 DEF Next1, Goto
  <2>2. queue # <<>> => Head(queue) \in 0 .. MaxQueries
    BY QueryNumbers DEF TypeOK
  <2>3. loop'.pc \in {"wait", "begin"} /\ loop'.todo = loop.todo
    <3>1. CASE loop' = [loop EXCEPT !.pc = "wait"]
      BY <3>1, TypeFacts DEF Loops
    <3> QED  BY <2>1, <2>2, <3>1, RunTurnBegins
  <2>4. turns' \in {turns, turns + 1} /\ preempter' = preempter /\ loop.todo = <<>>
    BY <1>6, <2>1, <2>2, RunTurnBegins DEF Next1, Shape, Answering, Compacting
  <2>5. preempter' <= turns'
    BY <2>4, Turns DEF Shape
  <2> QED  BY <2>3, <2>4, <2>5 DEF Shape, Answering, Compacting
<1>7. CASE Woken
  BY <1>7, TypeFacts DEF Woken, Loops, Shape, Answering, Compacting, told, counters,
     Goto
<1>8. CASE NextCanceled
  BY <1>8, TypeFacts DEF NextCanceled, Loops, Shape, Answering, Compacting, told,
     counters
<1>9. CASE Begin
  <2>1. CASE ~loop.resume
    <3> DEFINE l == [loop EXCEPT !.pc = "step", !.messages = Append(@, User(loop.query))]
    <3>1. Persist(l) /\ loop.pc = "begin" /\ UNCHANGED <<turns, preempter>>
      BY <1>9, <2>1 DEF Begin
    <3>2. l \in Loops /\ l.pc = "step" /\ l.todo = loop.todo
      BY Names, TypeFacts, Said, Spoken DEF Loops
    <3>3. loop.todo = <<>>
      BY <3>1 DEF Shape, Answering, Compacting
    <3> HIDE DEF l
    <3>4. loop'.pc \in {"step", "finish"} /\ loop'.todo = <<>>
      BY <3>1, <3>2, <3>3, PersistIs DEF OnlyMoves
    <3> QED  BY <3>1, <3>4, ShapeKept DEF Compacting
  <2>2. CASE loop.resume
    <3> DEFINE open == Unpaired(loop.messages)
    <3>1. \/ loop' = [loop EXCEPT !.pc = "tools", !.todo = open]
          \/ open = <<>> /\ loop' = [loop EXCEPT !.pc = "commit", !.todo = open]
          \/ open = <<>> /\ loop' = [loop EXCEPT !.pc = "step", !.todo = open]
      BY <1>9, <2>2 DEF Begin
    <3>2. UNCHANGED <<turns, preempter>>
      BY <1>9 DEF Begin
    <3> HIDE DEF open
    <3>3. /\ loop'.pc \in {"tools", "commit", "step"}
          /\ loop'.todo # <<>> => loop'.pc = "tools"
      BY <3>1, TypeFacts DEF Loops
    <3> QED  BY <3>2, <3>3, ShapeKept DEF Answering, Compacting
  <2> QED  BY <2>1, <2>2
<1>10. CASE Step
  <2>1. ~(loop.steps >= MaxSteps) => loop.steps < MaxSteps
    BY TypeFacts, Bounds
  <2>2. loop.todo = <<>> /\ UNCHANGED <<turns, preempter>>
    BY <1>10 DEF Step, Shape, Answering, Compacting, told
  <2> QED  BY <1>10, <2>1, <2>2, StepIs, ShapeKept DEF OnlyMoves, Compacting
<1>11. CASE Assemble
  <2>1. loop.todo = <<>> /\ loop.steps < MaxSteps /\ UNCHANGED <<turns, preempter>>
    BY <1>11 DEF Assemble, Shape, Answering, Compacting, told
  <2> QED  BY <1>11, <2>1, AssembleIs, ShapeKept DEF OnlyMoves, Compacting
<1>12. CASE Peek
  BY <1>12, TypeFacts DEF Peek, Loops, Shape, Answering, Compacting, told, counters
<1>13. CASE CompactBeforeRequest
  <2>1. PICK drop \in Cuts(loop.messages) :
          loop' = [loop EXCEPT !.pc = "compact", !.back = "assemble", !.packed = TRUE, !.drop = drop]
    BY <1>13 DEF CompactBeforeRequest
  <2>2. /\ drop \in Nat /\ drop <= Len(loop.messages)
        /\ drop = 0 \/ (drop < Len(loop.messages)
                          /\ loop.messages[drop + 1].kind \in {"user", "assistant"})
    BY TypeFacts, Cutters
  <2>3. loop'.messages = loop.messages /\ loop'.drop = drop
    BY <2>1, TypeFacts DEF Loops
  <2>4. /\ loop'.drop <= Len(loop'.messages)
        /\ loop'.drop = 0 \/ (loop'.drop < Len(loop'.messages)
                          /\ loop'.messages[loop'.drop + 1].kind \in {"user", "assistant"})
    BY <2>2, <2>3
  <2>5. /\ loop'.pc = "compact" /\ loop'.todo = loop.todo /\ loop'.steps = loop.steps
        /\ loop'.back = "assemble"
    BY <2>1, TypeFacts DEF Loops
  <2>6. loop.steps < MaxSteps \/ "assemble" # "assemble"
    BY <1>13 DEF Shape, CompactBeforeRequest
  <2>7. preempter' <= turns' /\ (loop.todo # <<>> => "assemble" = "replied")
    BY <1>13 DEF Shape, CompactBeforeRequest, told, Answering, Compacting
  <2> QED  BY <2>4, <2>5, <2>6, <2>7 DEF Shape, Answering, Compacting
<1>14. CASE ResetSession
  <2> DEFINE ms == <<Handoff>> \o From(loop.messages, TurnStart(loop.messages))
             l  == [loop EXCEPT !.pc = "assemble", !.packed = TRUE, !.messages = ms]
  <2>1. Persist(l)
    BY <1>14 DEF ResetSession
  <2> HIDE DEF ms
  <2>2. loop'.pc \in {"assemble", "finish"} /\ loop'.todo = loop.todo /\ loop'.steps = loop.steps
    BY <2>1, TypeFacts DEF Persist, Loops
  <2>3. loop.todo = <<>> /\ loop.steps < MaxSteps /\ UNCHANGED <<turns, preempter>>
    BY <1>14 DEF ResetSession, Shape, Answering, Compacting
  <2> QED  BY <2>2, <2>3, ShapeKept DEF Compacting
<1>15. ASSUME NEW ids \in ModelCalls, Generate(ids) PROVE Shape'
  <2> DEFINE l == [loop EXCEPT !.steps = @ + 1]
             said == [l EXCEPT !.pc = "after", !.used = @ \union Range(ids), !.todo = ids,
                               !.messages = Append(@, Reply(replies + 1, ids))]
  <2>1. loop' = [l EXCEPT !.pc = "finish", !.err = "fatal"] \/ Persist(said)
    BY <1>15 DEF Generate
  <2>2. loop.todo = <<>> /\ UNCHANGED <<turns, preempter>>
    BY <1>15 DEF Generate, Shape, Answering, Compacting
  <2>3. CASE loop' = [l EXCEPT !.pc = "finish", !.err = "fatal"]
    <3>1. loop'.pc = "finish"
      BY <2>3, TypeFacts DEF Loops
    <3> QED  BY <2>2, <3>1, ShapeKept DEF Compacting
  <2>4. CASE Persist(said)
    <3>1. said.pc = "after"
      BY TypeFacts DEF Loops
    <3>2. loop' = said \/ loop' = [said EXCEPT !.pc = "finish", !.err = "fatal"]
      BY <2>4 DEF Persist
    <3>3. loop'.pc \in {"after", "finish"}
      BY <3>2, TypeFacts DEF Loops
    <3> QED  BY <2>2, <3>3, ShapeKept DEF Answering, Compacting
  <2> QED  BY <2>1, <2>3, <2>4
<1>16. CASE GenerateFails
  <2>1. loop'.pc = "finish" /\ UNCHANGED <<turns, preempter>>
    BY <1>16, FailIs DEF GenerateFails, told
  <2> QED  BY <2>1, ShapeKept DEF Compacting
<1>17. CASE Overflow
  <2>1. PICK drop \in Cuts(loop.messages) :
          loop' = [loop EXCEPT !.pc = "compact", !.back = "replied", !.drop = drop]
    BY <1>17 DEF Overflow
  <2>2. /\ drop \in Nat /\ drop <= Len(loop.messages)
        /\ drop = 0 \/ (drop < Len(loop.messages)
                          /\ loop.messages[drop + 1].kind \in {"user", "assistant"})
    BY TypeFacts, Cutters
  <2>3. loop'.messages = loop.messages /\ loop'.drop = drop
    BY <2>1, TypeFacts DEF Loops
  <2>4. /\ loop'.drop <= Len(loop'.messages)
        /\ loop'.drop = 0 \/ (loop'.drop < Len(loop'.messages)
                          /\ loop'.messages[loop'.drop + 1].kind \in {"user", "assistant"})
    BY <2>2, <2>3
  <2>5. /\ loop'.pc = "compact" /\ loop'.todo = loop.todo /\ loop'.steps = loop.steps
        /\ loop'.back = "replied"
    BY <2>1, TypeFacts DEF Loops
  <2>6. loop.steps < MaxSteps \/ "replied" # "assemble"
    BY <1>17 DEF Shape, Overflow
  <2>7. preempter' <= turns' /\ (loop.todo # <<>> => "replied" = "replied")
    BY <1>17 DEF Shape, Overflow, told, Answering, Compacting
  <2> QED  BY <2>4, <2>5, <2>6, <2>7 DEF Shape, Answering, Compacting
<1>18. CASE Replied
  BY <1>18, TypeFacts DEF Replied, Loops, Shape, Answering, Compacting, told, counters,
     Goto
<1>19. CASE Execute
  BY <1>19, TypeFacts DEF Execute, Loops, Shape, Answering, Compacting, told, counters,
     Goto
<1>20. CASE ToolResult
  <2>1. loop'.pc \in {"tools", "finish"}
    BY <1>20, TypeFacts DEF ToolResult, Persist, Loops
  <2>2. UNCHANGED <<turns, preempter>>
    BY <1>20 DEF ToolResult
  <2> QED  BY <2>1, <2>2, ShapeKept DEF Answering, Compacting
<1>21. CASE ToolHookFails
  BY <1>21, TypeFacts DEF ToolHookFails, Loops, Shape, Answering, Compacting, told,
     counters, Fail
<1>22. CASE ToolsDone
  <2>1. UNCHANGED <<turns, preempter>>
    BY <1>22 DEF ToolsDone, told
  <2> QED  BY <1>22, <2>1, ToolsDoneIs, ShapeKept DEF OnlyMoves, Compacting
<1>23. CASE Commit
  BY <1>23, TypeFacts DEF Commit, Loops, Shape, Answering, Compacting, told, counters
<1>24. CASE Mark
  <2>1. loop'.pc \in {"discard", "finish"} /\ loop'.todo = loop.todo
    BY <1>24, TypeFacts DEF Mark, Persist, Loops
  <2>2. loop.todo = <<>> /\ UNCHANGED <<turns, preempter>>
    BY <1>24 DEF Mark, Shape, Answering, Compacting
  <2> QED  BY <2>1, <2>2, ShapeKept DEF Compacting
<1>25. CASE Discard
  <2>1. loop'.pc = "finish" /\ UNCHANGED <<turns, preempter>>
    BY <1>25, TypeFacts DEF Discard, DiscardReact, Loops
  <2> QED  BY <2>1, ShapeKept DEF Compacting
<1>26. CASE Finish
  BY <1>26, TypeFacts DEF Finish, Loops, Shape, Answering, Compacting, told, counters,
     TurnOver, After
<1>27. CASE ReadMemory
  <2>1. UNCHANGED <<turns, preempter>>
    BY <1>27 DEF ReadMemory, told
  <2>2. CASE loop'.pc = "finish"
    BY <2>1, <2>2, ShapeKept DEF Compacting
  <2>3. CASE loop'.pc = "organize"
    BY <1>27, <2>1, <2>3, ReadMemoryIs DEF OnlyMoves, Shape, Answering, Compacting
  <2> QED  BY <1>27, <2>2, <2>3, ReadMemoryIs
<1>28. CASE Organize
  BY <1>28, TypeFacts DEF Organize, Loops, Shape, Answering, Compacting, told, counters,
     Goto
<1>29. CASE OrganizeFails
  <2>1. UNCHANGED <<turns, preempter>>
    BY <1>29 DEF OrganizeFails, told
  <2> QED  BY <1>29, <2>1, OrganizeFailsIs, ShapeKept DEF Compacting
<1>30. CASE KeepTail
  <2>1. /\ loop'.pc \in {loop.back, "finish"} /\ loop'.todo = loop.todo
        /\ loop'.steps = loop.steps
    BY <1>30, TypeFacts, ZenonT(60) DEF KeepTail, Persist, Loops
  <2>2. /\ loop.back \in {"replied", "assemble", "mark"} /\ UNCHANGED <<turns, preempter>>
        /\ loop.back = "assemble" => loop.steps < MaxSteps
        /\ loop.todo # <<>> => loop.back = "replied"
    BY <1>30 DEF KeepTail, Shape, Answering, Compacting
  <2> QED  BY <2>1, <2>2, ShapeKept DEF Answering, Compacting
<1>31. CASE Enqueue
  BY <1>31, TypeFacts DEF Enqueue, Loops, Shape, Answering, Compacting, told, counters
<1>32. CASE Signal
  BY <1>32, TypeFacts DEF Signal, Loops, Shape, Answering, Compacting, told, counters
<1>33. CASE Preempt
  BY <1>33, TypeFacts, Turns DEF Preempt, Loops, Shape, Answering, Compacting, told,
     counters
<1>34. CASE PreemptCancels
  BY <1>34, TypeFacts, Turns DEF PreemptCancels, Loops, Shape, Answering, Compacting,
     told, counters
<1>35. CASE Stop
  BY <1>35, TypeFacts DEF Stop, Loops, Shape, Answering, Compacting, told, counters
<1>36. CASE AppendNode
  BY <1>36, TypeFacts DEF AppendNode, Loops, Shape, Answering, Compacting, told, counters
<1>37. CASE Crash
  BY <1>37, TypeFacts, Turns DEF Crash, Loops, Shape, Answering, Compacting, told,
     counters, Fresh
<1>38. CASE UNCHANGED vars
  BY <1>38 DEF vars, told, counters, Shape
<1> QED
  BY <1>1, <1>2, <1>3, <1>4, <1>5, <1>6, <1>7, <1>8, <1>9, <1>10, <1>11, <1>12,
     <1>13, <1>14, <1>15, <1>16, <1>17, <1>18, <1>19, <1>20, <1>21, <1>22, <1>23,
     <1>24, <1>25, <1>26, <1>27, <1>28, <1>29, <1>30, <1>31, <1>32, <1>33, <1>34,
     <1>35, <1>36, <1>37, <1>38 DEF Next, Goes, Turn

LEMMA TypeInit == ASSUME Init PROVE TypeOK /\ Shape
<1>1. /\ 0 \in 0 .. MaxQueries /\ 0 \in 0 .. MaxSteps /\ 0 \in 0 .. MaxReplies
      /\ 0 \in 0 .. MaxAppends /\ 0 \in 0 .. MaxMishaps
      /\ <<>> \in Seq(Messages) /\ <<>> \in Seq(Queries) /\ <<>> \in Ids
  BY Bounds, NoIds
<1>2. loop \in Loops
  BY <1>1, Names DEF Init, Fresh, Loops
<1>3. TypeOK
  BY <1>1, <1>2 DEF Init, TypeOK
<1>4. Shape
  BY DEF Init, Fresh, Shape, Answering, Compacting
<1> QED  BY <1>3, <1>4

LEMMA Typing == Spec => [](TypeOK /\ Shape)
<1>1. Init => TypeOK /\ Shape
  BY TypeInit
<1>2. TypeOK /\ Shape /\ [Next]_vars => (TypeOK /\ Shape)'
  BY TypeStep, ShapeStep
<1> QED  BY <1>1, <1>2, PTL DEF Spec

\* All variables keep their types: the sequences stay sequences of messages
\* whatever is cut, reset or restored, and no counter leaves its bound.
THEOREM TypeCorrect == Spec => []TypeOK
BY Typing, PTL

-----------------------------------------------------------------------------
(* The turn that is canceled *)

\* A turn is canceled for its own sake, a Preempt that still holds a cancel
\* function has marked the turn it belongs to, and between two turns nothing is
\* active that a late cancel could hit.
CancelInv ==
    /\ loop.active /\ loop.canceled => loop.preempted \/ stopping
    /\ preempter # 0 /\ loop.active /\ turns = preempter => loop.preempted
    /\ loop.pc \in {"idle", "restore", "next", "wait", "known", "returned", "stopped"}
         => ~loop.active

\* A step within a turn, or to its end, touches nothing that is about canceling.
LEMMA CancelKept ==
    ASSUME CancelInv, UNCHANGED <<stopping, preempter, turns>>, OnlyMoves(loop, loop'),
           loop'.pc \notin {"idle", "restore", "next", "wait", "known", "returned", "stopped"}
    PROVE  CancelInv'
BY DEF CancelInv, OnlyMoves

LEMMA CancelStep ==
    ASSUME TypeOK, Shape, CancelInv, [Next]_vars
    PROVE  CancelInv'
<1>1. CASE Run
  BY <1>1, TypeFacts DEF Run, Loops, CancelInv, told, counters, Goto
<1>2. ASSUME NEW q \in Queries, Ask(q) PROVE CancelInv'
  BY <1>2, TypeFacts DEF Ask, Loops, CancelInv, told, counters
<1>3. CASE Restore
  <2>1. \/ loop' = [loop EXCEPT !.pc = "next"] /\ UNCHANGED turns
        \/ RunTurn(loop.query)
    BY <1>3 DEF Restore, Goto
  <2>2. UNCHANGED <<preempter, stopping>>
    BY <1>3 DEF Restore
  <2>3. CASE loop' = [loop EXCEPT !.pc = "next"] /\ UNCHANGED turns
    BY <1>3, <2>2, <2>3, TypeFacts DEF Restore, Loops, CancelInv
  <2>4. CASE RunTurn(loop.query)
    BY <2>2, <2>4, TypeFacts, RunTurnBegins, Turns DEF CancelInv, Shape
  <2> QED  BY <2>1, <2>3, <2>4
<1>4. CASE ContinueTurn
  <2> DEFINE l == [loop EXCEPT !.messages = checkpoint.messages, !.used = checkpoint.used,
                               !.committed = checkpoint.committed, !.query = checkpoint.query]
  <2>1. /\ l \in Loops /\ l.query \in 0 .. MaxQueries
        /\ l.active = loop.active /\ l.canceled = loop.canceled /\ l.preempted = loop.preempted
    BY <1>4, TypeFacts, SavedFacts DEF ContinueTurn, Loops
  <2>2. UNCHANGED <<preempter, stopping>>
    BY <1>4 DEF ContinueTurn
  <2>3. \/ loop' = [l EXCEPT !.pc = "known"] /\ turns' = turns
        \/ loop' = Begun(l, l.query, TRUE) /\ turns' = turns + 1
    BY <1>4 DEF ContinueTurn
  <2>4. loop.pc = "restore"
    BY <1>4 DEF ContinueTurn
  <2> HIDE DEF l
  <2>5. CASE loop' = [l EXCEPT !.pc = "known"] /\ turns' = turns
    BY <2>1, <2>2, <2>4, <2>5 DEF CancelInv, Loops
  <2>6. CASE loop' = Begun(l, l.query, TRUE) /\ turns' = turns + 1
    BY <2>1, <2>2, <2>6, TurnBegins, Turns DEF CancelInv, Shape
  <2> QED  BY <2>3, <2>5, <2>6
<1>5. CASE FinishCommitted
  BY <1>5, TypeFacts DEF FinishCommitted, Loops, CancelInv, told, counters, DiscardReact
<1>6. CASE Next1
  <2>1. \/ loop' = [loop EXCEPT !.pc = "wait"] /\ UNCHANGED turns
        \/ queue # <<>> /\ RunTurn(Head(queue))
    BY <1>6 DEF Next1, Goto
  <2>2. UNCHANGED <<preempter, stopping>>
    BY <1>6 DEF Next1
  <2>3. CASE loop' = [loop EXCEPT !.pc = "wait"] /\ UNCHANGED turns
    BY <1>6, <2>2, <2>3, TypeFacts DEF Next1, Loops, CancelInv
  <2>4. CASE queue # <<>> /\ RunTurn(Head(queue))
    <3>1. Head(queue) \in 0 .. MaxQueries
      BY <2>4, QueryNumbers DEF TypeOK
    <3> QED  BY <2>2, <2>4, <3>1, RunTurnBegins, Turns DEF CancelInv, Shape
  <2> QED  BY <2>1, <2>3, <2>4
<1>7. CASE Woken
  BY <1>7, TypeFacts DEF Woken, Loops, CancelInv, told, counters, Goto
<1>8. CASE NextCanceled
  BY <1>8, TypeFacts DEF NextCanceled, Loops, CancelInv, told, counters
<1>9. CASE Begin
  <2>1. /\ loop'.active = loop.active /\ loop'.canceled = loop.canceled
        /\ loop'.preempted = loop.preempted /\ loop'.pc \in {"tools", "commit", "step", "finish"}
    BY <1>9, TypeFacts, ZenonT(60) DEF Begin, Persist, Loops
  <2> QED  BY <1>9, <2>1 DEF Begin, CancelInv, told
<1>10. CASE Step
  BY <1>10, StepIs, CancelKept DEF Step, told
<1>11. CASE Assemble
  BY <1>11, AssembleIs, CancelKept DEF Assemble, told
<1>12. CASE Peek
  BY <1>12, TypeFacts DEF Peek, Loops, CancelInv, told, counters
<1>13. CASE CompactBeforeRequest
  BY <1>13, TypeFacts DEF CompactBeforeRequest, Loops, CancelInv, told, counters
<1>14. CASE ResetSession
  <2> DEFINE ms == <<Handoff>> \o From(loop.messages, TurnStart(loop.messages))
             l  == [loop EXCEPT !.pc = "assemble", !.packed = TRUE, !.messages = ms]
  <2>1. Persist(l)
    BY <1>14 DEF ResetSession
  <2> HIDE DEF ms
  <2>2. /\ loop'.active = loop.active /\ loop'.canceled = loop.canceled
        /\ loop'.preempted = loop.preempted /\ loop'.pc \in {"assemble", "finish"}
    BY <2>1, TypeFacts DEF Persist, Loops
  <2> QED  BY <1>14, <2>2 DEF ResetSession, CancelInv
<1>15. ASSUME NEW ids \in ModelCalls, Generate(ids) PROVE CancelInv'
  <2> DEFINE l == [loop EXCEPT !.steps = @ + 1]
             said == [l EXCEPT !.pc = "after", !.used = @ \union Range(ids), !.todo = ids,
                               !.messages = Append(@, Reply(replies + 1, ids))]
  <2>1. \/ loop' = [l EXCEPT !.pc = "finish", !.err = "fatal"] \/ loop' = said
        \/ loop' = [said EXCEPT !.pc = "finish", !.err = "fatal"]
    BY <1>15 DEF Generate, Persist
  <2>2. /\ loop'.active = loop.active /\ loop'.canceled = loop.canceled
        /\ loop'.preempted = loop.preempted /\ loop'.pc \in {"after", "finish"}
    BY <2>1, TypeFacts, ZenonT(60) DEF Loops
  <2> QED  BY <1>15, <2>2 DEF Generate, CancelInv
<1>16. CASE GenerateFails
  BY <1>16, FailIs, CancelKept DEF GenerateFails, told
<1>17. CASE Overflow
  BY <1>17, TypeFacts DEF Overflow, Loops, CancelInv, told, counters
<1>18. CASE Replied
  BY <1>18, TypeFacts DEF Replied, Loops, CancelInv, told, counters, Goto
<1>19. CASE Execute
  BY <1>19, TypeFacts DEF Execute, Loops, CancelInv, told, counters, Goto
<1>20. CASE ToolResult
  <2>1. /\ loop'.active = loop.active /\ loop'.canceled = loop.canceled
        /\ loop'.preempted = loop.preempted /\ loop'.pc \in {"tools", "finish"}
    BY <1>20, TypeFacts DEF ToolResult, Persist, Loops
  <2> QED  BY <1>20, <2>1 DEF ToolResult, CancelInv
<1>21. CASE ToolHookFails
  BY <1>21, TypeFacts DEF ToolHookFails, Loops, CancelInv, told, counters, Fail
<1>22. CASE ToolsDone
  BY <1>22, ToolsDoneIs, CancelKept DEF ToolsDone, told
<1>23. CASE Commit
  BY <1>23, TypeFacts DEF Commit, Loops, CancelInv, told, counters
<1>24. CASE Mark
  <2>1. /\ loop'.active = loop.active /\ loop'.canceled = loop.canceled
        /\ loop'.preempted = loop.preempted /\ loop'.pc \in {"discard", "finish"}
    BY <1>24, TypeFacts DEF Mark, Persist, Loops
  <2> QED  BY <1>24, <2>1 DEF Mark, CancelInv
<1>25. CASE Discard
  BY <1>25, TypeFacts, ZenonT(60) DEF Discard, Loops, CancelInv, told, counters, DiscardReact
<1>26. CASE Finish
  BY <1>26, TypeFacts DEF Finish, Loops, CancelInv, told, counters, TurnOver, After
<1>27. CASE ReadMemory
  BY <1>27, ReadMemoryIs, CancelKept DEF ReadMemory, told
<1>28. CASE Organize
  BY <1>28, TypeFacts DEF Organize, Loops, CancelInv, told, counters, Goto
<1>29. CASE OrganizeFails
  BY <1>29, OrganizeFailsIs, CancelKept DEF OrganizeFails, told
<1>30. CASE KeepTail
  <2>1. loop.back \in {"replied", "assemble", "mark"}
    BY <1>30 DEF KeepTail, Shape, Compacting
  <2>2. /\ loop'.active = loop.active /\ loop'.canceled = loop.canceled
        /\ loop'.preempted = loop.preempted /\ loop'.pc \in {"replied", "assemble", "mark", "finish"}
    BY <1>30, <2>1, TypeFacts, ZenonT(60) DEF KeepTail, Persist, Loops
  <2> QED  BY <1>30, <2>2 DEF KeepTail, CancelInv, told
<1>31. CASE Enqueue
  BY <1>31, TypeFacts DEF Enqueue, Loops, CancelInv, told, counters
<1>32. CASE Signal
  BY <1>32, TypeFacts DEF Signal, Loops, CancelInv, told, counters
<1>33. CASE Preempt
  BY <1>33, TypeFacts DEF Preempt, Loops, CancelInv, told, counters
<1>34. CASE PreemptCancels
  BY <1>34, TypeFacts DEF PreemptCancels, Loops, CancelInv, told, counters
<1>35. CASE Stop
  BY <1>35, TypeFacts DEF Stop, Loops, CancelInv, told, counters
<1>36. CASE AppendNode
  BY <1>36, TypeFacts DEF AppendNode, Loops, CancelInv, told, counters
<1>37. CASE Crash
  BY <1>37, TypeFacts DEF Crash, Loops, CancelInv, told, counters, Fresh
<1>38. CASE UNCHANGED vars
  BY <1>38 DEF vars, told, counters, CancelInv
<1> QED
  BY <1>1, <1>2, <1>3, <1>4, <1>5, <1>6, <1>7, <1>8, <1>9, <1>10, <1>11, <1>12,
     <1>13, <1>14, <1>15, <1>16, <1>17, <1>18, <1>19, <1>20, <1>21, <1>22, <1>23,
     <1>24, <1>25, <1>26, <1>27, <1>28, <1>29, <1>30, <1>31, <1>32, <1>33, <1>34,
     <1>35, <1>36, <1>37, <1>38 DEF Next, Goes, Turn

\* A turn is canceled only by a Preempt that was meant for it, or by the end of
\* the context it runs in (Preempt and startTurn of loop.go).
THEOREM CancelsOwn == Spec => []CancelsItsTurn
<1>1. Init => CancelInv
  BY DEF Init, Fresh, CancelInv
<1>2. TypeOK /\ Shape /\ CancelInv /\ [Next]_vars => CancelInv'
  BY CancelStep
<1>3. CancelInv => CancelsItsTurn
  BY DEF CancelInv, CancelsItsTurn
<1> QED  BY <1>1, <1>2, <1>3, Typing, PTL DEF Spec

-----------------------------------------------------------------------------
(* What is saved, and what is said *)

Resting == {"idle", "restore", "returned", "stopped"}
InTurn  == {"step", "assemble", "peek", "request", "commit", "mark"}
             \union Answering \union Compacting

Failed(l)  == l.pc = "finish" /\ l.err \notin {"none", "canceled"}
Resumed(l) == l.pc = "begin" /\ l.resume

\* What has been saved can be gone on with: some calls are still open in it,
\* none of them answered before.
Continues(cp, done) ==
    /\ done \subseteq cp.used
    /\ \E open \in Ids :
          /\ Paired(All(cp.messages, open))
          /\ cp.committed => open = <<>>
          /\ Range(open) \cap done = {}
          /\ ResultIds(All(cp.messages, open)) \subseteq cp.used

\* A turn that is under way has been saved.
IsSaved(l, cp) ==
    /\ l.pc \in InTurn \union {"discard", "known"} => cp # None
    /\ l.pc \in {"discard", "known"} => cp.committed
    /\ l.pc \in InTurn \union {"begin"} => ~l.committed

\* Whatever is said will be paired once the open calls have their results: in a
\* turn and between two turns, but not after a failure nor before what a
\* resumed turn left open is known.
Pairs(l, cp) ==
    /\ Resumed(l) => /\ cp # None /\ ~cp.committed
                     /\ l.messages = cp.messages /\ l.used = cp.used
    /\ l.pc \notin Resting /\ ~Failed(l) /\ ~Resumed(l) => Paired(All(l.messages, l.todo))
    /\ cp = None => Paired(l.messages)
    /\ l.pc = "finish" /\ l.todo # <<>> => Failed(l)

\* Every id with a result is a used one, and no open call has a saved result.
Uses(l, cp, done) ==
    /\ cp = None => done = {}
    /\ l.pc \notin Resting => done \subseteq l.used
    /\ ResultIds(All(l.messages, l.todo)) \subseteq l.used
    /\ Range(l.todo) \cap done = {}

Sound(l, cp, done) ==
    /\ IsSaved(l, cp) /\ Pairs(l, cp) /\ Uses(l, cp, done)
    /\ cp # None => Continues(cp, done)

\* What an open call adds to the ids with a result.
LEMMA OpenIds ==
    ASSUME NEW ms \in Seq(Messages), NEW ids \in Ids
    PROVE  /\ ResultIds(All(ms, ids)) = ResultIds(ms) \union Range(ids)
           /\ Paired(All(ms, ids)) => Range(ids) \cap ResultIds(ms) = {}
<1> DEFINE all == All(ms, ids)
<1>1. /\ all \in Seq(Messages) /\ Len(all) = Len(ms) + Len(ids)
      /\ \A i \in 1 .. Len(ms) : all[i] = ms[i]
      /\ \A k \in 1 .. Len(ids) : all[Len(ms) + k] = Result(ids[k])
  BY Alls
<1>2. /\ Len(ids) \in Nat /\ DOMAIN ids = 1 .. Len(ids)
      /\ \A k \in 1 .. Len(ids) : ids[k] \in CallIds
  BY IdSeqs
<1>3. Len(ms) \in Nat /\ DOMAIN ms = 1 .. Len(ms)
  BY Conversations
<1>4. DOMAIN all = 1 .. Len(ms) + Len(ids)
  BY <1>1, AsFunction
<1> HIDE DEF all
<1>5. \A k \in 1 .. Len(ids) : Result(ids[k]).kind = "result" /\ Result(ids[k]).no = ids[k]
  BY <1>2, ResultIsOne
<1>6. ASSUME NEW x \in ResultIds(all) PROVE x \in ResultIds(ms) \union Range(ids)
  <2>1. PICK i \in DOMAIN all : all[i].kind = "result" /\ all[i].no = x
    BY <1>6 DEF ResultIds, Range
  <2>2. CASE i \in 1 .. Len(ms)
    BY <1>1, <1>3, <2>1, <2>2 DEF ResultIds, Range
  <2>3. CASE i \notin 1 .. Len(ms)
    <3>1. i - Len(ms) \in 1 .. Len(ids) /\ i = Len(ms) + (i - Len(ms))
      BY <1>2, <1>3, <1>4, <2>1, <2>3
    <3>2. all[i] = Result(ids[i - Len(ms)])
      BY <1>1, <3>1
    <3>3. x = ids[i - Len(ms)]
      BY <1>5, <2>1, <3>1, <3>2
    <3> QED  BY <1>2, <3>1, <3>3 DEF Range
  <2> QED  BY <2>2, <2>3
<1>7. ASSUME NEW x \in ResultIds(ms) PROVE x \in ResultIds(all)
  <2>1. PICK i \in DOMAIN ms : ms[i].kind = "result" /\ ms[i].no = x
    BY <1>7 DEF ResultIds, Range
  <2>2. i \in DOMAIN all /\ all[i] = ms[i]
    BY <1>1, <1>2, <1>3, <1>4, <2>1
  <2> QED  BY <2>1, <2>2 DEF ResultIds, Range
<1>8. ASSUME NEW x \in Range(ids)
      PROVE  \E k \in 1 .. Len(ids) : /\ x = ids[k] /\ Len(ms) + k \in DOMAIN all
                                      /\ all[Len(ms) + k].kind = "result" /\ all[Len(ms) + k].no = x
  <2>1. PICK k \in 1 .. Len(ids) : x = ids[k]
    BY <1>2, <1>8 DEF Range
  <2>2. Len(ms) + k \in DOMAIN all
    BY <1>2, <1>3, <1>4
  <2> QED  BY <1>1, <1>5, <2>1, <2>2
<1>9. ASSUME NEW x \in Range(ids) PROVE x \in ResultIds(all)
  BY <1>8 DEF ResultIds, Range
<1>10. ASSUME Paired(all), NEW x \in Range(ids), x \in ResultIds(ms) PROVE FALSE
  <2>1. PICK i \in DOMAIN ms : ms[i].kind = "result" /\ ms[i].no = x
    BY <1>10 DEF ResultIds, Range
  <2>2. PICK k \in 1 .. Len(ids) : /\ Len(ms) + k \in DOMAIN all
                                   /\ all[Len(ms) + k].kind = "result" /\ all[Len(ms) + k].no = x
    BY <1>8
  <2>3. i \in DOMAIN all /\ all[i] = ms[i] /\ i # Len(ms) + k
    BY <1>1, <1>2, <1>3, <1>4, <2>1
  <2> QED  BY <1>10, <2>1, <2>2, <2>3 DEF Paired, Single
<1>11. ResultIds(all) = ResultIds(ms) \union Range(ids)
  BY <1>6, <1>7, <1>9
<1>12. Paired(all) => Range(ids) \cap ResultIds(ms) = {}
  BY <1>10
<1> QED  BY <1>11, <1>12 DEF all

\* A step within a turn, or out of it, that says nothing.
LEMMA Onward ==
    ASSUME NEW l, NEW k, NEW cp, NEW done, Sound(l, cp, done),
           k.messages = l.messages, k.used = l.used, k.todo = l.todo, k.committed = l.committed,
           l.pc \in InTurn \/ (l.pc = "discard" /\ k.pc = "finish"),
           k.pc \in InTurn \union {"finish"},
           k.pc = "finish" /\ l.todo # <<>> => k.err \notin {"none", "canceled"}
    PROVE  Sound(k, cp, done)
<1>1. l.pc \notin Resting /\ ~Failed(l) /\ ~Resumed(l)
  BY DEF InTurn, Answering, Compacting, Resting, Failed, Resumed
<1>2. ~Resumed(k)
  BY DEF InTurn, Answering, Compacting, Resumed
<1>3. IsSaved(k, cp)
  BY DEF Sound, IsSaved, InTurn, Answering, Compacting
<1>4. Pairs(k, cp)
  BY <1>1, <1>2 DEF Sound, Pairs, Failed
<1>5. Uses(k, cp, done)
  BY <1>1 DEF Sound, Uses
<1> QED  BY <1>3, <1>4, <1>5 DEF Sound

\* A step of somebody else.
LEMMA Aside ==
    ASSUME NEW l, NEW k, NEW cp, NEW done, Sound(l, cp, done),
           k.messages = l.messages, k.used = l.used, k.todo = l.todo, k.committed = l.committed,
           k.pc = l.pc, k.resume = l.resume, k.err = l.err
    PROVE  Sound(k, cp, done)
BY DEF Sound, IsSaved, Pairs, Uses, Failed, Resumed

\* The loop comes to rest, or goes on with nothing open.
LEMMA Still ==
    ASSUME NEW l \in Loops, NEW k \in Loops, NEW cp, NEW done, Sound(l, cp, done),
           k.messages = l.messages, k.used = l.used, k.todo = <<>>,
           k.pc \in Resting
             \/ (k.pc \in {"next", "wait"} /\ l.pc \notin Resting /\ ~Failed(l) /\ ~Resumed(l)
                   /\ l.todo = <<>>)
    PROVE  Sound(k, cp, done)
<1>1. l.messages \in Seq(Messages) /\ l.todo \in Ids /\ <<>> \in Ids
  BY NoIds DEF Loops
<1>2. ~Resumed(k) /\ k.pc # "finish" /\ ~Failed(k)
  BY DEF Resting, Resumed, Failed
<1>3. ResultIds(All(k.messages, k.todo)) \subseteq k.used
  <2>1. ResultIds(All(l.messages, <<>>)) = ResultIds(l.messages) \union Range(<<>>)
    BY <1>1, OpenIds
  <2>2. ResultIds(All(l.messages, l.todo)) = ResultIds(l.messages) \union Range(l.todo)
    BY <1>1, OpenIds
  <2>3. Range(<<>>) = {}
    BY NothingSaid
  <2> QED  BY <2>1, <2>2, <2>3 DEF Sound, Uses
<1>4. IsSaved(k, cp)
  BY DEF IsSaved, InTurn, Answering, Compacting, Resting
<1>5. Pairs(k, cp)
  BY <1>2 DEF Sound, Pairs
<1>6. Uses(k, cp, done)
  <2>1. Range(k.todo) \cap done = {}
    BY NothingSaid
  <2> QED  BY <1>3, <2>1 DEF Sound, Uses
<1> QED  BY <1>4, <1>5, <1>6 DEF Sound

\* persistReact, with l for what is saved.
LEMMA Persists ==
    ASSUME TypeOK, Sound(loop, checkpoint, settled), NEW l \in Loops, Persist(l),
           l.pc \in InTurn \union {"discard"}, l.pc = "discard" <=> l.committed,
           l.committed => l.todo = <<>>,
           loop.pc \notin Resting, loop.used \subseteq l.used,
           Paired(All(l.messages, l.todo)), ResultIds(All(l.messages, l.todo)) \subseteq l.used,
           Range(l.todo) \cap settled = {},
           checkpoint = None => Paired(l.messages)
    PROVE  Sound(loop, checkpoint, settled)'
<1>1. l.messages \in Seq(Messages) /\ l.todo \in Ids
  BY DEF Loops
<1>2. settled \subseteq l.used
  BY DEF Sound, Uses
<1>3. CASE /\ loop' = l /\ checkpoint' = Snapshot(l)
           /\ settled' = settled \union {m.no : m \in {n \in Range(l.messages) : n.kind = "result"}}
  <2>1. settled' = settled \union ResultIds(l.messages)
    BY <1>3 DEF ResultIds
  <2>2. /\ ResultIds(l.messages) \subseteq l.used
        /\ Range(l.todo) \cap ResultIds(l.messages) = {}
    BY <1>1, OpenIds
  <2>3. settled' \subseteq l.used /\ Range(l.todo) \cap settled' = {}
    BY <1>2, <2>1, <2>2
  <2>4. /\ checkpoint' # None /\ checkpoint'.messages = l.messages /\ checkpoint'.used = l.used
        /\ checkpoint'.committed = l.committed
    <3>1. Snapshot(l) \in Checkpoints
      BY <1>1 DEF Snapshot, Checkpoints, Loops
    <3> QED  BY <1>3, <3>1, NoneAssumption DEF Snapshot
  <2>5. ~Failed(l) /\ ~Resumed(l) /\ l.pc # "finish" /\ l.pc # "known" /\ l.pc # "begin"
    BY DEF Failed, Resumed, InTurn, Answering, Compacting
  <2>6. Continues(checkpoint', settled')
    BY <1>1, <2>3, <2>4 DEF Continues
  <2>7. IsSaved(l, checkpoint')
    BY <2>4, <2>5 DEF IsSaved, InTurn, Answering, Compacting
  <2>8. Pairs(l, checkpoint')
    BY <2>4, <2>5 DEF Pairs
  <2>9. Uses(l, checkpoint', settled')
    BY <2>3, <2>4 DEF Uses
  <2> QED  BY <1>3, <2>6, <2>7, <2>8, <2>9 DEF Sound
<1>4. CASE /\ loop' = [l EXCEPT !.pc = "finish", !.err = "fatal"]
           /\ UNCHANGED <<checkpoint, settled>>
  <2>1. /\ loop'.pc = "finish" /\ loop'.err = "fatal" /\ loop'.messages = l.messages
        /\ loop'.used = l.used /\ loop'.todo = l.todo
    BY <1>4 DEF Loops
  <2>2. Failed(loop') /\ ~Resumed(loop')
    BY <2>1 DEF Failed, Resumed
  <2>3. IsSaved(loop', checkpoint)
    BY <2>1 DEF IsSaved, InTurn, Answering, Compacting
  <2>4. Pairs(loop', checkpoint)
    BY <2>1, <2>2 DEF Pairs
  <2>5. Uses(loop', checkpoint, settled)
    BY <1>2, <2>1 DEF Uses, Sound
  <2> QED  BY <1>4, <2>3, <2>4, <2>5 DEF Sound
<1> QED  BY <1>3, <1>4 DEF Persist

\* The checkpoint is discarded once the turn is over.
LEMMA Discarded ==
    ASSUME NEW l, NEW k, NEW cp, NEW done, Sound(l, cp, done),
           k.messages = l.messages, k.used = l.used, l.todo = <<>>, k.todo = <<>>,
           l.messages \in Seq(Messages), l.pc \in {"discard", "known"},
           k.pc \in {"next", "returned", "finish"}
    PROVE  Sound(k, None, {})
<1>1. l.pc \notin Resting /\ ~Failed(l) /\ ~Resumed(l)
  BY DEF Resting, Failed, Resumed
<1>2. Paired(All(l.messages, <<>>)) /\ All(l.messages, <<>>) = l.messages
  BY <1>1, AllOfNone DEF Sound, Pairs
<1>3. ~Resumed(k)
  BY DEF Resumed
<1>4. IsSaved(k, None)
  BY DEF IsSaved, InTurn, Answering, Compacting
<1>5. Pairs(k, None)
  BY <1>2, <1>3 DEF Pairs
<1>6. Uses(k, None, {})
  BY DEF Sound, Uses
<1> QED  BY <1>4, <1>5, <1>6 DEF Sound

LEMMA NewTurn ==
    ASSUME TypeOK, Shape, Sound(loop, checkpoint, settled), NEW q \in 0 .. MaxQueries, RunTurn(q),
           loop.pc = "next" \/ (loop.pc = "restore" /\ checkpoint = None)
    PROVE  Sound(loop', checkpoint, settled)
<1>1. /\ loop'.pc = "begin" /\ loop'.messages = loop.messages /\ loop'.used = loop.used
      /\ loop'.todo = loop.todo /\ loop'.committed = FALSE /\ loop'.resume = FALSE
  BY RunTurnBegins
<1>2. loop.todo = <<>>
  BY DEF Shape, Answering, Compacting
<1>3. ~Resumed(loop) /\ ~Failed(loop) /\ ~Resumed(loop')
  BY <1>1 DEF Resumed, Failed
<1>4. Paired(All(loop.messages, loop.todo))
  <2>1. CASE loop.pc = "next"
    BY <1>3, <2>1 DEF Sound, Pairs, Resting
  <2>2. CASE checkpoint = None
    BY <1>2, <2>2, TypeFacts, AllOfNone DEF Sound, Pairs
  <2> QED  BY <2>1, <2>2
<1>5. settled \subseteq loop.used
  BY DEF Sound, Uses, Resting
<1>6. IsSaved(loop', checkpoint)
  BY <1>1 DEF IsSaved, InTurn, Answering, Compacting
<1>7. Pairs(loop', checkpoint)
  BY <1>1, <1>3, <1>4 DEF Pairs, Sound
<1>8. Uses(loop', checkpoint, settled)
  BY <1>1, <1>5 DEF Uses, Sound
<1> QED  BY <1>6, <1>7, <1>8 DEF Sound

\* What is restored is what was saved, open calls and all.
LEMMA Restored ==
    ASSUME TypeOK, Shape, Sound(loop, checkpoint, settled), ContinueTurn
    PROVE  Sound(loop', checkpoint, settled)
<1> DEFINE l == [loop EXCEPT !.messages = checkpoint.messages, !.used = checkpoint.used,
                             !.committed = checkpoint.committed, !.query = checkpoint.query]
<1>1. checkpoint # None /\ loop.todo = <<>>
  BY DEF ContinueTurn, Shape, Answering, Compacting
<1>2. /\ l \in Loops /\ l.query \in 0 .. MaxQueries
      /\ l.messages = checkpoint.messages /\ l.used = checkpoint.used
      /\ l.committed = checkpoint.committed /\ l.todo = <<>>
  BY <1>1, TypeFacts, SavedFacts DEF Loops
<1>3. \/ checkpoint.committed /\ loop' = [l EXCEPT !.pc = "known"]
      \/ ~checkpoint.committed /\ loop' = Begun(l, l.query, TRUE)
  BY DEF ContinueTurn
<1> HIDE DEF l
<1>4. /\ loop'.messages = checkpoint.messages /\ loop'.used = checkpoint.used
      /\ loop'.committed = checkpoint.committed /\ loop'.todo = <<>>
      /\ \/ checkpoint.committed /\ loop'.pc = "known"
         \/ ~checkpoint.committed /\ loop'.pc = "begin" /\ loop'.resume = TRUE
  <2>1. CASE checkpoint.committed /\ loop' = [l EXCEPT !.pc = "known"]
    BY <1>2, <2>1 DEF Loops
  <2>2. CASE ~checkpoint.committed /\ loop' = Begun(l, l.query, TRUE)
    BY <1>2, <2>2, TurnBegins
  <2> QED  BY <1>3, <2>1, <2>2
<1>5. PICK open \in Ids : /\ Paired(All(checkpoint.messages, open))
                          /\ checkpoint.committed => open = <<>>
                          /\ ResultIds(All(checkpoint.messages, open)) \subseteq checkpoint.used
  BY <1>1 DEF Sound, Continues
<1>6. settled \subseteq checkpoint.used
  BY <1>1 DEF Sound, Continues
<1>7. /\ ResultIds(All(checkpoint.messages, <<>>)) \subseteq checkpoint.used
      /\ Range(<<>>) = {}
  <2>1. checkpoint.messages \in Seq(Messages) /\ <<>> \in Ids
    BY <1>1, SavedFacts, NoIds
  <2>2. ResultIds(All(checkpoint.messages, open)) = ResultIds(checkpoint.messages) \union Range(open)
    BY <2>1, OpenIds
  <2>3. ResultIds(All(checkpoint.messages, <<>>)) = ResultIds(checkpoint.messages) \union Range(<<>>)
    BY <2>1, OpenIds
  <2> QED  BY <1>5, <2>2, <2>3, NothingSaid
<1>8. IsSaved(loop', checkpoint)
  BY <1>1, <1>4 DEF IsSaved, InTurn, Answering, Compacting
<1>9. Pairs(loop', checkpoint)
  BY <1>1, <1>4, <1>5 DEF Pairs, Resumed, Failed
<1>10. Uses(loop', checkpoint, settled)
  BY <1>1, <1>4, <1>6, <1>7 DEF Uses
<1> QED  BY <1>8, <1>9, <1>10 DEF Sound

\* The open calls of a restored conversation are found again.
LEMMA Reopened ==
    ASSUME TypeOK, Shape, Sound(loop, checkpoint, settled), Begin, loop.resume
    PROVE  Sound(loop', checkpoint, settled)
<1> DEFINE found == Unpaired(loop.messages)
           to == IF found # <<>> THEN "tools"
                 ELSE IF Complete(loop.messages) THEN "commit" ELSE "step"
<1>1. loop' = [loop EXCEPT !.pc = to, !.todo = found] /\ Resumed(loop)
  BY DEF Begin, Resumed
<1>2. /\ checkpoint # None /\ ~checkpoint.committed
      /\ loop.messages = checkpoint.messages /\ loop.used = checkpoint.used
  BY <1>1 DEF Sound, Pairs
<1>3. PICK open \in Ids : /\ Paired(All(checkpoint.messages, open))
                          /\ Range(open) \cap settled = {}
                          /\ ResultIds(All(checkpoint.messages, open)) \subseteq checkpoint.used
  BY <1>2 DEF Sound, Continues
<1>4. found = open
  BY <1>2, <1>3, TypeFacts, OpenFound
<1>5. to \in {"tools", "commit", "step"} /\ to \in InTurn
  BY DEF InTurn, Answering
<1> HIDE DEF found, to
<1>6. /\ loop'.messages = loop.messages /\ loop'.used = loop.used /\ loop'.todo = open
      /\ loop'.committed = loop.committed /\ loop'.pc = to
  BY <1>1, <1>4, TypeFacts DEF Loops
<1>7. ~loop.committed
  BY DEF Sound, IsSaved, Begin
<1>8. settled \subseteq loop.used
  BY <1>1 DEF Sound, Uses, Resumed, Resting
<1>9. IsSaved(loop', checkpoint)
  BY <1>2, <1>5, <1>6, <1>7 DEF IsSaved
<1>10. Pairs(loop', checkpoint)
  BY <1>2, <1>3, <1>5, <1>6 DEF Pairs, Resumed
<1>11. Uses(loop', checkpoint, settled)
  BY <1>2, <1>3, <1>6, <1>8 DEF Uses
<1> QED  BY <1>9, <1>10, <1>11 DEF Sound

LEMMA SaidIds ==
    ASSUME NEW ms \in Seq(Messages), NEW m \in Messages, m.kind # "result"
    PROVE  ResultIds(Append(ms, m)) = ResultIds(ms)
<1>1. Range(Append(ms, m)) = Range(ms) \union {m}
  BY Longer
<1> QED  BY <1>1 DEF ResultIds

LEMMA RestIds ==
    ASSUME NEW ms \in Seq(Messages), NEW d \in Nat, d <= Len(ms)
    PROVE  ResultIds(From(ms, d + 1)) \subseteq ResultIds(ms)
<1>1. /\ From(ms, d + 1) \in Seq(Messages) /\ Len(From(ms, d + 1)) = Len(ms) - d
      /\ \A i \in 1 .. Len(ms) - d : From(ms, d + 1)[i] = ms[i + d]
  BY Rest
<1>2. /\ DOMAIN From(ms, d + 1) = 1 .. Len(ms) - d /\ DOMAIN ms = 1 .. Len(ms)
      /\ \A i \in 1 .. Len(ms) - d : i + d \in DOMAIN ms
  BY <1>1, AsFunction, Shifted
<1> QED  BY <1>1, <1>2 DEF ResultIds, Range

LEMMA Headed ==
    ASSUME NEW ms \in Seq(Messages), NEW m \in Messages
    PROVE  <<m>> \o ms \in Seq(Messages) /\ Range(<<m>> \o ms) = {m} \union Range(ms)
<1>1. <<m>> \in Seq(Messages) /\ Len(<<m>>) = 1 /\ <<m>>[1] = m
  OBVIOUS
<1> DEFINE s == <<m>>
<1>2. s \in Seq(Messages) /\ Len(s) = 1 /\ s[1] = m
  BY <1>1
<1> HIDE DEF s
<1>3. /\ s \o ms \in Seq(Messages) /\ Len(s \o ms) = Len(s) + Len(ms)
      /\ \A i \in 1 .. Len(s) : (s \o ms)[i] = s[i]
      /\ \A i \in 1 .. Len(ms) : (s \o ms)[Len(s) + i] = ms[i]
  <2>1. s \in Seq(Messages)
    BY <1>2
  <2> QED  BY <2>1, Joined
<1>4. Len(ms) \in Nat /\ DOMAIN ms = 1 .. Len(ms) /\ DOMAIN (s \o ms) = 1 .. 1 + Len(ms)
  BY <1>2, <1>3, AsFunction
<1>5. \A i \in 1 .. 1 + Len(ms) : i = 1 \/ (i - 1 \in 1 .. Len(ms) /\ 1 + (i - 1) = i)
  BY <1>4
<1>6. \A i \in 1 .. Len(ms) : 1 + i \in 1 .. 1 + Len(ms)
  BY <1>4
<1>7. 1 \in 1 .. 1 + Len(ms)
  BY <1>4
<1>8. \A x : x \in Range(s \o ms) => x \in {m} \union Range(ms)
  BY <1>2, <1>3, <1>4, <1>5 DEF Range
<1>9. \A x : x \in {m} \union Range(ms) => x \in Range(s \o ms)
  <2> DEFINE t == s \o ms
  <2>1. /\ DOMAIN t = 1 .. 1 + Len(ms) /\ t[1] = m
        /\ \A i \in 1 .. Len(ms) : t[1 + i] = ms[i]
    BY <1>2, <1>3, <1>4
  <2> HIDE DEF t
  <2>2. m \in Range(t)
    BY <1>7, <2>1 DEF Range
  <2>3. ASSUME NEW i \in 1 .. Len(ms) PROVE ms[i] \in Range(t)
    BY <1>6, <2>1 DEF Range
  <2>4. \A x \in Range(ms) : x \in Range(t)
    BY <1>4, <2>3 DEF Range
  <2> QED  BY <2>2, <2>4 DEF t
<1> QED  BY <1>3, <1>8, <1>9 DEF s

LEMMA TailIds == ASSUME NEW ids \in Ids, ids # <<>> PROVE Range(Tail(ids)) \subseteq Range(ids)
<1>1. /\ DOMAIN ids = 1 .. Len(ids) /\ Tail(ids) \in Ids /\ Len(Tail(ids)) = Len(ids) - 1
      /\ Len(ids) \in Nat
      /\ \A i \in 1 .. Len(Tail(ids)) : Tail(ids)[i] = ids[i + 1]
  BY IdSeqs
<1>2. DOMAIN Tail(ids) = 1 .. Len(Tail(ids))
  BY <1>1, IdSeqs
<1>3. \A i \in 1 .. Len(ids) - 1 : i + 1 \in 1 .. Len(ids)
  BY <1>1
<1> QED  BY <1>1, <1>2, <1>3 DEF Range

LEMMA Empty ==
    ASSUME NEW l, l.pc = "idle", l.messages = <<>>, l.used = {}, l.todo = <<>>,
           NEW cp, NEW done, cp = None => done = {}, cp # None => Continues(cp, done)
    PROVE  Sound(l, cp, done)
<1>1. All(<<>>, <<>>) = <<>>
  BY NothingSaid, AllOfNone
<1>2. IsSaved(l, cp) /\ Pairs(l, cp)
  BY NothingSaid DEF IsSaved, Pairs, InTurn, Answering, Compacting, Resumed, Failed, Resting
<1>3. Uses(l, cp, done)
  BY <1>1, NothingSaid DEF Uses, Resting
<1> QED  BY <1>2, <1>3 DEF Sound

LEMMA Typed == ASSUME TypeOK, Shape, [Next]_vars PROVE loop' \in Loops
<1>1. TypeOK'
  BY TypeStep
<1> QED  BY <1>1 DEF TypeOK

LEMMA SoundStep ==
    ASSUME TypeOK, Shape, Sound(loop, checkpoint, settled), [Next]_vars
    PROVE  Sound(loop, checkpoint, settled)'
<1>1. CASE Run
  <2>1. /\ loop'.messages = loop.messages /\ loop'.used = loop.used /\ loop'.todo = loop.todo
        /\ loop.todo = <<>>
    BY <1>1, TypeFacts DEF Run, Loops, Goto, Shape, Answering, Compacting
  <2>2. \/ loop'.pc \in Resting
        \/ loop.pc \in {"next", "wait"} /\ loop'.pc \in {"next", "wait"}
    BY <1>1, TypeFacts DEF Run, Loops, Goto, Resting
  <2>3. Sound(loop', checkpoint, settled)
    BY <2>1, <2>2, Typed, TypeFacts, Still DEF Resting, Failed, Resumed
  <2> QED  BY <1>1, <2>3 DEF Run, told
<1>2. ASSUME NEW q \in Queries, Ask(q) PROVE Sound(loop, checkpoint, settled)'
  <2>1. /\ loop'.messages = loop.messages /\ loop'.used = loop.used /\ loop'.todo = loop.todo
        /\ loop.todo = <<>>
    BY <1>2, TypeFacts DEF Ask, Loops, Goto, Shape, Answering, Compacting
  <2>2. \/ loop'.pc \in Resting
        \/ loop.pc \in {"next", "wait"} /\ loop'.pc \in {"next", "wait"}
    BY <1>2, TypeFacts DEF Ask, Loops, Goto, Resting
  <2>3. Sound(loop', checkpoint, settled)
    BY <2>1, <2>2, Typed, TypeFacts, Still DEF Resting, Failed, Resumed
  <2> QED  BY <1>2, <2>3 DEF Ask, told
<1>3. CASE Restore
  <2>1. UNCHANGED <<checkpoint, settled>> /\ loop.pc = "restore" /\ checkpoint = None
        /\ loop.todo = <<>>
    BY <1>3 DEF Restore, Shape, Answering, Compacting
  <2>2. CASE RunTurn(loop.query)
    BY <2>1, <2>2, TypeFacts, NewTurn
  <2>3. CASE loop' = [loop EXCEPT !.pc = "next"]
    <3>1. /\ loop'.messages = loop.messages /\ loop'.used = loop.used /\ loop'.todo = <<>>
          /\ loop'.pc = "next"
      BY <2>1, <2>3, TypeFacts DEF Loops
    <3>2. ~Resumed(loop') /\ IsSaved(loop', checkpoint)
      BY <3>1 DEF Resumed, IsSaved, InTurn, Answering, Compacting
    <3>3. Paired(All(loop.messages, <<>>))
      BY <2>1, TypeFacts, AllOfNone DEF Sound, Pairs
    <3>4. Pairs(loop', checkpoint)
      BY <2>1, <3>1, <3>2, <3>3 DEF Sound, Pairs
    <3>5. Uses(loop', checkpoint, settled)
      BY <2>1, <3>1 DEF Sound, Uses
    <3> QED  BY <2>1, <3>2, <3>4, <3>5 DEF Sound
  <2> QED  BY <1>3, <2>2, <2>3 DEF Restore, Goto
<1>4. CASE ContinueTurn
  <2>1. Sound(loop', checkpoint, settled)
    BY <1>4, Restored
  <2> QED  BY <1>4, <2>1 DEF ContinueTurn
<1>5. CASE FinishCommitted
  <2> DEFINE to == IF Queued(kind) THEN "next" ELSE "returned"
             failed == IF Queued(kind) THEN "stopped" ELSE "returned"
  <2>1. /\ loop.pc = "known" /\ loop.todo = <<>>
        /\ DiscardReact([loop EXCEPT !.pc = to, !.answer = LastReply(loop.messages)], failed)
    BY <1>5 DEF FinishCommitted, Shape, Answering, Compacting
  <2>2. to \in {"next", "returned"} /\ failed \in {"stopped", "returned"}
    OBVIOUS
  <2> HIDE DEF to, failed
  <2>3. CASE /\ checkpoint' = None /\ settled' = {}
             /\ loop' = [loop EXCEPT !.pc = to, !.answer = LastReply(loop.messages)]
    <3>1. /\ loop'.messages = loop.messages /\ loop'.used = loop.used /\ loop'.todo = <<>>
          /\ loop'.pc = to
      BY <2>1, <2>3, TypeFacts DEF Loops
    <3>2. loop.messages \in Seq(Messages)
      BY TypeFacts
    <3>3. Sound(loop', None, {})
      BY <2>1, <2>2, <3>1, <3>2, Discarded
    <3> QED  BY <2>3, <3>3
  <2>4. CASE /\ UNCHANGED <<checkpoint, settled>>
             /\ loop' = [loop EXCEPT !.pc = failed, !.err = "fatal"]
    <3>1. /\ loop'.messages = loop.messages /\ loop'.used = loop.used /\ loop'.todo = <<>>
          /\ loop'.pc = failed
      BY <2>1, <2>4, TypeFacts DEF Loops
    <3>2. loop \in Loops
      BY TypeFacts
    <3>3. Sound(loop', checkpoint, settled)
      BY <2>2, <3>1, <3>2, Typed, Still DEF Resting
    <3> QED  BY <2>4, <3>3
  <2> QED  BY <2>1, <2>3, <2>4 DEF DiscardReact
<1>6. CASE Next1
  <2>1. UNCHANGED <<checkpoint, settled>> /\ loop.pc = "next" /\ loop.todo = <<>>
    BY <1>6 DEF Next1, Shape, Answering, Compacting
  <2>2. CASE queue # <<>> /\ RunTurn(Head(queue))
    <3>1. Head(queue) \in 0 .. MaxQueries
      BY <2>2, QueryNumbers DEF TypeOK
    <3> QED  BY <2>1, <2>2, <3>1, NewTurn
  <2>3. CASE loop' = [loop EXCEPT !.pc = "wait"]
    <3>1. /\ loop'.messages = loop.messages /\ loop'.used = loop.used /\ loop'.todo = <<>>
          /\ loop'.pc = "wait"
      BY <2>1, <2>3, TypeFacts DEF Loops
    <3>2. loop \in Loops /\ loop.pc \notin Resting /\ ~Failed(loop) /\ ~Resumed(loop)
      BY <2>1, TypeFacts DEF Resting, Failed, Resumed
    <3>3. Sound(loop', checkpoint, settled)
      BY <2>1, <3>1, <3>2, Typed, Still
    <3> QED  BY <2>1, <3>3
  <2> QED  BY <1>6, <2>2, <2>3 DEF Next1, Goto
<1>7. CASE Woken
  <2>1. /\ loop'.messages = loop.messages /\ loop'.used = loop.used /\ loop'.todo = loop.todo
        /\ loop.todo = <<>>
    BY <1>7, TypeFacts DEF Woken, Loops, Goto, Shape, Answering, Compacting
  <2>2. \/ loop'.pc \in Resting
        \/ loop.pc \in {"next", "wait"} /\ loop'.pc \in {"next", "wait"}
    BY <1>7, TypeFacts DEF Woken, Loops, Goto, Resting
  <2>3. Sound(loop', checkpoint, settled)
    BY <2>1, <2>2, Typed, TypeFacts, Still DEF Resting, Failed, Resumed
  <2> QED  BY <1>7, <2>3 DEF Woken, told
<1>8. CASE NextCanceled
  <2>1. /\ loop'.messages = loop.messages /\ loop'.used = loop.used /\ loop'.todo = loop.todo
        /\ loop.todo = <<>>
    BY <1>8, TypeFacts DEF NextCanceled, Loops, Goto, Shape, Answering, Compacting
  <2>2. \/ loop'.pc \in Resting
        \/ loop.pc \in {"next", "wait"} /\ loop'.pc \in {"next", "wait"}
    BY <1>8, TypeFacts DEF NextCanceled, Loops, Goto, Resting
  <2>3. Sound(loop', checkpoint, settled)
    BY <2>1, <2>2, Typed, TypeFacts, Still DEF Resting, Failed, Resumed
  <2> QED  BY <1>8, <2>3 DEF NextCanceled, told
<1>9. CASE Begin
  <2>1. CASE loop.resume
    <3>1. Sound(loop', checkpoint, settled)
      BY <1>9, <2>1, Reopened
    <3> QED  BY <1>9, <2>1, <3>1 DEF Begin
  <2>2. CASE ~loop.resume
    <3> DEFINE m == User(loop.query)
               l == [loop EXCEPT !.pc = "step", !.messages = Append(@, m)]
    <3>1. Persist(l)
      BY <1>9, <2>2 DEF Begin
    <3>2. /\ m \in Messages /\ m.kind # "result" /\ m.calls = <<>>
          /\ loop.messages \in Seq(Messages) /\ Append(loop.messages, m) \in Seq(Messages)
      <4>1. m \in Messages /\ m.kind = "user" /\ m.calls = <<>>
        BY TypeFacts, Said
      <4> QED  BY <4>1, TypeFacts, Spoken
    <3>3. /\ loop.pc = "begin" /\ loop.todo = <<>> /\ loop.pc \notin Resting
          /\ ~Failed(loop) /\ ~Resumed(loop)
      BY <1>9, <2>2 DEF Begin, Shape, Answering, Compacting, Resting, Failed, Resumed
    <3> HIDE DEF m
    <3>4. All(loop.messages, <<>>) = loop.messages
          /\ All(Append(loop.messages, m), <<>>) = Append(loop.messages, m)
      BY <3>2, AllOfNone
    <3>5. Paired(loop.messages)
      BY <3>3, <3>4 DEF Sound, Pairs
    <3>6. Paired(Append(loop.messages, m))
      BY <3>2, <3>5, Saying
    <3>7. ResultIds(Append(loop.messages, m)) = ResultIds(loop.messages)
      BY <3>2, SaidIds
    <3>8. ResultIds(loop.messages) \subseteq loop.used
      BY <3>3, <3>4 DEF Sound, Uses
    <3>9. /\ l \in Loops /\ l.pc = "step" /\ l.messages = Append(loop.messages, m)
          /\ l.used = loop.used /\ l.todo = <<>> /\ l.committed = loop.committed
      BY <3>2, <3>3, Names, TypeFacts DEF Loops
    <3> HIDE DEF l
    <3>10. ~l.committed /\ l.pc \in InTurn
      BY <3>3, <3>9 DEF Sound, IsSaved, InTurn
    <3> QED  BY <3>1, <3>3, <3>4, <3>6, <3>7, <3>8, <3>9, <3>10, NothingSaid, Persists
  <2> QED  BY <2>1, <2>2
<1>10. CASE Step
  <2>1. /\ loop'.messages = loop.messages /\ loop'.used = loop.used /\ loop'.todo = loop.todo
        /\ loop'.committed = loop.committed
    BY <1>10, StepIs DEF OnlyMoves
  <2>2. loop.pc \in InTurn /\ loop'.pc \in InTurn \union {"finish"}
    BY <1>10, StepIs DEF InTurn
  <2>3. loop'.pc = "finish" /\ loop.todo # <<>> => loop'.err \notin {"none", "canceled"}
    BY <1>10, TypeFacts DEF Step, Loops, Shape, Answering, Compacting, Fail
  <2>4. Sound(loop', checkpoint, settled)
    BY <2>1, <2>2, <2>3, Onward
  <2> QED  BY <1>10, <2>4 DEF Step, told
<1>11. CASE Assemble
  <2>1. /\ loop'.messages = loop.messages /\ loop'.used = loop.used /\ loop'.todo = loop.todo
        /\ loop'.committed = loop.committed
    BY <1>11, AssembleIs DEF OnlyMoves
  <2>2. loop.pc \in InTurn /\ loop'.pc \in InTurn \union {"finish"}
    BY <1>11, AssembleIs DEF InTurn
  <2>3. loop'.pc = "finish" /\ loop.todo # <<>> => loop'.err \notin {"none", "canceled"}
    BY <1>11, TypeFacts DEF Assemble, Loops, Shape, Answering, Compacting, Goto, Fail
  <2>4. Sound(loop', checkpoint, settled)
    BY <2>1, <2>2, <2>3, Onward
  <2> QED  BY <1>11, <2>4 DEF Assemble, told
<1>12. CASE Peek
  <2>1. /\ loop'.messages = loop.messages /\ loop'.used = loop.used /\ loop'.todo = loop.todo
        /\ loop'.committed = loop.committed
    BY <1>12, TypeFacts DEF Peek, Loops
  <2>2. loop.pc \in InTurn /\ loop'.pc \in InTurn \union {"finish"}
    BY <1>12, TypeFacts DEF Peek, Loops, InTurn, Answering, Compacting
  <2>3. loop'.pc = "finish" /\ loop.todo # <<>> => loop'.err \notin {"none", "canceled"}
    BY <1>12, TypeFacts DEF Peek, Loops, Shape, Answering, Compacting
  <2>4. Sound(loop', checkpoint, settled)
    BY <2>1, <2>2, <2>3, Onward
  <2> QED  BY <1>12, <2>4 DEF Peek, told
<1>13. CASE CompactBeforeRequest
  <2>1. /\ loop'.messages = loop.messages /\ loop'.used = loop.used /\ loop'.todo = loop.todo
        /\ loop'.committed = loop.committed
    BY <1>13, TypeFacts DEF CompactBeforeRequest, Loops
  <2>2. loop.pc \in InTurn /\ loop'.pc \in InTurn \union {"finish"}
    BY <1>13, TypeFacts DEF CompactBeforeRequest, Loops, InTurn, Answering, Compacting
  <2>3. loop'.pc = "finish" /\ loop.todo # <<>> => loop'.err \notin {"none", "canceled"}
    BY <1>13, TypeFacts DEF CompactBeforeRequest, Loops, Shape, Answering, Compacting
  <2>4. Sound(loop', checkpoint, settled)
    BY <2>1, <2>2, <2>3, Onward
  <2> QED  BY <1>13, <2>4 DEF CompactBeforeRequest, told
<1>14. CASE ResetSession
  <2> DEFINE start == TurnStart(loop.messages)
             ms == <<Handoff>> \o From(loop.messages, start)
             l == [loop EXCEPT !.pc = "assemble", !.packed = TRUE, !.messages = ms]
  <2>1. Persist(l) /\ start > 1 /\ loop.pc = "request" /\ loop.todo = <<>>
    BY <1>14 DEF ResetSession, Shape, Answering, Compacting
  <2>2. loop.messages \in Seq(Messages)
    BY TypeFacts
  <2>3. /\ start - 1 \in Nat /\ start - 1 < Len(loop.messages) /\ start = (start - 1) + 1
        /\ loop.messages[start].kind = "user"
    BY <2>1, <2>2, TurnStarts
  <2> HIDE DEF start
  <2>4. start - 1 <= Len(loop.messages) /\ loop.messages[(start - 1) + 1].kind # "result"
    BY <2>2, <2>3
  <2>5. All(loop.messages, <<>>) = loop.messages
    BY <2>2, AllOfNone
  <2>6. loop.pc \notin Resting /\ ~Failed(loop) /\ ~Resumed(loop) /\ ~loop.committed
    BY <2>1 DEF Sound, IsSaved, Resting, Failed, Resumed, InTurn
  <2>7. Paired(loop.messages) /\ ResultIds(loop.messages) \subseteq loop.used
    BY <2>1, <2>5, <2>6 DEF Sound, Pairs, Uses
  <2>8. Paired(From(loop.messages, start))
    BY <2>2, <2>3, <2>4, <2>7, Cutting
  <2>9. From(loop.messages, start) \in Seq(Messages)
    BY <2>2, <2>3, <2>4, Rest
  <2>10. Handoff \in Messages /\ Handoff.kind # "result" /\ Handoff.calls = <<>>
    BY Said
  <2>11. Paired(ms)
    BY <2>8, <2>9, <2>10, Starting
  <2>12. ms \in Seq(Messages) /\ Range(ms) = {Handoff} \union Range(From(loop.messages, start))
    BY <2>9, <2>10, Headed
  <2>13. ResultIds(From(loop.messages, start)) \subseteq ResultIds(loop.messages)
    BY <2>2, <2>3, <2>4, RestIds
  <2>14. ResultIds(ms) \subseteq loop.used
    BY <2>7, <2>10, <2>12, <2>13 DEF ResultIds
  <2> HIDE DEF ms
  <2>15. /\ l \in Loops /\ l.pc = "assemble" /\ l.messages = ms
         /\ l.used = loop.used /\ l.todo = <<>> /\ l.committed = loop.committed
    BY <2>1, <2>12, Names, TypeFacts DEF Loops
  <2> HIDE DEF l
  <2>16. All(ms, <<>>) = ms /\ l.pc \in InTurn
    BY <2>12, <2>15, AllOfNone DEF InTurn
  <2> QED  BY <2>1, <2>6, <2>11, <2>14, <2>15, <2>16, NothingSaid, Persists
<1>15. ASSUME NEW ids \in ModelCalls, Generate(ids) PROVE Sound(loop, checkpoint, settled)'
  <2> DEFINE reply == Reply(replies + 1, ids)
             ms == Append(loop.messages, reply)
             s == [loop EXCEPT !.steps = @ + 1]
             l == [s EXCEPT !.pc = "after", !.used = @ \union Range(ids), !.todo = ids,
                            !.messages = Append(@, reply)]
  <2>1. loop.pc = "request" /\ loop.todo = <<>>
    BY <1>15 DEF Generate, Shape, Answering, Compacting
  <2>2. ids \in Ids /\ Range(ids) \subseteq CallIds /\ replies + 1 \in 1 .. MaxReplies
        /\ loop.steps + 1 \in 0 .. MaxSteps
    <3>1. replies + 1 \in 1 .. MaxReplies
      BY <1>15, Bounds, SMTT(30) DEF Generate, TypeOK
    <3>2. loop.steps + 1 \in 0 .. MaxSteps
      BY <1>15, Bounds, TypeFacts DEF Generate, Shape
    <3>3. ids \in Ids
      BY <1>15, TypeFacts, Bounds, CallSeqs DEF ModelCalls
    <3> QED  BY <3>1, <3>2, <3>3, IdSeqs, RangeType
  <2>3. \/ /\ loop' = [s EXCEPT !.pc = "finish", !.err = "fatal"]
           /\ UNCHANGED <<checkpoint, settled>>
        \/ Valid(ids) /\ Persist(l)
    BY <1>15 DEF Generate
  <2>4. loop.messages \in Seq(Messages) /\ All(loop.messages, <<>>) = loop.messages
    BY TypeFacts, AllOfNone
  <2>5. loop.pc \notin Resting /\ ~Failed(loop) /\ ~Resumed(loop) /\ ~loop.committed
        /\ checkpoint # None
    BY <2>1 DEF Sound, IsSaved, Resting, Failed, Resumed, InTurn
  <2>6. Paired(loop.messages) /\ ResultIds(loop.messages) \subseteq loop.used
        /\ settled \subseteq loop.used
    BY <2>1, <2>4, <2>5 DEF Sound, Pairs, Uses
  <2>7. /\ s \in Loops /\ s.messages = loop.messages /\ s.used = loop.used /\ s.todo = loop.todo
        /\ s.committed = loop.committed
    BY <2>2, TypeFacts DEF Loops
  <2> HIDE DEF reply, s
  <2>8. CASE /\ loop' = [s EXCEPT !.pc = "finish", !.err = "fatal"]
             /\ UNCHANGED <<checkpoint, settled>>
    <3>1. /\ loop'.messages = loop.messages /\ loop'.used = loop.used /\ loop'.todo = loop.todo
          /\ loop'.committed = loop.committed /\ loop'.pc = "finish"
      BY <2>7, <2>8 DEF Loops
    <3>2. loop.pc \in InTurn
      BY <2>1 DEF InTurn
    <3>3. Sound(loop', checkpoint, settled)
      BY <2>1, <3>1, <3>2, Onward
    <3> QED  BY <2>8, <3>3
  <2>9. CASE Valid(ids) /\ Persist(l)
    <3>1. /\ \A i, j \in DOMAIN ids : i # j => ids[i] # ids[j]
          /\ Range(ids) \cap loop.used = {}
      BY <2>9 DEF Valid
    <3>2. Range(ids) \cap ResultIds(loop.messages) = {}
      BY <2>6, <3>1
    <3>3. reply \in Messages /\ ms \in Seq(Messages) /\ Paired(All(ms, ids))
      BY <2>2, <2>4, <2>6, <3>1, <3>2, Asking DEF reply
    <3>4. reply.kind # "result"
      BY DEF reply, Reply
    <3>5. ResultIds(All(ms, ids)) = ResultIds(loop.messages) \union Range(ids)
      <4>1. ResultIds(All(ms, ids)) = ResultIds(ms) \union Range(ids)
        BY <2>2, <3>3, OpenIds
      <4>2. ResultIds(ms) = ResultIds(loop.messages)
        BY <2>4, <3>3, <3>4, SaidIds
      <4> QED  BY <4>1, <4>2
    <3> HIDE DEF ms
    <3>6. /\ l \in Loops /\ l.pc = "after" /\ l.messages = ms
          /\ l.used = loop.used \union Range(ids) /\ l.todo = ids /\ l.committed = loop.committed
      BY <2>2, <2>7, <3>3, Names, TypeFacts DEF Loops, ms
    <3> HIDE DEF l
    <3>7. l.pc \in InTurn /\ l.pc # "discard" /\ Range(l.todo) \cap settled = {}
      BY <2>6, <3>1, <3>6 DEF InTurn, Answering
    <3> QED  BY <2>5, <2>6, <2>9, <3>3, <3>5, <3>6, <3>7, Persists
  <2> QED  BY <2>3, <2>8, <2>9
<1>16. CASE GenerateFails
  <2>1. /\ loop'.messages = loop.messages /\ loop'.used = loop.used /\ loop'.todo = loop.todo
        /\ loop'.committed = loop.committed
    BY <1>16, TypeFacts DEF GenerateFails, Loops, Fail
  <2>2. loop.pc \in InTurn /\ loop'.pc \in InTurn \union {"finish"}
    BY <1>16, TypeFacts DEF GenerateFails, Loops, InTurn, Answering, Compacting, Fail
  <2>3. loop'.pc = "finish" /\ loop.todo # <<>> => loop'.err \notin {"none", "canceled"}
    BY <1>16, TypeFacts DEF GenerateFails, Loops, Shape, Answering, Compacting, Fail
  <2>4. Sound(loop', checkpoint, settled)
    BY <2>1, <2>2, <2>3, Onward
  <2> QED  BY <1>16, <2>4 DEF GenerateFails, told
<1>17. CASE Overflow
  <2>1. /\ loop'.messages = loop.messages /\ loop'.used = loop.used /\ loop'.todo = loop.todo
        /\ loop'.committed = loop.committed
    BY <1>17, TypeFacts DEF Overflow, Loops
  <2>2. loop.pc \in InTurn /\ loop'.pc \in InTurn \union {"finish"}
    BY <1>17, TypeFacts DEF Overflow, Loops, InTurn, Answering, Compacting
  <2>3. loop'.pc = "finish" /\ loop.todo # <<>> => loop'.err \notin {"none", "canceled"}
    BY <1>17, TypeFacts DEF Overflow, Loops, Shape, Answering, Compacting
  <2>4. Sound(loop', checkpoint, settled)
    BY <2>1, <2>2, <2>3, Onward
  <2> QED  BY <1>17, <2>4 DEF Overflow, told
<1>18. CASE Replied
  <2>1. /\ loop'.messages = loop.messages /\ loop'.used = loop.used /\ loop'.todo = loop.todo
        /\ loop'.committed = loop.committed
    BY <1>18, TypeFacts DEF Replied, Loops, Goto
  <2>2. loop.pc \in InTurn /\ loop'.pc \in InTurn \union {"finish"}
    BY <1>18, TypeFacts DEF Replied, Loops, InTurn, Answering, Compacting, Goto
  <2>3. loop'.pc = "finish" /\ loop.todo # <<>> => loop'.err \notin {"none", "canceled"}
    BY <1>18, TypeFacts DEF Replied, Loops, Shape, Answering, Compacting, Goto
  <2>4. Sound(loop', checkpoint, settled)
    BY <2>1, <2>2, <2>3, Onward
  <2> QED  BY <1>18, <2>4 DEF Replied, told
<1>19. CASE Execute
  <2>1. /\ loop'.messages = loop.messages /\ loop'.used = loop.used /\ loop'.todo = loop.todo
        /\ loop'.committed = loop.committed
    BY <1>19, TypeFacts DEF Execute, Loops, Goto
  <2>2. loop.pc \in InTurn /\ loop'.pc \in InTurn \union {"finish"}
    BY <1>19, TypeFacts DEF Execute, Loops, InTurn, Answering, Compacting, Goto
  <2>3. loop'.pc = "finish" /\ loop.todo # <<>> => loop'.err \notin {"none", "canceled"}
    BY <1>19, TypeFacts DEF Execute, Loops, Shape, Answering, Compacting, Goto
  <2>4. Sound(loop', checkpoint, settled)
    BY <2>1, <2>2, <2>3, Onward
  <2> QED  BY <1>19, <2>4 DEF Execute, told
<1>20. CASE ToolResult
  <2> DEFINE ms == Append(loop.messages, Result(Head(loop.todo)))
             l == [loop EXCEPT !.pc = "tools", !.todo = Tail(@), !.messages = ms]
  <2>1. Persist(l) /\ loop.pc \in {"result", "tools"} /\ loop.todo # <<>>
    BY <1>20 DEF ToolResult, Shape
  <2>2. loop.messages \in Seq(Messages) /\ loop.todo \in Ids
    BY TypeFacts
  <2>3. /\ ms \in Seq(Messages) /\ Tail(loop.todo) \in Ids
        /\ All(ms, Tail(loop.todo)) = All(loop.messages, loop.todo)
    BY <2>1, <2>2, NextResult
  <2>4. loop.pc \notin Resting /\ ~Failed(loop) /\ ~Resumed(loop) /\ ~loop.committed
        /\ checkpoint # None
    BY <2>1 DEF Sound, IsSaved, Resting, Failed, Resumed, InTurn, Answering
  <2>5. /\ Paired(All(loop.messages, loop.todo))
        /\ ResultIds(All(loop.messages, loop.todo)) \subseteq loop.used
        /\ Range(loop.todo) \cap settled = {}
    BY <2>4 DEF Sound, Pairs, Uses
  <2>6. Range(Tail(loop.todo)) \subseteq Range(loop.todo)
    BY <2>1, <2>2, TailIds
  <2> HIDE DEF ms
  <2>7. /\ l \in Loops /\ l.pc = "tools" /\ l.messages = ms
        /\ l.used = loop.used /\ l.todo = Tail(loop.todo) /\ l.committed = loop.committed
    BY <2>3, Names, TypeFacts DEF Loops
  <2> HIDE DEF l
  <2>8. l.pc \in InTurn /\ l.pc # "discard" /\ Range(l.todo) \cap settled = {}
    BY <2>5, <2>6, <2>7 DEF InTurn, Answering
  <2>9. Persist(l)
    BY <2>1
  <2> QED  BY <2>3, <2>4, <2>5, <2>7, <2>8, <2>9, Persists
<1>21. CASE ToolHookFails
  <2>1. /\ loop'.messages = loop.messages /\ loop'.used = loop.used /\ loop'.todo = loop.todo
        /\ loop'.committed = loop.committed
    BY <1>21, TypeFacts DEF ToolHookFails, Loops, Fail
  <2>2. loop.pc \in InTurn /\ loop'.pc \in InTurn \union {"finish"}
    BY <1>21, TypeFacts DEF ToolHookFails, Loops, InTurn, Answering, Compacting, Fail
  <2>3. loop'.pc = "finish" /\ loop.todo # <<>> => loop'.err \notin {"none", "canceled"}
    BY <1>21, TypeFacts DEF ToolHookFails, Loops, Shape, Answering, Compacting, Fail
  <2>4. Sound(loop', checkpoint, settled)
    BY <2>1, <2>2, <2>3, Onward
  <2> QED  BY <1>21, <2>4 DEF ToolHookFails, told
<1>22. CASE ToolsDone
  <2>1. /\ loop'.messages = loop.messages /\ loop'.used = loop.used /\ loop'.todo = loop.todo
        /\ loop'.committed = loop.committed
    BY <1>22, TypeFacts DEF ToolsDone, Loops, Goto, Fail
  <2>2. loop.pc \in InTurn /\ loop'.pc \in InTurn \union {"finish"}
    BY <1>22, ToolsDoneIs DEF InTurn, Answering
  <2>3. loop'.pc = "finish" /\ loop.todo # <<>> => loop'.err \notin {"none", "canceled"}
    BY <1>22, TypeFacts DEF ToolsDone, Loops, Shape, Answering, Compacting, Goto, Fail
  <2>4. Sound(loop', checkpoint, settled)
    BY <2>1, <2>2, <2>3, Onward
  <2> QED  BY <1>22, <2>4 DEF ToolsDone, told
<1>23. CASE Commit
  <2>1. /\ loop'.messages = loop.messages /\ loop'.used = loop.used /\ loop'.todo = loop.todo
        /\ loop'.committed = loop.committed
    BY <1>23, TypeFacts DEF Commit, Loops
  <2>2. loop.pc \in InTurn /\ loop'.pc \in InTurn \union {"finish"}
    BY <1>23, TypeFacts DEF Commit, Loops, InTurn, Answering, Compacting
  <2>3. loop'.pc = "finish" /\ loop.todo # <<>> => loop'.err \notin {"none", "canceled"}
    BY <1>23, TypeFacts DEF Commit, Loops, Shape, Answering, Compacting
  <2>4. Sound(loop', checkpoint, settled)
    BY <2>1, <2>2, <2>3, Onward
  <2> QED  BY <1>23, <2>4 DEF Commit, told
<1>24. CASE Mark
  <2> DEFINE l == [loop EXCEPT !.pc = "discard", !.committed = TRUE]
  <2>1. Persist(l) /\ loop.pc = "mark" /\ loop.todo = <<>>
    BY <1>24 DEF Mark, Shape, Answering, Compacting
  <2>2. loop.pc \notin Resting /\ ~Failed(loop) /\ ~Resumed(loop) /\ checkpoint # None
    BY <2>1 DEF Sound, IsSaved, Resting, Failed, Resumed, InTurn
  <2>3. /\ Paired(All(loop.messages, loop.todo))
        /\ ResultIds(All(loop.messages, loop.todo)) \subseteq loop.used
        /\ Range(loop.todo) \cap settled = {}
    BY <2>2 DEF Sound, Pairs, Uses
  <2>4. /\ l \in Loops /\ l.pc = "discard" /\ l.messages = loop.messages
        /\ l.used = loop.used /\ l.todo = loop.todo /\ l.committed = TRUE
    BY Names, TypeFacts DEF Loops
  <2> HIDE DEF l
  <2> QED  BY <2>1, <2>2, <2>3, <2>4, Persists
<1>25. CASE Discard
  <2>1. /\ loop.pc = "discard" /\ loop.todo = <<>>
        /\ DiscardReact([loop EXCEPT !.pc = "finish"], "finish")
    BY <1>25 DEF Discard, Shape, Answering, Compacting
  <2>2. CASE /\ checkpoint' = None /\ settled' = {}
             /\ loop' = [loop EXCEPT !.pc = "finish"]
    <3>1. /\ loop'.messages = loop.messages /\ loop'.used = loop.used /\ loop'.todo = <<>>
          /\ loop'.pc = "finish"
      BY <2>1, <2>2, TypeFacts DEF Loops
    <3>2. loop.messages \in Seq(Messages)
      BY TypeFacts
    <3>3. Sound(loop', None, {})
      BY <2>1, <3>1, <3>2, Discarded
    <3> QED  BY <2>2, <3>3
  <2>3. CASE /\ UNCHANGED <<checkpoint, settled>>
             /\ loop' = [loop EXCEPT !.pc = "finish", !.err = "fatal"]
    <3>1. /\ loop'.messages = loop.messages /\ loop'.used = loop.used /\ loop'.todo = loop.todo
          /\ loop'.committed = loop.committed /\ loop'.pc = "finish" /\ loop'.err = "fatal"
      BY <2>3, TypeFacts DEF Loops
    <3>2. Sound(loop', checkpoint, settled)
      BY <2>1, <3>1, Onward
    <3> QED  BY <2>3, <3>2
  <2> QED  BY <2>1, <2>2, <2>3 DEF DiscardReact
<1>26. CASE Finish
  <2> DEFINE err == IF loop.preempted /\ loop.err = "canceled" THEN "none"
                    ELSE IF ~loop.preempted /\ stopping /\ loop.err = "none" THEN "canceled"
                    ELSE loop.err
             t == TurnOver(loop)
  <2>1. loop.pc = "finish" /\ loop' = [t EXCEPT !.pc = After(err), !.err = err]
    BY <1>26 DEF Finish
  <2>2. /\ t \in Loops /\ t.messages = loop.messages /\ t.used = loop.used /\ t.todo = <<>>
    BY TypeFacts, NoIds DEF TurnOver, Loops
  <2>3. /\ After(err) \in Resting \union {"next"}
        /\ After(err) = "next" => loop.err \in {"none", "canceled"}
    BY DEF After, Resting
  <2> HIDE DEF err, t
  <2>4. /\ loop'.messages = loop.messages /\ loop'.used = loop.used /\ loop'.todo = <<>>
        /\ loop'.pc = After(err)
    BY <2>1, <2>2 DEF Loops
  <2>5. ~Resumed(loop) /\ loop.pc \notin Resting /\ (After(err) = "next" => ~Failed(loop))
    BY <2>1, <2>3 DEF Resumed, Failed, Resting
  <2>6. After(err) = "next" => loop.todo = <<>>
    BY <2>1, <2>5 DEF Sound, Pairs
  <2>7. loop \in Loops
    BY TypeFacts
  <2>8. Sound(loop', checkpoint, settled)
    BY <2>3, <2>4, <2>5, <2>6, <2>7, Typed, Still
  <2> QED  BY <1>26, <2>8 DEF Finish, told
<1>27. CASE ReadMemory
  <2>1. /\ loop'.messages = loop.messages /\ loop'.used = loop.used /\ loop'.todo = loop.todo
        /\ loop'.committed = loop.committed
    BY <1>27, TypeFacts, ZenonT(60) DEF ReadMemory, Loops, Interrupted, Fail
  <2>2. loop.pc \in InTurn /\ loop'.pc \in InTurn \union {"finish"}
    BY <1>27, ReadMemoryIs DEF InTurn, Compacting
  <2>3. loop'.pc = "finish" /\ loop.todo # <<>> => loop'.err \notin {"none", "canceled"}
    BY <1>27, TypeFacts DEF ReadMemory, Loops, Shape, Answering, Compacting, Interrupted,
       Fail
  <2>4. Sound(loop', checkpoint, settled)
    BY <2>1, <2>2, <2>3, Onward
  <2> QED  BY <1>27, <2>4 DEF ReadMemory, told
<1>28. CASE Organize
  <2>1. /\ loop'.messages = loop.messages /\ loop'.used = loop.used /\ loop'.todo = loop.todo
        /\ loop'.committed = loop.committed
    BY <1>28, TypeFacts DEF Organize, Loops, Goto
  <2>2. loop.pc \in InTurn /\ loop'.pc \in InTurn \union {"finish"}
    BY <1>28, TypeFacts DEF Organize, Loops, InTurn, Answering, Compacting, Goto
  <2>3. loop'.pc = "finish" /\ loop.todo # <<>> => loop'.err \notin {"none", "canceled"}
    BY <1>28, TypeFacts DEF Organize, Loops, Shape, Answering, Compacting, Goto
  <2>4. Sound(loop', checkpoint, settled)
    BY <2>1, <2>2, <2>3, Onward
  <2> QED  BY <1>28, <2>4 DEF Organize, told
<1>29. CASE OrganizeFails
  <2>1. /\ loop'.messages = loop.messages /\ loop'.used = loop.used /\ loop'.todo = loop.todo
        /\ loop'.committed = loop.committed
    BY <1>29, TypeFacts DEF OrganizeFails, Loops, Fail, Interrupted
  <2>2. loop.pc \in InTurn /\ loop'.pc \in InTurn \union {"finish"}
    BY <1>29, TypeFacts DEF OrganizeFails, Loops, InTurn, Answering, Compacting, Fail,
       Interrupted
  <2>3. loop'.pc = "finish" /\ loop.todo # <<>> => loop'.err \notin {"none", "canceled"}
    BY <1>29, TypeFacts DEF OrganizeFails, Loops, Shape, Answering, Compacting, Fail,
       Interrupted
  <2>4. Sound(loop', checkpoint, settled)
    BY <2>1, <2>2, <2>3, Onward
  <2> QED  BY <1>29, <2>4 DEF OrganizeFails, told
<1>30. CASE KeepTail
  <2> DEFINE ms == From(loop.messages, loop.drop + 1)
             l == [loop EXCEPT !.pc = loop.back, !.messages = ms,
                               !.drop = 0, !.snap = {}, !.snapRev = 0]
  <2>1. Persist(l) /\ loop.pc = "tail"
    BY <1>30 DEF KeepTail
  <2>2. /\ loop.messages \in Seq(Messages) /\ loop.todo \in Ids /\ loop.drop \in Nat
    BY TypeFacts
  <2>3. /\ loop.back \in {"replied", "assemble", "mark"} /\ loop.drop <= Len(loop.messages)
        /\ \/ loop.drop = 0
           \/ loop.drop = Len(loop.messages) /\ loop.todo = <<>>
           \/ loop.drop < Len(loop.messages) /\ loop.messages[loop.drop + 1].kind # "result"
    BY <2>1 DEF Shape, Compacting
  <2>4. loop.pc \notin Resting /\ ~Failed(loop) /\ ~Resumed(loop) /\ ~loop.committed
        /\ checkpoint # None
    BY <2>1 DEF Sound, IsSaved, Resting, Failed, Resumed, InTurn, Compacting
  <2>5. /\ Paired(All(loop.messages, loop.todo))
        /\ ResultIds(All(loop.messages, loop.todo)) \subseteq loop.used
        /\ Range(loop.todo) \cap settled = {}
    BY <2>4 DEF Sound, Pairs, Uses
  <2>6. ms \in Seq(Messages) /\ Paired(All(ms, loop.todo))
    BY <2>2, <2>3, <2>5, CuttingOpen
  <2>7. ResultIds(All(ms, loop.todo)) \subseteq loop.used
    <3>1. ResultIds(All(ms, loop.todo)) = ResultIds(ms) \union Range(loop.todo)
      BY <2>2, <2>6, OpenIds
    <3>2. ResultIds(All(loop.messages, loop.todo)) = ResultIds(loop.messages) \union Range(loop.todo)
      BY <2>2, OpenIds
    <3>3. ResultIds(ms) \subseteq ResultIds(loop.messages)
      BY <2>2, <2>3, RestIds
    <3> QED  BY <2>5, <3>1, <3>2, <3>3
  <2> HIDE DEF ms
  <2>8. /\ l \in Loops /\ l.pc = loop.back /\ l.messages = ms
        /\ l.used = loop.used /\ l.todo = loop.todo /\ l.committed = loop.committed
    BY <2>6, TypeFacts DEF Loops
  <2> HIDE DEF l
  <2>9. l.pc \in InTurn /\ l.pc # "discard"
    BY <2>3, <2>8 DEF InTurn, Answering
  <2> QED  BY <2>1, <2>4, <2>5, <2>6, <2>7, <2>8, <2>9, Persists
<1>31. CASE Enqueue
  BY <1>31 DEF Enqueue, told
<1>32. CASE Signal
  BY <1>32 DEF Signal, told
<1>33. CASE Preempt
  <2>1. /\ loop'.messages = loop.messages /\ loop'.used = loop.used /\ loop'.todo = loop.todo
        /\ loop'.committed = loop.committed /\ loop'.pc = loop.pc /\ loop'.resume = loop.resume
        /\ loop'.err = loop.err
    BY <1>33, TypeFacts DEF Preempt, Loops
  <2>2. Sound(loop', checkpoint, settled)
    BY <2>1, Aside
  <2> QED  BY <1>33, <2>2 DEF Preempt, told
<1>34. CASE PreemptCancels
  <2>1. /\ loop'.messages = loop.messages /\ loop'.used = loop.used /\ loop'.todo = loop.todo
        /\ loop'.committed = loop.committed /\ loop'.pc = loop.pc /\ loop'.resume = loop.resume
        /\ loop'.err = loop.err
    BY <1>34, TypeFacts DEF PreemptCancels, Loops
  <2>2. Sound(loop', checkpoint, settled)
    BY <2>1, Aside
  <2> QED  BY <1>34, <2>2 DEF PreemptCancels, told
<1>35. CASE Stop
  <2>1. /\ loop'.messages = loop.messages /\ loop'.used = loop.used /\ loop'.todo = loop.todo
        /\ loop'.committed = loop.committed /\ loop'.pc = loop.pc /\ loop'.resume = loop.resume
        /\ loop'.err = loop.err
    BY <1>35, TypeFacts DEF Stop, Loops
  <2>2. Sound(loop', checkpoint, settled)
    BY <2>1, Aside
  <2> QED  BY <1>35, <2>2 DEF Stop, told
<1>36. CASE AppendNode
  BY <1>36 DEF AppendNode, told
<1>37. CASE Crash
  <2>1. /\ loop'.pc = "idle" /\ loop'.messages = <<>> /\ loop'.used = {} /\ loop'.todo = <<>>
        /\ UNCHANGED <<checkpoint, settled>>
    BY <1>37 DEF Crash, Fresh, told
  <2>2. (checkpoint = None => settled = {}) /\ (checkpoint # None => Continues(checkpoint, settled))
    BY DEF Sound, Uses
  <2>3. Sound(loop', checkpoint, settled)
    BY <2>1, <2>2, Empty
  <2> QED  BY <2>1, <2>3
<1>38. CASE UNCHANGED vars
  BY <1>38 DEF vars, told
<1> QED
  BY <1>1, <1>2, <1>3, <1>4, <1>5, <1>6, <1>7, <1>8, <1>9, <1>10, <1>11, <1>12,
     <1>13, <1>14, <1>15, <1>16, <1>17, <1>18, <1>19, <1>20, <1>21, <1>22, <1>23,
     <1>24, <1>25, <1>26, <1>27, <1>28, <1>29, <1>30, <1>31, <1>32, <1>33, <1>34,
     <1>35, <1>36, <1>37, <1>38 DEF Next, Goes, Turn

LEMMA SoundTurns == Spec => []Sound(loop, checkpoint, settled)
<1>1. Init => Sound(loop, checkpoint, settled)
  <2> SUFFICES ASSUME Init PROVE Sound(loop, checkpoint, settled)
    OBVIOUS
  <2>1. /\ loop.pc = "idle" /\ loop.messages = <<>> /\ loop.used = {} /\ loop.todo = <<>>
        /\ checkpoint = None /\ settled = {}
    BY DEF Init, Fresh
  <2> QED  BY <2>1, Empty
<1>2. TypeOK /\ Shape /\ Sound(loop, checkpoint, settled) /\ [Next]_vars
        => Sound(loop, checkpoint, settled)'
  BY SoundStep
<1> QED  BY <1>1, <1>2, Typing, PTL DEF Spec

LEMMA RequestPairs ==
    ASSUME TypeOK, Shape, Sound(loop, checkpoint, settled), loop.pc = "request"
    PROVE  Paired(loop.messages) /\ loop.messages \in Seq(Messages)
<1>1. loop.messages \in Seq(Messages) /\ loop.todo = <<>>
  BY TypeFacts DEF Shape, Answering, Compacting
<1>2. loop.pc \notin Resting /\ ~Failed(loop) /\ ~Resumed(loop)
  BY DEF Resting, Failed, Resumed
<1>3. Paired(All(loop.messages, <<>>))
  BY <1>1, <1>2 DEF Sound, Pairs
<1> QED  BY <1>1, <1>3, AllOfNone

\* What the model is sent can be answered: after every reply with calls come
\* exactly their results, whatever was canceled, failed, compacted, reset or
\* resumed before (unpairedToolCalls and executeToolCalls of the loop).
THEOREM RequestsArePaired == Spec => []RequestsPaired
<1>1. ASSUME TypeOK, Shape, Sound(loop, checkpoint, settled) PROVE RequestsPaired
  <2> SUFFICES ASSUME loop.pc = "request", NEW i \in DOMAIN loop.messages
               PROVE  LET ms == loop.messages
                      IN /\ \A k \in DOMAIN ms[i].calls :
                               i + k \in DOMAIN ms /\ ms[i + k].kind = "result"
                         /\ {ms[i + k].no : k \in DOMAIN ms[i].calls} = Range(ms[i].calls)
                         /\ ms[i].kind = "result" =>
                               \E j \in 1 .. i - 1 : ms[i].no \in Range(ms[j].calls)
    BY DEF RequestsPaired
  <2> DEFINE ms == loop.messages
  <2>1. Paired(ms) /\ ms \in Seq(Messages)
    BY <1>1, RequestPairs
  <2>2. /\ Len(ms) \in Nat /\ DOMAIN ms = 1 .. Len(ms)
        /\ \A j \in 1 .. Len(ms) : DOMAIN ms[j].calls = 1 .. Len(ms[j].calls) /\ ms[j].calls \in Ids
    BY <2>1, Conversations
  <2> HIDE DEF ms
  <2>3. \A j \in DOMAIN ms : \A k \in DOMAIN ms[j].calls :
           /\ j + k \in DOMAIN ms /\ ms[j + k].kind = "result"
           /\ ms[j + k].no = ms[j].calls[k] /\ ms[j].calls[k] \in Range(ms[j].calls)
           /\ j \in Nat \ {0} /\ k \in Nat \ {0}
    <3> SUFFICES ASSUME NEW j \in DOMAIN ms, NEW k \in DOMAIN ms[j].calls
                 PROVE  /\ j + k \in DOMAIN ms /\ ms[j + k].kind = "result"
                        /\ ms[j + k].no = ms[j].calls[k] /\ ms[j].calls[k] \in Range(ms[j].calls)
                        /\ j \in Nat \ {0} /\ k \in Nat \ {0}
      OBVIOUS
    <3>1. j + k \in DOMAIN ms /\ ms[j + k] = Result(ms[j].calls[k])
      BY <2>1 DEF Paired, Answered
    <3>2. j \in Nat \ {0} /\ k \in Nat \ {0}
      BY <2>1, CallsOf
    <3> QED  BY <3>1, <3>2 DEF Result, Range
  <2>4. \A k \in DOMAIN ms[i].calls : i + k \in DOMAIN ms /\ ms[i + k].kind = "result"
    BY <2>3 DEF ms
  <2>5. {ms[i + k].no : k \in DOMAIN ms[i].calls} = Range(ms[i].calls)
    <3>1. {ms[i + k].no : k \in DOMAIN ms[i].calls} = {ms[i].calls[k] : k \in DOMAIN ms[i].calls}
      BY <2>3 DEF ms
    <3> QED  BY <3>1 DEF Range
  <2>6. ASSUME ms[i].kind = "result" PROVE \E j \in 1 .. i - 1 : ms[i].no \in Range(ms[j].calls)
    <3>1. PICK j \in DOMAIN ms : \E k \in DOMAIN ms[j].calls : i = j + k
      BY <2>1, <2>6 DEF Paired, Caused, ms
    <3>2. PICK k \in DOMAIN ms[j].calls : i = j + k
      BY <3>1
    <3>3. ms[i].no \in Range(ms[j].calls) /\ j \in Nat \ {0} /\ k \in Nat \ {0}
      BY <2>3, <3>2
    <3>4. j \in 1 .. i - 1
      BY <3>2, <3>3
    <3> QED  BY <3>3, <3>4
  <2> QED  BY <2>4, <2>5, <2>6 DEF ms
<1> QED  BY <1>1, Typing, SoundTurns, PTL

LEMMA OnlyOpenCalls ==
    ASSUME TypeOK, [Next]_vars
    PROVE  (loop.pc = "tools" /\ loop'.pc = "result" => loop.todo # <<>>)
<1>1. CASE Run
  BY <1>1, TypeFacts DEF Run, Loops, Goto, told
<1>2. ASSUME NEW q \in Queries, Ask(q) PROVE (loop.pc = "tools" /\ loop'.pc = "result" => loop.todo # <<>>)
  BY <1>2, TypeFacts DEF Ask, Loops, told
<1>3. CASE Restore
  BY <1>3, TypeFacts DEF Restore, Loops, Goto, RunTurn, Begun, told
<1>4. CASE ContinueTurn
  BY <1>4, TypeFacts DEF ContinueTurn, Loops, Begun, told
<1>5. CASE FinishCommitted
  BY <1>5, TypeFacts DEF FinishCommitted, Loops, DiscardReact, told
<1>6. CASE Next1
  BY <1>6, TypeFacts DEF Next1, Loops, Goto, RunTurn, Begun, told
<1>7. CASE Woken
  BY <1>7, TypeFacts DEF Woken, Loops, Goto, told
<1>8. CASE NextCanceled
  BY <1>8, TypeFacts DEF NextCanceled, Loops, told
<1>9. CASE Begin
  BY <1>9, TypeFacts DEF Begin, Loops, Persist, told
<1>10. CASE Step
  BY <1>10 DEF Step
<1>11. CASE Assemble
  BY <1>11, TypeFacts DEF Assemble, Loops, Goto, Fail, told
<1>12. CASE Peek
  BY <1>12, TypeFacts DEF Peek, Loops, told
<1>13. CASE CompactBeforeRequest
  BY <1>13, TypeFacts DEF CompactBeforeRequest, Loops, told
<1>14. CASE ResetSession
  BY <1>14, TypeFacts DEF ResetSession, Loops, Persist, told
<1>15. ASSUME NEW ids \in ModelCalls, Generate(ids) PROVE (loop.pc = "tools" /\ loop'.pc = "result" => loop.todo # <<>>)
  BY <1>15, TypeFacts DEF Generate, Loops, Persist, told
<1>16. CASE GenerateFails
  BY <1>16, TypeFacts DEF GenerateFails, Loops, Fail, told
<1>17. CASE Overflow
  BY <1>17, TypeFacts DEF Overflow, Loops, told
<1>18. CASE Replied
  BY <1>18, TypeFacts DEF Replied, Loops, Goto, told
<1>19. CASE Execute
  BY <1>19, TypeFacts DEF Execute, Loops, Goto, told
<1>20. CASE ToolResult
  BY <1>20, TypeFacts DEF ToolResult, Loops, Persist, told
<1>21. CASE ToolHookFails
  BY <1>21, TypeFacts DEF ToolHookFails, Loops, Fail, told
<1>22. CASE ToolsDone
  BY <1>22, TypeFacts DEF ToolsDone, Loops, Goto, Fail, told
<1>23. CASE Commit
  BY <1>23, TypeFacts DEF Commit, Loops, told
<1>24. CASE Mark
  BY <1>24, TypeFacts DEF Mark, Loops, Persist, told
<1>25. CASE Discard
  BY <1>25, TypeFacts DEF Discard, Loops, DiscardReact, told
<1>26. CASE Finish
  BY <1>26, TypeFacts DEF Finish, Loops, TurnOver, After, told
<1>27. CASE ReadMemory
  BY <1>27, TypeFacts DEF ReadMemory, Loops, Interrupted, Fail, told
<1>28. CASE Organize
  BY <1>28, TypeFacts DEF Organize, Loops, Goto, told
<1>29. CASE OrganizeFails
  BY <1>29, TypeFacts DEF OrganizeFails, Loops, Fail, Interrupted, told
<1>30. CASE KeepTail
  BY <1>30, TypeFacts DEF KeepTail, Loops, Persist, told
<1>31. CASE Enqueue
  BY <1>31, TypeFacts DEF Enqueue, Loops, told
<1>32. CASE Signal
  BY <1>32, TypeFacts DEF Signal, Loops, told
<1>33. CASE Preempt
  BY <1>33, TypeFacts DEF Preempt, Loops, told
<1>34. CASE PreemptCancels
  BY <1>34, TypeFacts DEF PreemptCancels, Loops, told
<1>35. CASE Stop
  BY <1>35, TypeFacts DEF Stop, Loops, told
<1>36. CASE AppendNode
  BY <1>36, TypeFacts DEF AppendNode, Loops, told
<1>37. CASE Crash
  BY <1>37, TypeFacts DEF Crash, Loops, Fresh, told
<1>38. CASE UNCHANGED vars
  BY <1>38 DEF vars
<1> QED
  BY <1>1, <1>2, <1>3, <1>4, <1>5, <1>6, <1>7, <1>8, <1>9, <1>10, <1>11, <1>12,
     <1>13, <1>14, <1>15, <1>16, <1>17, <1>18, <1>19, <1>20, <1>21, <1>22, <1>23,
     <1>24, <1>25, <1>26, <1>27, <1>28, <1>29, <1>30, <1>31, <1>32, <1>33, <1>34,
     <1>35, <1>36, <1>37, <1>38 DEF Next, Goes, Turn

\* A tool call whose result was saved is never carried out again, whatever
\* failed, crashed and was resumed since (appendToolResult, unpairedToolCalls).
THEOREM ResultsAreFinal == Spec => ResultsFinal
<1>1. ASSUME TypeOK, Shape, Sound(loop, checkpoint, settled), [Next]_vars
      PROVE  [loop.pc = "tools" /\ loop'.pc = "result" => Head(loop.todo) \notin settled]_vars
  <2> SUFFICES ASSUME loop.pc = "tools", loop'.pc = "result"
               PROVE  Head(loop.todo) \notin settled
    OBVIOUS
  <2>1. loop.todo # <<>> /\ loop.todo \in Ids
    BY <1>1, OnlyOpenCalls, TypeFacts
  <2>2. Head(loop.todo) \in Range(loop.todo)
    <3>1. Head(loop.todo) = loop.todo[1] /\ DOMAIN loop.todo = 1 .. Len(loop.todo)
          /\ Len(loop.todo) \in Nat /\ Len(loop.todo) # 0
      BY <2>1, IdSeqs
    <3> QED  BY <3>1 DEF Range
  <2> QED  BY <1>1, <2>2 DEF Sound, Uses
<1> QED  BY <1>1, Typing, SoundTurns, PTL DEF Spec, ResultsFinal

-----------------------------------------------------------------------------
(* What is remembered *)

\* What was saved is still said while a turn goes on; what a compaction read of
\* the memory is all of it that is the agent's own; what it drops is in memory.
Holds(l, saved, mem) ==
    /\ l.pc \notin Resting /\ ~Failed(l) => saved \subseteq Range(l.messages)
    /\ l.pc = "organize" => Unmanaged(mem) \subseteq l.snap
    /\ l.pc = "tail" => Range(SubSeq(l.messages, 1, l.drop)) \subseteq mem

LEMMA Quietly ==
    ASSUME NEW l, NEW k, NEW saved, NEW mem, Holds(l, saved, mem), k.messages = l.messages,
           k.pc \in Resting \/ Failed(k) \/ (l.pc \notin Resting /\ ~Failed(l)),
           k.pc \notin {"organize", "tail"}
    PROVE  Holds(k, saved, mem)
BY DEF Holds

LEMMA Beside ==
    ASSUME NEW l, NEW k, NEW saved, NEW mem, Holds(l, saved, mem), k.messages = l.messages,
           k.pc = l.pc, k.err = l.err, k.snap = l.snap, k.drop = l.drop
    PROVE  Holds(k, saved, mem)
BY DEF Holds, Failed

LEMMA SavedSame == ASSUME UNCHANGED checkpoint PROVE Saved' = Saved
BY DEF Saved

LEMMA SavesAll ==
    ASSUME TypeOK, NEW l \in Loops, Persist(l), l.pc \notin {"organize", "tail"}, UNCHANGED memory
    PROVE  /\ Holds(loop, Saved, memory)'
           /\ Saved' = Range(l.messages) \/ Saved' = Saved
<1>1. CASE loop' = l /\ checkpoint' = Snapshot(l)
  <2>1. checkpoint' # None /\ checkpoint'.messages = l.messages
    <3>1. Snapshot(l) \in Checkpoints
      BY DEF Snapshot, Checkpoints, Loops
    <3> QED  BY <1>1, <3>1, NoneAssumption DEF Snapshot
  <2>2. Saved' = Range(l.messages)
    BY <2>1 DEF Saved
  <2>3. Holds(loop', Saved', memory')
    BY <1>1, <2>2 DEF Holds
  <2> QED  BY <2>2, <2>3
<1>2. CASE loop' = [l EXCEPT !.pc = "finish", !.err = "fatal"] /\ UNCHANGED checkpoint
  <2>1. loop'.pc = "finish" /\ Failed(loop')
    BY <1>2 DEF Loops, Failed
  <2>2. Holds(loop', Saved', memory')
    BY <2>1 DEF Holds
  <2> QED  BY <1>2, <2>2, SavedSame
<1> QED  BY <1>1, <1>2 DEF Persist

\* Dropping the first messages.
LEMMA Halves ==
    ASSUME NEW ms \in Seq(Messages), NEW d \in Nat, d <= Len(ms), NEW m \in Range(ms)
    PROVE  m \in Range(SubSeq(ms, 1, d)) \/ m \in Range(From(ms, d + 1))
<1>1. Len(ms) \in Nat /\ DOMAIN ms = 1 .. Len(ms)
  BY Conversations
<1>2. PICK i \in 1 .. Len(ms) : m = ms[i]
  BY <1>1 DEF Range
<1>3. CASE i <= d
  <2>1. /\ SubSeq(ms, 1, d) \in Seq(Messages) /\ Len(SubSeq(ms, 1, d)) = d
        /\ \A j \in 1 .. d : SubSeq(ms, 1, d)[j] = ms[j]
    BY FirstOnes
  <2>2. DOMAIN SubSeq(ms, 1, d) = 1 .. d /\ i \in 1 .. d
    BY <1>2, <1>3, <2>1, AsFunction
  <2> QED  BY <1>2, <2>1, <2>2 DEF Range
<1>4. CASE i > d
  <2>1. /\ From(ms, d + 1) \in Seq(Messages) /\ Len(From(ms, d + 1)) = Len(ms) - d
        /\ \A j \in 1 .. Len(ms) - d : From(ms, d + 1)[j] = ms[j + d]
    BY Rest
  <2>2. /\ DOMAIN From(ms, d + 1) = 1 .. Len(ms) - d
        /\ i - d \in 1 .. Len(ms) - d /\ (i - d) + d = i
    BY <1>1, <1>2, <1>4, <2>1, AsFunction
  <2> QED  BY <1>2, <2>1, <2>2 DEF Range
<1> QED  BY <1>1, <1>2, <1>3, <1>4

LEMMA Recorded ==
    ASSUME TypeOK, Shape, Organize
    PROVE  Conversation(SubSeq(loop.messages, 1, loop.drop)) \subseteq Messages
<1>1. loop.drop \in Nat /\ loop.drop <= Len(loop.messages) /\ loop.messages \in Seq(Messages)
  BY TypeFacts DEF Organize, Shape, Compacting
<1>2. SubSeq(loop.messages, 1, loop.drop) \in Seq(Messages)
  BY <1>1, FirstOnes
<1> QED  BY <1>2, Conversations DEF Conversation

LEMMA HoldStep ==
    ASSUME TypeOK, Shape, Sound(loop, checkpoint, settled), Holds(loop, Saved, memory), [Next]_vars
    PROVE  Holds(loop, Saved, memory)'
<1>1. CASE Run
  <2>1. /\ loop'.messages = loop.messages /\ loop'.pc \notin {"organize", "tail"}
        /\ loop'.pc \in Resting \/ (loop.pc \notin Resting /\ loop.pc # "finish")
    BY <1>1, TypeFacts DEF Run, Loops, Resting, Goto
  <2>2. UNCHANGED <<checkpoint, memory>>
    BY <1>1 DEF Run
  <2>3. Holds(loop', Saved, memory)
    BY <2>1, Quietly DEF Failed
  <2> QED  BY <2>2, <2>3, SavedSame
<1>2. ASSUME NEW q \in Queries, Ask(q) PROVE Holds(loop, Saved, memory)'
  <2>1. /\ loop'.messages = loop.messages /\ loop'.pc \notin {"organize", "tail"}
        /\ loop'.pc \in Resting \/ (loop.pc \notin Resting /\ loop.pc # "finish")
    BY <1>2, TypeFacts DEF Ask, Loops, Resting
  <2>2. UNCHANGED <<checkpoint, memory>>
    BY <1>2 DEF Ask
  <2>3. Holds(loop', Saved, memory)
    BY <2>1, Quietly DEF Failed
  <2> QED  BY <2>2, <2>3, SavedSame
<1>3. CASE Restore
  <2>1. UNCHANGED <<checkpoint, memory>> /\ loop.pc = "restore" /\ checkpoint = None
    BY <1>3 DEF Restore
  <2>2. CASE RunTurn(loop.query)
    <3>1. /\ loop'.pc = "begin" /\ loop'.messages = loop.messages
      BY <2>2, TypeFacts, RunTurnBegins
    <3>2. Saved \subseteq Range(loop.messages)
      BY <2>1 DEF Saved, Resting, Failed
    <3>3. Holds(loop', Saved, memory)
      BY <3>1, <3>2 DEF Holds
    <3> QED  BY <2>1, <3>3, SavedSame
  <2>3. CASE loop' = [loop EXCEPT !.pc = "next"]
    <3>1. loop'.pc = "next" /\ Saved = {}
      BY <2>1, <2>3, TypeFacts DEF Loops, Saved
    <3>2. Holds(loop', Saved, memory)
      BY <3>1 DEF Holds
    <3> QED  BY <2>1, <3>2, SavedSame
  <2> QED  BY <1>3, <2>2, <2>3 DEF Restore, Goto
<1>4. CASE ContinueTurn
  <2> DEFINE l == [loop EXCEPT !.messages = checkpoint.messages, !.used = checkpoint.used,
                               !.committed = checkpoint.committed, !.query = checkpoint.query]
  <2>1. checkpoint # None /\ UNCHANGED <<checkpoint, memory>>
    BY <1>4 DEF ContinueTurn
  <2>2. l \in Loops /\ l.query \in 0 .. MaxQueries /\ l.messages = checkpoint.messages
    BY <2>1, TypeFacts, SavedFacts DEF Loops
  <2>3. loop' = [l EXCEPT !.pc = "known"] \/ loop' = Begun(l, l.query, TRUE)
    BY <1>4 DEF ContinueTurn
  <2> HIDE DEF l
  <2>4. loop'.messages = checkpoint.messages /\ loop'.pc \in {"known", "begin"}
    BY <2>2, <2>3, TurnBegins DEF Loops
  <2>5. Holds(loop', Saved, memory)
    BY <2>1, <2>4 DEF Holds, Saved
  <2> QED  BY <2>1, <2>5, SavedSame
<1>5. CASE FinishCommitted
  <2> DEFINE l == [loop EXCEPT !.pc = IF Queued(kind) THEN "next" ELSE "returned",
                               !.answer = LastReply(loop.messages)]
             failed == IF Queued(kind) THEN "stopped" ELSE "returned"
  <2>1. DiscardReact(l, failed) /\ UNCHANGED memory
    BY <1>5 DEF FinishCommitted
  <2>2. /\ l.pc \in {"next", "returned", "finish"} /\ failed \in {"stopped", "returned", "finish"}
    BY TypeFacts DEF Loops
  <2> HIDE DEF l, failed
  <2>3. CASE checkpoint' = None /\ loop' = l
    <3>1. Saved' = {} /\ loop'.pc \notin {"organize", "tail"}
      BY <2>2, <2>3 DEF Saved
    <3> QED  BY <2>1, <3>1 DEF Holds
  <2>4. CASE UNCHANGED checkpoint /\ loop' = [loop EXCEPT !.pc = failed, !.err = "fatal"]
    <3>1. loop'.pc = failed /\ loop'.err = "fatal"
      BY <2>4, TypeFacts DEF Loops
    <3>2. (loop'.pc \in Resting \/ Failed(loop')) /\ loop'.pc \notin {"organize", "tail"}
      BY <2>2, <3>1 DEF Resting, Failed
    <3>3. Holds(loop', Saved, memory)
      BY <3>2 DEF Holds
    <3> QED  BY <2>1, <2>4, <3>3, SavedSame
  <2> QED  BY <2>1, <2>3, <2>4 DEF DiscardReact
<1>6. CASE Next1
  <2>1. UNCHANGED <<checkpoint, memory>> /\ loop.pc = "next"
    BY <1>6 DEF Next1
  <2>2. CASE queue # <<>> /\ RunTurn(Head(queue))
    <3>1. /\ loop'.pc = "begin" /\ loop'.messages = loop.messages
      <4>1. Head(queue) \in 0 .. MaxQueries
        BY <2>2, QueryNumbers DEF TypeOK
      <4> QED  BY <2>2, <4>1, RunTurnBegins
    <3>2. Saved \subseteq Range(loop.messages)
      BY <2>1 DEF Holds, Resting, Failed
    <3>3. Holds(loop', Saved, memory)
      BY <3>1, <3>2 DEF Holds
    <3> QED  BY <2>1, <3>3, SavedSame
  <2>3. CASE loop' = [loop EXCEPT !.pc = "wait"]
    <3>1. loop'.pc = "wait" /\ loop'.messages = loop.messages
      BY <2>3, TypeFacts DEF Loops
    <3>2. Holds(loop', Saved, memory)
      BY <2>1, <3>1, Quietly DEF Resting, Failed
    <3> QED  BY <2>1, <3>2, SavedSame
  <2> QED  BY <1>6, <2>2, <2>3 DEF Next1, Goto
<1>7. CASE Woken
  <2>1. /\ loop'.messages = loop.messages /\ loop'.pc \notin {"organize", "tail"}
        /\ loop'.pc \in Resting \/ (loop.pc \notin Resting /\ loop.pc # "finish")
    BY <1>7, TypeFacts DEF Woken, Loops, Resting, Goto
  <2>2. UNCHANGED <<checkpoint, memory>>
    BY <1>7 DEF Woken
  <2>3. Holds(loop', Saved, memory)
    BY <2>1, Quietly DEF Failed
  <2> QED  BY <2>2, <2>3, SavedSame
<1>8. CASE NextCanceled
  <2>1. /\ loop'.messages = loop.messages /\ loop'.pc \notin {"organize", "tail"}
        /\ loop'.pc \in Resting \/ (loop.pc \notin Resting /\ loop.pc # "finish")
    BY <1>8, TypeFacts DEF NextCanceled, Loops, Resting
  <2>2. UNCHANGED <<checkpoint, memory>>
    BY <1>8 DEF NextCanceled
  <2>3. Holds(loop', Saved, memory)
    BY <2>1, Quietly DEF Failed
  <2> QED  BY <2>2, <2>3, SavedSame
<1>9. CASE Begin
  <2>0. UNCHANGED memory /\ loop.pc = "begin"
    BY <1>9 DEF Begin
  <2>1. CASE loop.resume
    <3>1. loop'.messages = loop.messages /\ loop'.pc \in {"tools", "commit", "step"}
          /\ UNCHANGED checkpoint
      BY <1>9, <2>1, TypeFacts DEF Begin, Loops
    <3>2. Holds(loop', Saved, memory)
      BY <2>0, <3>1, Quietly DEF Resting, Failed
    <3> QED  BY <2>0, <3>1, <3>2, SavedSame
  <2>2. CASE ~loop.resume
    <3> DEFINE l == [loop EXCEPT !.pc = "step", !.messages = Append(@, User(loop.query))]
    <3>1. Persist(l)
      BY <1>9, <2>2 DEF Begin
    <3>2. Append(loop.messages, User(loop.query)) \in Seq(Messages)
      BY TypeFacts, Said, Spoken
    <3>3. l \in Loops /\ l.pc = "step"
      BY <3>2, Names, TypeFacts DEF Loops
    <3> HIDE DEF l
    <3> QED  BY <2>0, <3>1, <3>3, SavesAll
  <2> QED  BY <2>1, <2>2
<1>10. CASE Step
  <2>1. /\ loop'.messages = loop.messages /\ loop'.pc \notin {"organize", "tail"}
        /\ loop'.pc \in Resting \/ (loop.pc \notin Resting /\ loop.pc # "finish")
    BY <1>10, StepIs DEF OnlyMoves, Resting
  <2>2. UNCHANGED <<checkpoint, memory>>
    BY <1>10 DEF Step
  <2>3. Holds(loop', Saved, memory)
    BY <2>1, Quietly DEF Failed
  <2> QED  BY <2>2, <2>3, SavedSame
<1>11. CASE Assemble
  <2>1. /\ loop'.messages = loop.messages /\ loop'.pc \notin {"organize", "tail"}
        /\ loop'.pc \in Resting \/ (loop.pc \notin Resting /\ loop.pc # "finish")
    BY <1>11, AssembleIs DEF OnlyMoves, Resting
  <2>2. UNCHANGED <<checkpoint, memory>>
    BY <1>11 DEF Assemble
  <2>3. Holds(loop', Saved, memory)
    BY <2>1, Quietly DEF Failed
  <2> QED  BY <2>2, <2>3, SavedSame
<1>12. CASE Peek
  <2>1. /\ loop'.messages = loop.messages /\ loop'.pc \notin {"organize", "tail"}
        /\ loop'.pc \in Resting \/ (loop.pc \notin Resting /\ loop.pc # "finish")
    BY <1>12, TypeFacts DEF Peek, Loops, Resting
  <2>2. UNCHANGED <<checkpoint, memory>>
    BY <1>12 DEF Peek
  <2>3. Holds(loop', Saved, memory)
    BY <2>1, Quietly DEF Failed
  <2> QED  BY <2>2, <2>3, SavedSame
<1>13. CASE CompactBeforeRequest
  <2>1. /\ loop'.messages = loop.messages /\ loop'.pc \notin {"organize", "tail"}
        /\ loop'.pc \in Resting \/ (loop.pc \notin Resting /\ loop.pc # "finish")
    BY <1>13, TypeFacts DEF CompactBeforeRequest, Loops, Resting
  <2>2. UNCHANGED <<checkpoint, memory>>
    BY <1>13 DEF CompactBeforeRequest
  <2>3. Holds(loop', Saved, memory)
    BY <2>1, Quietly DEF Failed
  <2> QED  BY <2>2, <2>3, SavedSame
<1>14. CASE ResetSession
  <2> DEFINE l == [loop EXCEPT !.pc = "assemble", !.packed = TRUE,
                               !.messages = <<Handoff>> \o From(@, TurnStart(loop.messages))]
  <2>1. Persist(l) /\ UNCHANGED memory
    BY <1>14 DEF ResetSession
  <2>2. l \in Loops
    <3> DEFINE start == TurnStart(loop.messages)
    <3>1. start - 1 \in Nat /\ start - 1 < Len(loop.messages) /\ start = (start - 1) + 1
      BY <1>14, TypeFacts, TurnStarts DEF ResetSession
    <3> HIDE DEF start
    <3>2. start - 1 <= Len(loop.messages)
      BY <3>1, TypeFacts
    <3>3. From(loop.messages, start) \in Seq(Messages)
      BY <3>1, <3>2, TypeFacts, Rest
    <3>4. <<Handoff>> \o From(loop.messages, start) \in Seq(Messages)
      BY <3>3, Said, Headed
    <3> QED  BY <3>4, Names, TypeFacts DEF Loops, start
  <2>3. l.pc \notin {"organize", "tail"}
    BY TypeFacts DEF Loops
  <2> HIDE DEF l
  <2> QED  BY <2>1, <2>2, <2>3, SavesAll
<1>15. ASSUME NEW ids \in ModelCalls, Generate(ids) PROVE Holds(loop, Saved, memory)'
  <2> DEFINE reply == Reply(replies + 1, ids)
             s == [loop EXCEPT !.steps = @ + 1]
             l == [s EXCEPT !.pc = "after", !.used = @ \union Range(ids), !.todo = ids,
                            !.messages = Append(@, reply)]
  <2>1. ids \in Ids /\ Range(ids) \subseteq CallIds /\ replies + 1 \in 1 .. MaxReplies
        /\ loop.steps + 1 \in 0 .. MaxSteps
    <3>1. replies + 1 \in 1 .. MaxReplies
      BY <1>15, Bounds, SMTT(30) DEF Generate, TypeOK
    <3>2. loop.steps + 1 \in 0 .. MaxSteps
      BY <1>15, Bounds, TypeFacts DEF Generate, Shape
    <3>3. ids \in Ids
      BY <1>15, TypeFacts, Bounds, CallSeqs DEF ModelCalls
    <3> QED  BY <3>1, <3>2, <3>3, IdSeqs, RangeType
  <2>2. \/ /\ loop' = [s EXCEPT !.pc = "finish", !.err = "fatal"]
           /\ UNCHANGED checkpoint
        \/ Persist(l)
    BY <1>15 DEF Generate
  <2>3. reply \in Messages /\ Append(loop.messages, reply) \in Seq(Messages)
    BY <2>1, TypeFacts, Said, Spoken
  <2>4. s \in Loops /\ s.messages = loop.messages
    BY <2>1, TypeFacts DEF Loops
  <2> HIDE DEF reply, s
  <2>5. l \in Loops /\ l.pc = "after" /\ l.messages = Append(loop.messages, reply)
    BY <2>1, <2>3, <2>4, Names DEF Loops
  <2> HIDE DEF l
  <2>6. UNCHANGED memory
    BY <1>15 DEF Generate
  <2>7. CASE /\ loop' = [s EXCEPT !.pc = "finish", !.err = "fatal"]
             /\ UNCHANGED checkpoint
    <3>1. Failed(loop') /\ loop'.pc = "finish"
      BY <2>4, <2>7 DEF Loops, Failed
    <3>2. Holds(loop', Saved, memory)
      BY <3>1 DEF Holds
    <3> QED  BY <2>6, <2>7, <3>2, SavedSame
  <2>8. CASE Persist(l)
    BY <2>5, <2>6, <2>8, SavesAll
  <2> QED  BY <2>2, <2>7, <2>8
<1>16. CASE GenerateFails
  <2>1. /\ loop'.messages = loop.messages /\ loop'.pc \notin {"organize", "tail"}
        /\ loop'.pc \in Resting \/ (loop.pc \notin Resting /\ loop.pc # "finish")
    BY <1>16, TypeFacts DEF GenerateFails, Loops, Resting, Fail
  <2>2. UNCHANGED <<checkpoint, memory>>
    BY <1>16 DEF GenerateFails
  <2>3. Holds(loop', Saved, memory)
    BY <2>1, Quietly DEF Failed
  <2> QED  BY <2>2, <2>3, SavedSame
<1>17. CASE Overflow
  <2>1. /\ loop'.messages = loop.messages /\ loop'.pc \notin {"organize", "tail"}
        /\ loop'.pc \in Resting \/ (loop.pc \notin Resting /\ loop.pc # "finish")
    BY <1>17, TypeFacts DEF Overflow, Loops, Resting
  <2>2. UNCHANGED <<checkpoint, memory>>
    BY <1>17 DEF Overflow
  <2>3. Holds(loop', Saved, memory)
    BY <2>1, Quietly DEF Failed
  <2> QED  BY <2>2, <2>3, SavedSame
<1>18. CASE Replied
  <2>1. /\ loop'.messages = loop.messages /\ loop'.pc \notin {"organize", "tail"}
        /\ loop'.pc \in Resting \/ (loop.pc \notin Resting /\ loop.pc # "finish")
    BY <1>18, TypeFacts DEF Replied, Loops, Resting, Goto
  <2>2. UNCHANGED <<checkpoint, memory>>
    BY <1>18 DEF Replied
  <2>3. Holds(loop', Saved, memory)
    BY <2>1, Quietly DEF Failed
  <2> QED  BY <2>2, <2>3, SavedSame
<1>19. CASE Execute
  <2>1. /\ loop'.messages = loop.messages /\ loop'.pc \notin {"organize", "tail"}
        /\ loop'.pc \in Resting \/ (loop.pc \notin Resting /\ loop.pc # "finish")
    BY <1>19, TypeFacts DEF Execute, Loops, Resting, Goto
  <2>2. UNCHANGED <<checkpoint, memory>>
    BY <1>19 DEF Execute
  <2>3. Holds(loop', Saved, memory)
    BY <2>1, Quietly DEF Failed
  <2> QED  BY <2>2, <2>3, SavedSame
<1>20. CASE ToolResult
  <2> DEFINE l == [loop EXCEPT !.pc = "tools", !.todo = Tail(@),
                               !.messages = Append(@, Result(Head(loop.todo)))]
  <2>1. Persist(l) /\ UNCHANGED memory
    BY <1>20 DEF ToolResult
  <2>2. l \in Loops
    <3>1. loop.todo # <<>>
      BY <1>20 DEF ToolResult, Shape
    <3> QED  BY <3>1, Names, TypeFacts, NextResult DEF Loops
  <2>3. l.pc \notin {"organize", "tail"}
    BY TypeFacts DEF Loops
  <2> HIDE DEF l
  <2> QED  BY <2>1, <2>2, <2>3, SavesAll
<1>21. CASE ToolHookFails
  <2>1. /\ loop'.messages = loop.messages /\ loop'.pc \notin {"organize", "tail"}
        /\ loop'.pc \in Resting \/ (loop.pc \notin Resting /\ loop.pc # "finish")
    BY <1>21, TypeFacts DEF ToolHookFails, Loops, Resting, Fail
  <2>2. UNCHANGED <<checkpoint, memory>>
    BY <1>21 DEF ToolHookFails
  <2>3. Holds(loop', Saved, memory)
    BY <2>1, Quietly DEF Failed
  <2> QED  BY <2>2, <2>3, SavedSame
<1>22. CASE ToolsDone
  <2>1. /\ loop'.messages = loop.messages /\ loop'.pc \notin {"organize", "tail"}
        /\ loop'.pc \in Resting \/ (loop.pc \notin Resting /\ loop.pc # "finish")
    BY <1>22, TypeFacts DEF ToolsDone, Loops, Resting, Goto, Fail
  <2>2. UNCHANGED <<checkpoint, memory>>
    BY <1>22 DEF ToolsDone
  <2>3. Holds(loop', Saved, memory)
    BY <2>1, Quietly DEF Failed
  <2> QED  BY <2>2, <2>3, SavedSame
<1>23. CASE Commit
  <2>1. /\ loop'.messages = loop.messages /\ loop'.pc \notin {"organize", "tail"}
        /\ loop'.pc \in Resting \/ (loop.pc \notin Resting /\ loop.pc # "finish")
    BY <1>23, TypeFacts DEF Commit, Loops, Resting
  <2>2. UNCHANGED <<checkpoint, memory>>
    BY <1>23 DEF Commit
  <2>3. Holds(loop', Saved, memory)
    BY <2>1, Quietly DEF Failed
  <2> QED  BY <2>2, <2>3, SavedSame
<1>24. CASE Mark
  <2> DEFINE l == [loop EXCEPT !.pc = "discard", !.committed = TRUE]
  <2>1. Persist(l) /\ UNCHANGED memory
    BY <1>24 DEF Mark
  <2>2. l \in Loops
    BY Names, TypeFacts DEF Loops
  <2>3. l.pc \notin {"organize", "tail"}
    BY TypeFacts DEF Loops
  <2> HIDE DEF l
  <2> QED  BY <2>1, <2>2, <2>3, SavesAll
<1>25. CASE Discard
  <2> DEFINE l == [loop EXCEPT !.pc = "finish"]
             failed == "finish"
  <2>1. DiscardReact(l, failed) /\ UNCHANGED memory
    BY <1>25 DEF Discard
  <2>2. /\ l.pc \in {"next", "returned", "finish"} /\ failed \in {"stopped", "returned", "finish"}
    BY TypeFacts DEF Loops
  <2> HIDE DEF l, failed
  <2>3. CASE checkpoint' = None /\ loop' = l
    <3>1. Saved' = {} /\ loop'.pc \notin {"organize", "tail"}
      BY <2>2, <2>3 DEF Saved
    <3> QED  BY <2>1, <3>1 DEF Holds
  <2>4. CASE UNCHANGED checkpoint /\ loop' = [loop EXCEPT !.pc = failed, !.err = "fatal"]
    <3>1. loop'.pc = failed /\ loop'.err = "fatal"
      BY <2>4, TypeFacts DEF Loops
    <3>2. (loop'.pc \in Resting \/ Failed(loop')) /\ loop'.pc \notin {"organize", "tail"}
      BY <2>2, <3>1 DEF Resting, Failed
    <3>3. Holds(loop', Saved, memory)
      BY <3>2 DEF Holds
    <3> QED  BY <2>1, <2>4, <3>3, SavedSame
  <2> QED  BY <2>1, <2>3, <2>4 DEF DiscardReact
<1>26. CASE Finish
  <2> DEFINE err == IF loop.preempted /\ loop.err = "canceled" THEN "none"
                    ELSE IF ~loop.preempted /\ stopping /\ loop.err = "none" THEN "canceled"
                    ELSE loop.err
             t == TurnOver(loop)
  <2>1. loop.pc = "finish" /\ loop' = [t EXCEPT !.pc = After(err), !.err = err]
        /\ UNCHANGED <<checkpoint, memory>>
    BY <1>26 DEF Finish
  <2>2. t \in Loops /\ t.messages = loop.messages
    BY TypeFacts, NoIds DEF TurnOver, Loops
  <2>3. /\ After(err) \in Resting \union {"next"}
        /\ After(err) = "next" => loop.err \in {"none", "canceled"}
    BY DEF After, Resting
  <2> HIDE DEF err, t
  <2>4. /\ loop'.messages = loop.messages /\ loop'.pc = After(err)
    BY <2>1, <2>2 DEF Loops
  <2>5. loop.pc \notin Resting /\ (After(err) = "next" => ~Failed(loop))
    BY <2>1, <2>3 DEF Failed, Resting
  <2>6. loop'.pc \in Resting \/ (loop.pc \notin Resting /\ ~Failed(loop))
    BY <2>3, <2>4, <2>5
  <2>7. loop'.pc \notin {"organize", "tail"}
    BY <2>3, <2>4 DEF Resting
  <2>8. Holds(loop', Saved, memory)
    BY <2>4, <2>6, <2>7, Quietly
  <2> QED  BY <2>1, <2>8, SavedSame
<1>27. CASE ReadMemory
  <2>1. /\ UNCHANGED <<checkpoint, memory>> /\ loop.pc = "compact"
        /\ \/ loop' = [loop EXCEPT !.pc = "organize", !.snap = memory, !.snapRev = revision]
           \/ loop' = [loop EXCEPT !.pc = "finish", !.err = "lifecycle"]
           \/ loop' = [loop EXCEPT !.pc = "finish", !.err = "canceled"]
    BY <1>27 DEF ReadMemory, Fail, Interrupted
  <2>2. /\ loop'.messages = loop.messages
        /\ loop'.pc = "finish" \/ (loop'.pc = "organize" /\ loop'.snap = memory)
    BY <2>1, TypeFacts DEF Loops
  <2>3. Saved \subseteq Range(loop.messages)
    BY <2>1 DEF Holds, Resting, Failed
  <2>4. Unmanaged(memory) \subseteq memory
    BY DEF Unmanaged
  <2>5. Holds(loop', Saved, memory)
    BY <2>2, <2>3, <2>4 DEF Holds
  <2> QED  BY <2>1, <2>5, SavedSame
<1>28. CASE Organize
  <2>1. /\ UNCHANGED checkpoint /\ loop.pc = "organize" /\ loop' = [loop EXCEPT !.pc = "tail"]
        /\ Compacted(Conversation(SubSeq(loop.messages, 1, loop.drop)))
    BY <1>28 DEF Organize, Goto
  <2>2. loop'.messages = loop.messages /\ loop'.pc = "tail" /\ loop'.drop = loop.drop
    BY <2>1, TypeFacts DEF Loops
  <2>3. Saved \subseteq Range(loop.messages)
    BY <2>1 DEF Holds, Resting, Failed
  <2> DEFINE new == Conversation(SubSeq(loop.messages, 1, loop.drop))
  <2>4. new \subseteq Messages
    BY <1>28, Recorded
  <2>5. new \subseteq memory'
    <3>1. \A m \in new : m.kind # "managed"
      BY <2>4, MessageKinds
    <3>2. memory' = Unmanaged(loop.snap \union new) \union (memory \ Unmanaged(memory))
      BY <2>1 DEF Compacted, SaveMemory
    <3> HIDE DEF new
    <3> QED  BY <3>1, <3>2 DEF Unmanaged
  <2>6. Range(SubSeq(loop.messages, 1, loop.drop)) \subseteq memory'
    BY <2>5 DEF Conversation
  <2>7. Holds(loop', Saved, memory')
    BY <2>2, <2>3, <2>6 DEF Holds
  <2> QED  BY <2>1, <2>7, SavedSame
<1>29. CASE OrganizeFails
  <2>1. /\ loop'.messages = loop.messages /\ loop'.pc \notin {"organize", "tail"}
        /\ loop'.pc \in Resting \/ (loop.pc \notin Resting /\ loop.pc # "finish")
    BY <1>29, TypeFacts DEF OrganizeFails, Loops, Resting, Fail, Interrupted
  <2>2. UNCHANGED <<checkpoint, memory>>
    BY <1>29 DEF OrganizeFails
  <2>3. Holds(loop', Saved, memory)
    BY <2>1, Quietly DEF Failed
  <2> QED  BY <2>2, <2>3, SavedSame
<1>30. CASE KeepTail
  <2> DEFINE l == [loop EXCEPT !.pc = loop.back, !.messages = From(@, loop.drop + 1),
                               !.drop = 0, !.snap = {}, !.snapRev = 0]
  <2>1. Persist(l) /\ UNCHANGED memory
    BY <1>30 DEF KeepTail
  <2>2. l \in Loops
    <3>1. loop.drop <= Len(loop.messages) /\ loop.drop \in Nat
      BY <1>30, TypeFacts DEF KeepTail, Shape, Compacting
    <3>2. From(loop.messages, loop.drop + 1) \in Seq(Messages)
      BY <3>1, TypeFacts, Rest
    <3> QED  BY <3>2, TypeFacts DEF Loops
  <2>3. l.pc \notin {"organize", "tail"}
    <3>1. l.pc = loop.back
      BY TypeFacts DEF Loops
    <3>2. loop.back \in {"replied", "assemble", "mark"}
      BY <1>30 DEF KeepTail, Shape, Compacting
    <3> QED  BY <3>1, <3>2
  <2> HIDE DEF l
  <2> QED  BY <2>1, <2>2, <2>3, SavesAll
<1>31. CASE Enqueue
  BY <1>31, SavedSame DEF Enqueue, told
<1>32. CASE Signal
  BY <1>32, SavedSame DEF Signal, told
<1>33. CASE Preempt
  <2>1. /\ loop'.messages = loop.messages /\ loop'.pc = loop.pc /\ loop'.err = loop.err
        /\ loop'.snap = loop.snap /\ loop'.drop = loop.drop
    BY <1>33, TypeFacts DEF Preempt, Loops
  <2>2. UNCHANGED <<checkpoint, memory>>
    BY <1>33 DEF Preempt
  <2>3. Holds(loop', Saved, memory)
    BY <2>1, Beside
  <2> QED  BY <2>2, <2>3, SavedSame
<1>34. CASE PreemptCancels
  <2>1. /\ loop'.messages = loop.messages /\ loop'.pc = loop.pc /\ loop'.err = loop.err
        /\ loop'.snap = loop.snap /\ loop'.drop = loop.drop
    BY <1>34, TypeFacts DEF PreemptCancels, Loops
  <2>2. UNCHANGED <<checkpoint, memory>>
    BY <1>34 DEF PreemptCancels
  <2>3. Holds(loop', Saved, memory)
    BY <2>1, Beside
  <2> QED  BY <2>2, <2>3, SavedSame
<1>35. CASE Stop
  <2>1. /\ loop'.messages = loop.messages /\ loop'.pc = loop.pc /\ loop'.err = loop.err
        /\ loop'.snap = loop.snap /\ loop'.drop = loop.drop
    BY <1>35, TypeFacts DEF Stop, Loops
  <2>2. UNCHANGED <<checkpoint, memory>>
    BY <1>35 DEF Stop
  <2>3. Holds(loop', Saved, memory)
    BY <2>1, Beside
  <2> QED  BY <2>2, <2>3, SavedSame
<1>36. CASE AppendNode
  <2>1. UNCHANGED <<loop, checkpoint>> /\ memory \subseteq memory'
        /\ memory' = memory \union {Managed(appends + 1)}
    BY <1>36 DEF AppendNode
  <2>2. Unmanaged(memory') = Unmanaged(memory)
    BY <2>1 DEF Unmanaged, Managed
  <2> QED  BY <2>1, <2>2, SavedSame DEF Holds
<1>37. CASE Crash
  <2>1. loop'.pc = "idle" /\ UNCHANGED <<checkpoint, memory>>
    BY <1>37 DEF Crash, Fresh
  <2>2. Holds(loop', Saved, memory)
    BY <2>1 DEF Holds, Resting
  <2> QED  BY <2>1, <2>2, SavedSame
<1>38. CASE UNCHANGED vars
  BY <1>38, SavedSame DEF vars
<1> QED
  BY <1>1, <1>2, <1>3, <1>4, <1>5, <1>6, <1>7, <1>8, <1>9, <1>10, <1>11, <1>12,
     <1>13, <1>14, <1>15, <1>16, <1>17, <1>18, <1>19, <1>20, <1>21, <1>22, <1>23,
     <1>24, <1>25, <1>26, <1>27, <1>28, <1>29, <1>30, <1>31, <1>32, <1>33, <1>34,
     <1>35, <1>36, <1>37, <1>38 DEF Next, Goes, Turn

Keeps ==
    /\ memory \subseteq memory'
    /\ \A m \in Saved :
          \/ m \in Saved' \union memory'
          \/ checkpoint' = None /\ checkpoint.committed
          \/ kind = "organizer" /\ checkpoint' # None

LEMMA Unchanging == ASSUME UNCHANGED checkpoint, memory \subseteq memory' PROVE Keeps
BY SavedSame DEF Keeps

LEMMA Extends ==
    ASSUME TypeOK, NEW l \in Loops, Persist(l), l.pc \notin {"organize", "tail"}, UNCHANGED memory,
           Range(loop.messages) \subseteq Range(l.messages) \union memory,
           Saved \subseteq Range(loop.messages)
    PROVE  Keeps
<1>1. Saved' = Range(l.messages) \/ Saved' = Saved
  BY SavesAll
<1> QED  BY <1>1 DEF Keeps

LEMMA KeepStep ==
    ASSUME TypeOK, Shape, Sound(loop, checkpoint, settled), Holds(loop, Saved, memory), [Next]_vars
    PROVE  Keeps
<1>1. CASE Run
  BY <1>1, Unchanging DEF Run, told
<1>2. ASSUME NEW q \in Queries, Ask(q) PROVE Keeps
  BY <1>2, Unchanging DEF Ask, told
<1>3. CASE Restore
  BY <1>3, Unchanging DEF Restore, told
<1>4. CASE ContinueTurn
  BY <1>4, Unchanging DEF ContinueTurn, told
<1>5. CASE FinishCommitted
  <2>1. checkpoint # None /\ checkpoint.committed /\ UNCHANGED memory
    BY <1>5 DEF FinishCommitted, Sound, IsSaved
  <2>2. checkpoint' = None \/ UNCHANGED checkpoint
    BY <1>5 DEF FinishCommitted, DiscardReact
  <2> QED  BY <2>1, <2>2, SavedSame DEF Keeps
<1>6. CASE Next1
  BY <1>6, Unchanging DEF Next1, told
<1>7. CASE Woken
  BY <1>7, Unchanging DEF Woken, told
<1>8. CASE NextCanceled
  BY <1>8, Unchanging DEF NextCanceled, told
<1>9. CASE Begin
  <2>0. UNCHANGED memory /\ loop.pc = "begin"
    BY <1>9 DEF Begin
  <2>1. CASE loop.resume
    BY <1>9, <2>1, Unchanging DEF Begin
  <2>2. CASE ~loop.resume
    <3> DEFINE l == [loop EXCEPT !.pc = "step", !.messages = Append(@, User(loop.query))]
    <3>1. Persist(l)
      BY <1>9, <2>2 DEF Begin
    <3>2. /\ User(loop.query) \in Messages /\ loop.messages \in Seq(Messages)
          /\ Append(loop.messages, User(loop.query)) \in Seq(Messages)
      BY TypeFacts, Said, Spoken
    <3>3. l \in Loops /\ l.pc = "step" /\ l.messages = Append(loop.messages, User(loop.query))
      BY <3>2, Names, TypeFacts DEF Loops
    <3>4. Range(Append(loop.messages, User(loop.query))) = Range(loop.messages) \union {User(loop.query)}
      BY <3>2, Longer
    <3>5. Saved \subseteq Range(loop.messages)
      BY <2>0 DEF Holds, Resting, Failed
    <3> HIDE DEF l
    <3> QED  BY <2>0, <3>1, <3>3, <3>4, <3>5, Extends
  <2> QED  BY <2>1, <2>2
<1>10. CASE Step
  BY <1>10, Unchanging DEF Step, told
<1>11. CASE Assemble
  BY <1>11, Unchanging DEF Assemble, told
<1>12. CASE Peek
  BY <1>12, Unchanging DEF Peek, told
<1>13. CASE CompactBeforeRequest
  BY <1>13, Unchanging DEF CompactBeforeRequest, told
<1>14. CASE ResetSession
  <2>1. kind = "organizer" /\ UNCHANGED memory /\ loop.pc = "request"
    BY <1>14 DEF ResetSession, Overflows
  <2>2. checkpoint # None
    BY <2>1 DEF Sound, IsSaved, InTurn
  <2>3. checkpoint' # None
    <3> DEFINE l == [loop EXCEPT !.pc = "assemble", !.packed = TRUE,
                               !.messages = <<Handoff>> \o From(@, TurnStart(loop.messages))]
    <3>1. Persist(l)
      BY <1>14 DEF ResetSession
    <3>2. l \in Loops
      <4> DEFINE start == TurnStart(loop.messages)
      <4>1. start - 1 \in Nat /\ start - 1 < Len(loop.messages) /\ start = (start - 1) + 1
        BY <1>14, TypeFacts, TurnStarts DEF ResetSession
      <4> HIDE DEF start
      <4>2. start - 1 <= Len(loop.messages)
        BY <4>1, TypeFacts
      <4>3. From(loop.messages, start) \in Seq(Messages)
        BY <4>1, <4>2, TypeFacts, Rest
      <4>4. <<Handoff>> \o From(loop.messages, start) \in Seq(Messages)
        BY <4>3, Said, Headed
      <4> QED  BY <4>4, Names, TypeFacts DEF Loops, start
    <3> HIDE DEF l
    <3>3. Snapshot(l) # None
      <4>1. Snapshot(l) \in Checkpoints
        BY <3>2 DEF Snapshot, Checkpoints, Loops
      <4> QED  BY <4>1, NoneAssumption
    <3> QED  BY <2>2, <3>1, <3>3 DEF Persist
  <2> QED  BY <2>1, <2>3 DEF Keeps
<1>15. ASSUME NEW ids \in ModelCalls, Generate(ids) PROVE Keeps
  <2> DEFINE reply == Reply(replies + 1, ids)
             s == [loop EXCEPT !.steps = @ + 1]
             l == [s EXCEPT !.pc = "after", !.used = @ \union Range(ids), !.todo = ids,
                            !.messages = Append(@, reply)]
  <2>1. ids \in Ids /\ Range(ids) \subseteq CallIds /\ replies + 1 \in 1 .. MaxReplies
        /\ loop.steps + 1 \in 0 .. MaxSteps
    <3>1. replies + 1 \in 1 .. MaxReplies
      BY <1>15, Bounds, SMTT(30) DEF Generate, TypeOK
    <3>2. loop.steps + 1 \in 0 .. MaxSteps
      BY <1>15, Bounds, TypeFacts DEF Generate, Shape
    <3>3. ids \in Ids
      BY <1>15, TypeFacts, Bounds, CallSeqs DEF ModelCalls
    <3> QED  BY <3>1, <3>2, <3>3, IdSeqs, RangeType
  <2>2. \/ /\ loop' = [s EXCEPT !.pc = "finish", !.err = "fatal"]
           /\ UNCHANGED checkpoint
        \/ Persist(l)
    BY <1>15 DEF Generate
  <2>3. reply \in Messages /\ Append(loop.messages, reply) \in Seq(Messages)
    BY <2>1, TypeFacts, Said, Spoken
  <2>4. s \in Loops /\ s.messages = loop.messages
    BY <2>1, TypeFacts DEF Loops
  <2> HIDE DEF reply, s
  <2>5. l \in Loops /\ l.pc = "after" /\ l.messages = Append(loop.messages, reply)
    BY <2>1, <2>3, <2>4, Names DEF Loops
  <2> HIDE DEF l
  <2>6. UNCHANGED memory
    BY <1>15 DEF Generate
  <2>7. loop.messages \in Seq(Messages)
    BY TypeFacts
  <2>8. Range(Append(loop.messages, reply)) = Range(loop.messages) \union {reply}
    BY <2>3, <2>7, Longer
  <2>9. Saved \subseteq Range(loop.messages)
    BY <1>15 DEF Generate, Holds, Resting, Failed
  <2>10. CASE UNCHANGED checkpoint
    BY <2>6, <2>10, Unchanging
  <2>11. CASE Persist(l)
    BY <2>5, <2>6, <2>8, <2>9, <2>11, Extends
  <2> QED  BY <2>2, <2>10, <2>11
<1>16. CASE GenerateFails
  BY <1>16, Unchanging DEF GenerateFails, told
<1>17. CASE Overflow
  BY <1>17, Unchanging DEF Overflow, told
<1>18. CASE Replied
  BY <1>18, Unchanging DEF Replied, told
<1>19. CASE Execute
  BY <1>19, Unchanging DEF Execute, told
<1>20. CASE ToolResult
  <2> DEFINE l == [loop EXCEPT !.pc = "tools", !.todo = Tail(@),
                               !.messages = Append(@, Result(Head(loop.todo)))]
  <2>1. Persist(l) /\ UNCHANGED memory
    BY <1>20 DEF ToolResult
  <2>2. l \in Loops
    <3>1. loop.todo # <<>>
      BY <1>20 DEF ToolResult, Shape
    <3> QED  BY <3>1, Names, TypeFacts, NextResult DEF Loops
  <2>3. l.pc \notin {"organize", "tail"}
    BY TypeFacts DEF Loops
  <2>4. Range(loop.messages) \subseteq Range(l.messages) \union memory
    <3>1. l.messages = Append(loop.messages, Result(Head(loop.todo)))
      BY TypeFacts DEF Loops
    <3>2. Head(loop.todo) \in CallIds
      BY <1>20, TypeFacts, IdSeqs DEF ToolResult, Shape
    <3>3. Result(Head(loop.todo)) \in Messages /\ loop.messages \in Seq(Messages)
      BY <3>2, TypeFacts, ResultIsOne
    <3>4. Range(Append(loop.messages, Result(Head(loop.todo))))
             = Range(loop.messages) \union {Result(Head(loop.todo))}
      BY <3>3, Longer
    <3> QED  BY <3>1, <3>4
  <2>5. Saved \subseteq Range(loop.messages)
    BY <1>20 DEF ToolResult, Holds, Resting, Failed
  <2> HIDE DEF l
  <2> QED  BY <2>1, <2>2, <2>3, <2>4, <2>5, Extends
<1>21. CASE ToolHookFails
  BY <1>21, Unchanging DEF ToolHookFails, told
<1>22. CASE ToolsDone
  BY <1>22, Unchanging DEF ToolsDone, told
<1>23. CASE Commit
  BY <1>23, Unchanging DEF Commit, told
<1>24. CASE Mark
  <2> DEFINE l == [loop EXCEPT !.pc = "discard", !.committed = TRUE]
  <2>1. Persist(l) /\ UNCHANGED memory
    BY <1>24 DEF Mark
  <2>2. l \in Loops
    BY Names, TypeFacts DEF Loops
  <2>3. l.pc \notin {"organize", "tail"}
    BY TypeFacts DEF Loops
  <2>4. Range(loop.messages) \subseteq Range(l.messages) \union memory
    BY TypeFacts DEF Loops
  <2>5. Saved \subseteq Range(loop.messages)
    BY <1>24 DEF Mark, Holds, Resting, Failed
  <2> HIDE DEF l
  <2> QED  BY <2>1, <2>2, <2>3, <2>4, <2>5, Extends
<1>25. CASE Discard
  <2>1. checkpoint # None /\ checkpoint.committed /\ UNCHANGED memory
    BY <1>25 DEF Discard, Sound, IsSaved
  <2>2. checkpoint' = None \/ UNCHANGED checkpoint
    BY <1>25 DEF Discard, DiscardReact
  <2> QED  BY <2>1, <2>2, SavedSame DEF Keeps
<1>26. CASE Finish
  BY <1>26, Unchanging DEF Finish, told
<1>27. CASE ReadMemory
  BY <1>27, Unchanging DEF ReadMemory, told
<1>28. CASE Organize
  <2>1. UNCHANGED checkpoint /\ Unmanaged(memory) \subseteq loop.snap
    BY <1>28 DEF Organize, Holds
  <2> DEFINE new == Conversation(SubSeq(loop.messages, 1, loop.drop))
  <2>2. memory' = Unmanaged(loop.snap \union new) \union (memory \ Unmanaged(memory))
    BY <1>28 DEF Organize, Compacted, SaveMemory
  <2> HIDE DEF new
  <2>3. memory \subseteq memory'
    BY <2>1, <2>2 DEF Unmanaged
  <2> QED  BY <2>1, <2>3, Unchanging
<1>29. CASE OrganizeFails
  BY <1>29, Unchanging DEF OrganizeFails, told
<1>30. CASE KeepTail
  <2> DEFINE l == [loop EXCEPT !.pc = loop.back, !.messages = From(@, loop.drop + 1),
                               !.drop = 0, !.snap = {}, !.snapRev = 0]
  <2>1. Persist(l) /\ UNCHANGED memory
    BY <1>30 DEF KeepTail
  <2>2. l \in Loops
    <3>1. loop.drop <= Len(loop.messages) /\ loop.drop \in Nat
      BY <1>30, TypeFacts DEF KeepTail, Shape, Compacting
    <3>2. From(loop.messages, loop.drop + 1) \in Seq(Messages)
      BY <3>1, TypeFacts, Rest
    <3> QED  BY <3>2, TypeFacts DEF Loops
  <2>3. l.pc \notin {"organize", "tail"}
    <3>1. l.pc = loop.back
      BY TypeFacts DEF Loops
    <3>2. loop.back \in {"replied", "assemble", "mark"}
      BY <1>30 DEF KeepTail, Shape, Compacting
    <3> QED  BY <3>1, <3>2
  <2>4. Range(loop.messages) \subseteq Range(l.messages) \union memory
    <3>1. loop.messages \in Seq(Messages) /\ loop.drop \in Nat /\ loop.drop <= Len(loop.messages)
      BY <1>30, TypeFacts DEF KeepTail, Shape, Compacting
    <3>2. l.messages = From(loop.messages, loop.drop + 1)
      BY TypeFacts DEF Loops
    <3>3. Range(SubSeq(loop.messages, 1, loop.drop)) \subseteq memory
      BY <1>30 DEF KeepTail, Holds
    <3>4. \A m \in Range(loop.messages) : \/ m \in Range(SubSeq(loop.messages, 1, loop.drop))
                                          \/ m \in Range(From(loop.messages, loop.drop + 1))
      BY <3>1, Halves
    <3> HIDE DEF l
    <3> QED  BY <3>2, <3>3, <3>4
  <2>5. Saved \subseteq Range(loop.messages)
    BY <1>30 DEF KeepTail, Holds, Resting, Failed
  <2> HIDE DEF l
  <2> QED  BY <2>1, <2>2, <2>3, <2>4, <2>5, Extends
<1>31. CASE Enqueue
  BY <1>31, Unchanging DEF Enqueue, told
<1>32. CASE Signal
  BY <1>32, Unchanging DEF Signal, told
<1>33. CASE Preempt
  BY <1>33, Unchanging DEF Preempt, told
<1>34. CASE PreemptCancels
  BY <1>34, Unchanging DEF PreemptCancels, told
<1>35. CASE Stop
  BY <1>35, Unchanging DEF Stop, told
<1>36. CASE AppendNode
  <2>1. UNCHANGED checkpoint /\ memory \subseteq memory'
    BY <1>36 DEF AppendNode
  <2> QED  BY <2>1, Unchanging
<1>37. CASE Crash
  BY <1>37, Unchanging DEF Crash, told
<1>38. CASE UNCHANGED vars
  BY <1>38, Unchanging DEF vars
<1> QED
  BY <1>1, <1>2, <1>3, <1>4, <1>5, <1>6, <1>7, <1>8, <1>9, <1>10, <1>11, <1>12,
     <1>13, <1>14, <1>15, <1>16, <1>17, <1>18, <1>19, <1>20, <1>21, <1>22, <1>23,
     <1>24, <1>25, <1>26, <1>27, <1>28, <1>29, <1>30, <1>31, <1>32, <1>33, <1>34,
     <1>35, <1>36, <1>37, <1>38 DEF Next, Goes, Turn


LEMMA Holding == Spec => []Holds(loop, Saved, memory)
<1>1. Init => Holds(loop, Saved, memory)
  BY DEF Init, Fresh, Holds, Resting
<1>2. TypeOK /\ Shape /\ Sound(loop, checkpoint, settled) /\ Holds(loop, Saved, memory)
        /\ [Next]_vars => Holds(loop, Saved, memory)'
  BY HoldStep
<1> QED  BY <1>1, <1>2, Typing, SoundTurns, PTL DEF Spec

\* Nothing said is forgotten: a saved message leaves the checkpoint only into
\* memory, with the turn that was committed, or by a session reset; and what is
\* in memory stays there, whoever wrote it while compaction was under way
\* (compactMemoryTool, applyCompactTail, preservingManaged, discardReact).
THEOREM ForgetsNothing == Spec => NothingForgotten
<1>1. ASSUME TypeOK, Shape, Sound(loop, checkpoint, settled), Holds(loop, Saved, memory),
             [Next]_vars
      PROVE  [/\ memory \subseteq memory'
              /\ \A m \in Saved :
                    \/ m \in Saved' \union memory'
                    \/ checkpoint' = None /\ checkpoint.committed
                    \/ kind = "organizer" /\ checkpoint' # None]_vars
  BY <1>1, KeepStep DEF Keeps
<1> QED  BY <1>1, Typing, SoundTurns, Holding, PTL DEF Spec, NothingForgotten

====
