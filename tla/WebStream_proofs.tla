--------------------------- MODULE WebStream_proofs ---------------------------
(***************************************************************************)
(* What a user is shown of the models' answers, for any number of clients, *)
(* calls, attempts and messages and any capacity of a client's channel.    *)
(* The first half is the client's: reading one frame more brings what it   *)
(* shows from the project before to the project after.  The second half is *)
(* the provider's: where the text of each attempt can be.                  *)
(***************************************************************************)
EXTENDS WebStream, NaturalsInduction, WellFoundedInduction, TLAPS

-----------------------------------------------------------------------------
(* Numbers and sequences *)

LEMMA Least ==
    ASSUME NEW T \in SUBSET Nat, T # {}
    PROVE  \E x \in T : \A y \in T : x <= y
<1> DEFINE less == OpToRel(<, Nat)
<1>1. PICK x \in T : \A y \in T : ~(<<y, x>> \in less)
  BY NatLessThanWellFounded, WFMin
<1>2. ASSUME NEW y \in T, y < x PROVE FALSE
  <2>1. <<y, x>> \in less
    BY <1>2 DEF OpToRel
  <2> QED  BY <2>1, <1>1
<1> HIDE DEF less
<1>3. \A y \in T : x <= y
  BY <1>2
<1> QED  BY <1>3

LEMMA Appended ==
    ASSUME NEW S, NEW s \in Seq(S), NEW e \in S
    PROVE  /\ Append(s, e) \in Seq(S) /\ Len(Append(s, e)) = Len(s) + 1 /\ Len(s) \in Nat
           /\ \A i \in 1 .. Len(s) : Append(s, e)[i] = s[i]
           /\ Append(s, e)[Len(s) + 1] = e
OBVIOUS

LEMMA Behead ==
    ASSUME NEW S, NEW s \in Seq(S), s # <<>>
    PROVE  /\ Tail(s) \in Seq(S) /\ Len(Tail(s)) = Len(s) - 1 /\ Len(s) \in Nat \ {0}
           /\ Head(s) = s[1] /\ Head(s) \in S
           /\ \A i \in 1 .. Len(Tail(s)) : Tail(s)[i] = s[i + 1]
OBVIOUS

LEMMA Equal ==
    ASSUME NEW S, NEW s \in Seq(S), NEW t \in Seq(S), Len(s) = Len(t),
           \A i \in 1 .. Len(s) : s[i] = t[i]
    PROVE  s = t
OBVIOUS

LEMMA Joined ==
    ASSUME NEW S, NEW s \in Seq(S), NEW t \in Seq(S)
    PROVE  /\ s \o t \in Seq(S) /\ Len(s \o t) = Len(s) + Len(t)
           /\ \A i \in 1 .. Len(s) : (s \o t)[i] = s[i]
           /\ \A i \in Len(s) + 1 .. Len(s) + Len(t) : (s \o t)[i] = t[i - Len(s)]
OBVIOUS

LEMMA Elements ==
    ASSUME NEW S, NEW s \in Seq(S)
    PROVE  /\ ToSet(s) = {s[i] : i \in 1 .. Len(s)} /\ DOMAIN s = 1 .. Len(s)
           /\ ToSet(s) \subseteq S /\ Len(s) \in Nat
BY DEF ToSet

-----------------------------------------------------------------------------
(* Reading frames *)

\* f goes from the view to what is shown at the end, frame by frame.
Reads(f, view, frames) ==
    f[0] = view /\ \A n \in 1 .. Len(frames) : f[n] = Applied(f[n - 1], frames[n])

LEMMA SomeReading ==
    ASSUME NEW view, NEW frames, Len(frames) \in Nat
    PROVE  \E f : f = [n \in 0 .. Len(frames) |-> f[n]] /\ Reads(f, view, frames)
<1> DEFINE Upto(f, m) == /\ f = [n \in 0 .. m |-> f[n]] /\ f[0] = view
                         /\ \A n \in 1 .. m : f[n] = Applied(f[n - 1], frames[n])
           T == {m \in 0 .. Len(frames) : ~\E f : Upto(f, m)}
<1>1. ASSUME T # {} PROVE FALSE
  <2>1. PICK m \in T : \A k \in T : m <= k
    <3>1. T \in SUBSET Nat
      OBVIOUS
    <3> HIDE DEF T
    <3> QED  BY <1>1, <3>1, Least
  <2>2. m # 0
    <3> DEFINE z == [n \in 0 .. 0 |-> view]
    <3>1. Upto(z, 0)
      OBVIOUS
    <3> HIDE DEF z, Upto
    <3> QED  BY <3>1
  <2>3. m - 1 \in 0 .. Len(frames) /\ m - 1 \notin T /\ m \in Nat
    BY <2>1, <2>2
  <2>4. PICK f : Upto(f, m - 1)
    BY <2>3
  <2> DEFINE g == [n \in 0 .. m |-> IF n < m THEN f[n] ELSE Applied(f[m - 1], frames[m])]
  <2>5. /\ \A n \in 0 .. m : g[n] = IF n < m THEN f[n] ELSE Applied(f[m - 1], frames[m])
        /\ g = [n \in 0 .. m |-> g[n]]
    OBVIOUS
  <2> HIDE DEF g
  <2>6. g[0] = view
    <3>1. 0 \in 0 .. m /\ 0 < m
      BY <2>3, <2>2
    <3> QED  BY <3>1, <2>4, <2>5
  <2>7. ASSUME NEW n \in 1 .. m PROVE g[n] = Applied(g[n - 1], frames[n])
    <3>1. n - 1 \in 0 .. m /\ n - 1 < m /\ m \in 0 .. m
      BY <2>3
    <3>2. g[n - 1] = f[n - 1] /\ g[m] = Applied(f[m - 1], frames[m])
      BY <3>1, <2>5, <2>3
    <3>3. CASE n = m
      BY <3>2, <3>3
    <3>4. CASE n # m
      <4>1. n \in 1 .. m - 1 /\ n \in 0 .. m /\ n < m
        BY <3>4, <2>3
      <4>2. g[n] = f[n]
        BY <4>1, <2>5
      <4> QED  BY <4>1, <4>2, <3>2, <2>4
    <3> QED  BY <3>3, <3>4
  <2>8. Upto(g, m)
    BY <2>5, <2>6, <2>7
  <2> QED  BY <2>8, <2>1
<1>2. Len(frames) \in 0 .. Len(frames)
  OBVIOUS
<1>3. PICK f : Upto(f, Len(frames))
  BY <1>1, <1>2
<1> QED  BY <1>3 DEF Reads

\* Two readings agree.
LEMMA OneReading ==
    ASSUME NEW view, NEW frames, Len(frames) \in Nat, NEW f, NEW g,
           Reads(f, view, frames), Reads(g, view, frames)
    PROVE  f[Len(frames)] = g[Len(frames)]
<1> DEFINE T == {n \in 0 .. Len(frames) : f[n] # g[n]}
<1>1. ASSUME T # {} PROVE FALSE
  <2>1. PICK m \in T : \A k \in T : m <= k
    <3>1. T \in SUBSET Nat
      OBVIOUS
    <3> HIDE DEF T
    <3> QED  BY <1>1, <3>1, Least
  <2>2. m # 0
    BY DEF Reads
  <2>3. m - 1 \in 0 .. Len(frames) /\ m - 1 \notin T /\ m \in 1 .. Len(frames)
    BY <2>1, <2>2
  <2>4. f[m - 1] = g[m - 1]
    BY <2>3
  <2>5. f[m] = g[m]
    BY <2>3, <2>4 DEF Reads
  <2> QED  BY <2>5
<1>2. Len(frames) \in 0 .. Len(frames)
  OBVIOUS
<1> QED  BY <1>1, <1>2

LEMMA ShownRead ==
    ASSUME NEW view, NEW frames, Len(frames) \in Nat
    PROVE  \E f : Reads(f, view, frames) /\ Shown(view, frames) = f[Len(frames)]
<1> DEFINE Step(g, n) == IF n = 0 THEN view ELSE Applied(g[n - 1], frames[n])
           after == CHOOSE g : g = [n \in 0 .. Len(frames) |-> Step(g, n)]
<1>1. Shown(view, frames) = after[Len(frames)]
  BY DEF Shown
<1>2. PICK f : f = [n \in 0 .. Len(frames) |-> f[n]] /\ Reads(f, view, frames)
  BY SomeReading
<1>3. \A n \in 0 .. Len(frames) : f[n] = Step(f, n)
  BY <1>2 DEF Reads
<1>4. f = [n \in 0 .. Len(frames) |-> Step(f, n)]
  <2> DEFINE h == [n \in 0 .. Len(frames) |-> Step(f, n)]
  <2> HIDE DEF Step
  <2>1. h = [n \in 0 .. Len(frames) |-> f[n]]
    BY <1>3
  <2> QED  BY <2>1, <1>2
<1>5. after = [n \in 0 .. Len(frames) |-> Step(after, n)]
  <2> HIDE DEF Step
  <2> QED  BY <1>4
<1> HIDE DEF after
<1>6. Reads(after, view, frames)
  <2>1. 0 \in 0 .. Len(frames)
    OBVIOUS
  <2>2. after[0] = view
    BY <1>5, <2>1
  <2>3. ASSUME NEW n \in 1 .. Len(frames)
        PROVE  after[n] = Applied(after[n - 1], frames[n])
    BY <1>5
  <2> QED  BY <2>2, <2>3 DEF Reads
<1> QED  BY <1>1, <1>6

LEMMA ShownIs ==
    ASSUME NEW view, NEW frames, Len(frames) \in Nat, NEW f, Reads(f, view, frames)
    PROVE  Shown(view, frames) = f[Len(frames)]
BY ShownRead, OneReading

\* No frames, one frame more at the end, one frame read.
LEMMA ShownNone == ASSUME NEW view PROVE Shown(view, <<>>) = view
<1>1. Len(<<>>) = 0
  OBVIOUS
<1>2. PICK f : Reads(f, view, <<>>) /\ Shown(view, <<>>) = f[Len(<<>>)]
  BY <1>1, ShownRead
<1> QED  BY <1>1, <1>2 DEF Reads

LEMMA ShownMore ==
    ASSUME NEW view, NEW frames \in Seq(Frames), NEW frame \in Frames
    PROVE  Shown(view, Append(frames, frame)) = Applied(Shown(view, frames), frame)
<1> DEFINE more == Append(frames, frame)
           n == Len(frames)
<1>1. n \in Nat /\ Len(more) = n + 1 /\ more[n + 1] = frame /\ \A i \in 1 .. n : more[i] = frames[i]
  BY Appended
<1>2. PICK f : Reads(f, view, frames) /\ Shown(view, frames) = f[n]
  BY <1>1, ShownRead
<1> HIDE DEF more, n
<1> DEFINE g == [i \in 0 .. n + 1 |-> IF i <= n THEN f[i] ELSE Applied(f[n], frame)]
<1>3. \A i \in 0 .. n + 1 : g[i] = IF i <= n THEN f[i] ELSE Applied(f[n], frame)
  OBVIOUS
<1> HIDE DEF g
<1>4. Reads(g, view, more)
  <2>1. g[0] = view
    BY <1>1, <1>2, <1>3 DEF Reads
  <2>2. ASSUME NEW i \in 1 .. n + 1 PROVE g[i] = Applied(g[i - 1], more[i])
    <3>1. i - 1 \in 0 .. n + 1 /\ i - 1 <= n /\ g[i - 1] = f[i - 1]
      BY <1>1, <1>3
    <3>2. CASE i <= n
      <4>1. i \in 1 .. n /\ g[i] = f[i]
        BY <3>2, <1>1, <1>3
      <4>2. f[i] = Applied(f[i - 1], frames[i])
        BY <4>1, <1>2 DEF Reads, n
      <4> QED  BY <3>1, <4>1, <4>2, <1>1
    <3>3. CASE ~(i <= n)
      <4>1. i = n + 1 /\ i - 1 = n
        BY <3>3, <1>1
      <4>2. g[i] = Applied(f[n], frame)
        BY <4>1, <3>3, <1>1, <1>3
      <4> QED  BY <3>1, <4>1, <4>2, <1>1
    <3> QED  BY <3>2, <3>3
  <2> QED  BY <2>1, <2>2, <1>1 DEF Reads
<1>5. g[n + 1] = Applied(f[n], frame)
  BY <1>1, <1>3
<1>6. Shown(view, more) = g[n + 1]
  BY <1>1, <1>4, ShownIs
<1> QED  BY <1>2, <1>5, <1>6 DEF more

LEMMA ShownLess ==
    ASSUME NEW view, NEW frames \in Seq(Frames), frames # <<>>
    PROVE  Shown(Applied(view, Head(frames)), Tail(frames)) = Shown(view, frames)
<1> DEFINE rest == Tail(frames)
           n == Len(frames)
           first == Applied(view, Head(frames))
<1>1. /\ n \in Nat \ {0} /\ Len(rest) = n - 1 /\ Head(frames) = frames[1]
      /\ \A i \in 1 .. Len(rest) : rest[i] = frames[i + 1]
  BY Behead
<1>2. PICK f : Reads(f, view, frames) /\ Shown(view, frames) = f[n]
  BY <1>1, ShownRead
<1>3. f[0] = view /\ \A i \in 1 .. n : f[i] = Applied(f[i - 1], frames[i])
  BY <1>2 DEF Reads
<1> HIDE DEF rest, n
<1> DEFINE g == [i \in 0 .. n - 1 |-> f[i + 1]]
<1>4. \A i \in 0 .. n - 1 : g[i] = f[i + 1]
  OBVIOUS
<1> HIDE DEF g
<1>5. Reads(g, first, rest)
  <2>1. g[0] = first
    <3>1. 0 \in 0 .. n - 1 /\ 1 \in 1 .. n /\ 0 + 1 = 1 /\ 1 - 1 = 0
      BY <1>1
    <3> QED  BY <3>1, <1>1, <1>3, <1>4
  <2>2. ASSUME NEW i \in 1 .. n - 1 PROVE g[i] = Applied(g[i - 1], rest[i])
    <3>1. i \in 0 .. n - 1 /\ i - 1 \in 0 .. n - 1 /\ i + 1 \in 1 .. n /\ (i - 1) + 1 = i
          /\ (i + 1) - 1 = i
      BY <1>1
    <3> QED  BY <3>1, <1>1, <1>3, <1>4
  <2> QED  BY <2>1, <2>2, <1>1 DEF Reads
<1>6. Len(rest) \in Nat /\ n - 1 \in 0 .. n - 1 /\ (n - 1) + 1 = n
  BY <1>1
<1>7. Shown(first, rest) = g[n - 1]
  <2> HIDE DEF first
  <2> QED  BY <1>1, <1>5, <1>6, ShownIs
<1> QED  BY <1>2, <1>4, <1>6, <1>7 DEF rest

-----------------------------------------------------------------------------
(* Messages *)

\* No two messages have one number, and none has one that was not given out.
Distinct(ms, top) ==
    /\ \A i, j \in DOMAIN ms : ms[i].id = ms[j].id => i = j
    /\ \A i \in DOMAIN ms : ms[i].id <= top

\* A message that is still streamed, with as many after it as were numbered after
\* it; and none is dropped before Keep of them were numbered.
Placed(ms, str, top) ==
    /\ \A i \in DOMAIN ms : ms[i].id = str => ms[i].status = "streaming"
    /\ top <= Keep => Len(ms) <= top
    /\ str # 0 => \/ str + Keep <= top
                  \/ \E p \in DOMAIN ms : ms[p].id = str /\ str + Len(ms) <= top + p

\* What a client must come to show.
Agrees(view, ms, top) ==
    /\ view \in Seq(Messages) /\ Distinct(view, top)
    /\ top <= Keep => view = ms
    /\ ToSet(ms) \subseteq ToSet(view)

LEMMA MessageIs ==
    ASSUME NEW m \in Messages
    PROVE  m.id \in Nat \ {0} /\ m.text \in Seq(Attempts)
BY DEF Messages

LEMMA AppendIs ==
    ASSUME NEW ms \in Seq(Messages), NEW m \in Messages, NEW top \in Nat, NEW top2 \in Nat,
           Distinct(ms, top), ~Has(ms, m.id), m.id <= top2, top <= top2
    PROVE  /\ Append(ms, m) \in Seq(Messages) /\ Distinct(Append(ms, m), top2)
           /\ ToSet(Append(ms, m)) = ToSet(ms) \union {m}
<1> DEFINE more == Append(ms, m)
<1>1. /\ more \in Seq(Messages) /\ Len(more) = Len(ms) + 1 /\ Len(ms) \in Nat
      /\ \A i \in 1 .. Len(ms) : more[i] = ms[i]
      /\ more[Len(ms) + 1] = m
  BY Appended
<1>2. /\ DOMAIN more = 1 .. Len(ms) + 1 /\ DOMAIN ms = 1 .. Len(ms)
      /\ \A i \in 1 .. Len(ms) + 1 : i \in 1 .. Len(ms) \/ i = Len(ms) + 1
      /\ 1 .. Len(ms) \subseteq 1 .. Len(ms) + 1 /\ Len(ms) + 1 \in 1 .. Len(ms) + 1
  BY <1>1
<1> HIDE DEF more
<1>3. \A i \in 1 .. Len(ms) : ms[i].id \in Nat /\ ms[i].id <= top /\ ms[i].id # m.id
  BY <1>2, MessageIs DEF Distinct, Has
<1>4. Distinct(more, top2)
  <2>1. ASSUME NEW i \in DOMAIN more, NEW j \in DOMAIN more, more[i].id = more[j].id
        PROVE  i = j
    BY <2>1, <1>1, <1>2, <1>3 DEF Distinct
  <2>2. ASSUME NEW i \in DOMAIN more PROVE more[i].id <= top2
    BY <1>1, <1>2, <1>3, MessageIs
  <2> QED  BY <2>1, <2>2 DEF Distinct
<1>5. ToSet(more) = ToSet(ms) \union {m}
  BY <1>1, <1>2 DEF ToSet
<1> QED  BY <1>1, <1>4, <1>5 DEF more

\* Replacing the message of a number, or writing more into it.
Like(ms, new) == /\ new \in Seq(Messages) /\ Len(new) = Len(ms) /\ DOMAIN new = DOMAIN ms
                 /\ \A i \in DOMAIN ms : new[i].id = ms[i].id

LEMMA LikeDistinct ==
    ASSUME NEW ms, NEW new, NEW top, Like(ms, new), Distinct(ms, top)
    PROVE  Distinct(new, top)
BY DEF Like, Distinct

LEMMA UpdatedIs ==
    ASSUME NEW ms \in Seq(Messages), NEW m \in Messages
    PROVE  /\ Like(ms, Updated(ms, m))
           /\ \A i \in DOMAIN ms : Updated(ms, m)[i] = IF ms[i].id = m.id THEN m ELSE ms[i]
<1>1. DOMAIN ms = 1 .. Len(ms) /\ Len(ms) \in Nat /\ \A i \in DOMAIN ms : ms[i] \in Messages
  OBVIOUS
<1>2. /\ DOMAIN Updated(ms, m) = DOMAIN ms
      /\ \A i \in DOMAIN ms : Updated(ms, m)[i] = IF ms[i].id = m.id THEN m ELSE ms[i]
  BY DEF Updated
<1>3. Updated(ms, m) \in [1 .. Len(ms) -> Messages]
  BY <1>1 DEF Updated
<1>4. Updated(ms, m) \in Seq(Messages) /\ Len(Updated(ms, m)) = Len(ms)
  BY <1>1, <1>3
<1> QED  BY <1>2, <1>4 DEF Like

Longer(m, t) == [m EXCEPT !.text = m.text \o t]

LEMMA LongerIs ==
    ASSUME NEW m \in Messages, NEW t \in Seq(Attempts)
    PROVE  /\ Longer(m, t) \in Messages /\ Longer(m, t).text = m.text \o t
           /\ Longer(m, t).id = m.id /\ Longer(m, t).status = m.status
<1>1. m.text \o t \in Seq(Attempts)
  BY MessageIs
<1> QED  BY <1>1 DEF Longer, Messages

LEMMA ExtendedIs ==
    ASSUME NEW ms \in Seq(Messages), NEW id, NEW t \in Seq(Attempts)
    PROVE  /\ Like(ms, Extended(ms, id, t))
           /\ \A i \in DOMAIN ms :
                 Extended(ms, id, t)[i] = IF ms[i].id = id THEN Longer(ms[i], t) ELSE ms[i]
<1>1. DOMAIN ms = 1 .. Len(ms) /\ Len(ms) \in Nat /\ \A i \in DOMAIN ms : ms[i] \in Messages
  OBVIOUS
<1>2. /\ DOMAIN Extended(ms, id, t) = DOMAIN ms
      /\ \A i \in DOMAIN ms :
            Extended(ms, id, t)[i] = IF ms[i].id = id THEN Longer(ms[i], t) ELSE ms[i]
  BY DEF Extended, Longer
<1>3. \A m \in Messages : Longer(m, t) \in Messages /\ Longer(m, t).id = m.id
  BY LongerIs
<1>4. \A i \in DOMAIN ms : Extended(ms, id, t)[i] \in Messages /\ Extended(ms, id, t)[i].id = ms[i].id
  BY <1>1, <1>2, <1>3
<1>5. Extended(ms, id, t) \in [1 .. Len(ms) -> Messages]
  <2> DEFINE new == Extended(ms, id, t)
  <2>1. new = [i \in 1 .. Len(ms) |-> new[i]]
    BY <1>1 DEF Extended
  <2> HIDE DEF new
  <2> QED  BY <2>1, <1>1, <1>4 DEF new
<1>6. Extended(ms, id, t) \in Seq(Messages) /\ Len(Extended(ms, id, t)) = Len(ms)
  BY <1>1, <1>5
<1> QED  BY <1>2, <1>4, <1>6 DEF Like

\* Taking the message of a number out.
LEMMA WithoutIs ==
    ASSUME NEW ms \in Seq(Messages), NEW id, NEW top \in Nat, Distinct(ms, top), Has(ms, id)
    PROVE  /\ Without(ms, id) \in Seq(Messages) /\ Len(Without(ms, id)) = Len(ms) - 1
           /\ Distinct(Without(ms, id), top) /\ ~Has(Without(ms, id), id)
           /\ ToSet(Without(ms, id)) = {m \in ToSet(ms) : m.id # id}
<1> DEFINE k == Place(ms, id)
           less == Without(ms, id)
           n == Len(ms)
<1>1. k \in DOMAIN ms /\ ms[k].id = id
  BY DEF Has, Place
<1>2. DOMAIN ms = 1 .. n /\ n \in Nat
  OBVIOUS
<1>3. less = SubSeq(ms, 1, k - 1) \o SubSeq(ms, k + 1, n)
  BY DEF Without, RemoveAt
<1> HIDE DEF k, less
<1>4. /\ SubSeq(ms, 1, k - 1) \in Seq(Messages) /\ Len(SubSeq(ms, 1, k - 1)) = k - 1
      /\ \A i \in 1 .. k - 1 : SubSeq(ms, 1, k - 1)[i] = ms[i]
  BY <1>1, <1>2, SMTT(30)
<1>5. /\ SubSeq(ms, k + 1, n) \in Seq(Messages) /\ Len(SubSeq(ms, k + 1, n)) = n - k
      /\ \A i \in 1 .. n - k : SubSeq(ms, k + 1, n)[i] = ms[k + i]
  BY <1>1, <1>2, SMTT(30)
<1>6. /\ less \in Seq(Messages) /\ Len(less) = n - 1 /\ DOMAIN less = 1 .. n - 1
      /\ \A i \in 1 .. k - 1 : less[i] = ms[i]
      /\ \A i \in k .. n - 1 : less[i] = ms[i + 1]
  <2> DEFINE a == SubSeq(ms, 1, k - 1)
             b == SubSeq(ms, k + 1, n)
  <2>1. /\ a \in Seq(Messages) /\ Len(a) = k - 1 /\ b \in Seq(Messages) /\ Len(b) = n - k
        /\ \A i \in 1 .. k - 1 : a[i] = ms[i]
        /\ \A i \in 1 .. n - k : b[i] = ms[k + i]
    BY <1>4, <1>5
  <2>2. less = a \o b
    BY <1>3
  <2> HIDE DEF a, b
  <2>3. /\ less \in Seq(Messages) /\ Len(less) = Len(a) + Len(b)
        /\ \A i \in 1 .. Len(a) : less[i] = a[i]
        /\ \A i \in Len(a) + 1 .. Len(a) + Len(b) : less[i] = b[i - Len(a)]
    <3> DEFINE ab == a \o b
    <3>1. /\ ab \in Seq(Messages) /\ Len(ab) = Len(a) + Len(b)
          /\ \A i \in 1 .. Len(a) : ab[i] = a[i]
          /\ \A i \in Len(a) + 1 .. Len(a) + Len(b) : ab[i] = b[i - Len(a)]
      BY <2>1, Joined
    <3>2. less = ab
      BY <2>2
    <3> HIDE DEF ab
    <3> QED  BY <3>1, <3>2
  <2>4. ASSUME NEW i \in k .. n - 1 PROVE less[i] = ms[i + 1]
    <3> DEFINE la == Len(a)
               lb == Len(b)
    <3>2. la = k - 1 /\ lb = n - k /\ k \in 1 .. n /\ n \in Nat
      BY <2>1, <1>1, <1>2
    <3> HIDE DEF la, lb, n
    <3>3. /\ i \in la + 1 .. la + lb /\ i - la \in 1 .. n - k
          /\ k + (i - la) = i + 1
      BY <3>2
    <3>1. /\ i \in Len(a) + 1 .. Len(a) + Len(b) /\ i - Len(a) \in 1 .. n - k
          /\ k + (i - Len(a)) = i + 1
      BY <3>3 DEF la, lb
    <3> QED  BY <3>1, <2>1, <2>3
  <2>5. Len(less) = n - 1 /\ \A i \in 1 .. k - 1 : less[i] = ms[i]
    BY <2>1, <2>3, <1>1, <1>2
  <2> QED  BY <2>3, <2>4, <2>5
<1> HIDE DEF n
<1>7. \A i \in 1 .. n - 1 : /\ i < k => i \in 1 .. k - 1 /\ i \in 1 .. n
                            /\ ~(i < k) => i \in k .. n - 1 /\ i + 1 \in 1 .. n /\ i + 1 # k
                            /\ i \in Nat
  BY <1>1, <1>2
<1>8. \A i \in 1 .. n : ms[i].id = id => i = k
  BY <1>1, <1>2 DEF Distinct
<1>9. ASSUME NEW i \in 1 .. n - 1, NEW j \in 1 .. n - 1, less[i].id = less[j].id PROVE i = j
  <2>1. CASE i < k /\ j < k
    BY <2>1, <1>9, <1>6, <1>7, <1>2 DEF Distinct
  <2>2. CASE ~(i < k) /\ ~(j < k)
    <3>1. i + 1 = j + 1
      BY <2>2, <1>9, <1>6, <1>7, <1>2 DEF Distinct
    <3> QED  BY <3>1, <1>7
  <2>3. CASE i < k /\ ~(j < k)
    <3>1. i = j + 1
      BY <2>3, <1>9, <1>6, <1>7, <1>2 DEF Distinct
    <3> QED  BY <3>1, <2>3, <1>7, <1>1, <1>2
  <2>4. CASE ~(i < k) /\ j < k
    <3>1. i + 1 = j
      BY <2>4, <1>9, <1>6, <1>7, <1>2 DEF Distinct
    <3> QED  BY <3>1, <2>4, <1>7, <1>1, <1>2
  <2> QED  BY <2>1, <2>2, <2>3, <2>4
<1>10. ASSUME NEW i \in 1 .. n - 1 PROVE less[i] \in ToSet(ms) /\ less[i].id # id /\ less[i].id <= top
  <2>1. PICK j \in 1 .. n : j # k /\ less[i] = ms[j]
    <3>1. CASE i < k
      <4>1. i \in 1 .. n /\ i # k /\ less[i] = ms[i]
        BY <3>1, <1>1, <1>2, <1>6, <1>7
      <4> QED  BY <4>1
    <3>2. CASE ~(i < k)
      BY <3>2, <1>6, <1>7
    <3> QED  BY <3>1, <3>2
  <2> QED  BY <2>1, <1>2, <1>8 DEF Distinct, ToSet
<1>11. ASSUME NEW i \in 1 .. n, ms[i].id # id PROVE ms[i] \in ToSet(less)
  <2>1. CASE i < k
    <3>1. i \in 1 .. k - 1 /\ i \in 1 .. n - 1
      BY <2>1, <1>1, <1>2
    <3> QED  BY <3>1, <1>6 DEF ToSet
  <2>2. CASE ~(i < k)
    <3>1. i - 1 \in k .. n - 1 /\ i - 1 \in 1 .. n - 1 /\ (i - 1) + 1 = i
      BY <2>2, <1>11, <1>1, <1>2
    <3> QED  BY <3>1, <1>6 DEF ToSet
  <2> QED  BY <2>1, <2>2
<1>12. Distinct(less, top) /\ ~Has(less, id)
  BY <1>6, <1>9, <1>10 DEF Distinct, Has
<1>13. ToSet(less) = {m \in ToSet(ms) : m.id # id}
  <2>1. \A m \in ToSet(less) : m \in ToSet(ms) /\ m.id # id
    BY <1>6, <1>10 DEF ToSet
  <2>2. \A m \in ToSet(ms) : m.id # id => m \in ToSet(less)
    BY <1>2, <1>11 DEF ToSet
  <2> QED  BY <2>1, <2>2
<1> QED  BY <1>6, <1>12, <1>13 DEF less, n

\* Dropping the oldest.
LEMMA KeptIs ==
    ASSUME NEW ms \in Seq(Messages), NEW top \in Nat, Distinct(ms, top), Len(ms) <= Keep + 1
    PROVE  /\ Kept(ms) \in Seq(Messages) /\ Len(Kept(ms)) <= Keep /\ Distinct(Kept(ms), top)
           /\ ToSet(Kept(ms)) \subseteq ToSet(ms)
           /\ Len(ms) <= Keep => Kept(ms) = ms
           /\ ~(Len(ms) <= Keep) => /\ Len(ms) = Keep + 1 /\ Len(Kept(ms)) = Keep
                                    /\ \A i \in 1 .. Keep : Kept(ms)[i] = ms[i + 1]
<1>1. Len(ms) \in Nat /\ DOMAIN ms = 1 .. Len(ms) /\ Keep \in Nat \ {0}
  BY StreamAssumption
<1>2. CASE Len(ms) <= Keep
  <2>1. Kept(ms) = ms
    BY <1>1, <1>2 DEF Kept
  <2> QED  BY <2>1, <1>2
<1>3. CASE ~(Len(ms) <= Keep)
  <2>1. Len(ms) = Keep + 1 /\ Len(ms) > Keep /\ Len(ms) - Keep + 1 = 2
    <3> DEFINE l == Len(ms)
    <3>1. l \in Nat /\ Keep \in Nat /\ ~(l <= Keep) /\ l <= Keep + 1
      BY <1>1, <1>3
    <3> HIDE DEF l
    <3>2. l = Keep + 1 /\ l > Keep /\ l - Keep + 1 = 2
      BY <3>1
    <3> QED  BY <3>2 DEF l
  <2>2. Kept(ms) = SubSeq(ms, 2, Keep + 1)
    BY <2>1 DEF Kept
  <2>3. /\ Kept(ms) \in Seq(Messages) /\ Len(Kept(ms)) = Keep /\ DOMAIN Kept(ms) = 1 .. Keep
        /\ \A i \in 1 .. Keep : Kept(ms)[i] = ms[i + 1]
    <3> DEFINE s == SubSeq(ms, 2, Keep + 1)
    <3>1. /\ s \in Seq(Messages) /\ Len(s) = Keep /\ DOMAIN s = 1 .. Keep
          /\ \A i \in 1 .. Keep : s[i] = ms[i + 1]
      BY <1>1, <2>1
    <3> QED  BY <3>1, <2>2
  <2>4. \A i \in 1 .. Keep : i + 1 \in DOMAIN ms /\ i \in Nat
    BY <1>1, <2>1
  <2>5. Distinct(Kept(ms), top)
    <3>1. ASSUME NEW i \in 1 .. Keep, NEW j \in 1 .. Keep, Kept(ms)[i].id = Kept(ms)[j].id
          PROVE  i = j
      <4>1. i + 1 = j + 1
        BY <3>1, <2>3, <2>4 DEF Distinct
      <4> QED  BY <4>1, <2>4
    <3>2. \A i \in 1 .. Keep : Kept(ms)[i].id <= top
      BY <2>3, <2>4 DEF Distinct
    <3> QED  BY <3>1, <3>2, <2>3 DEF Distinct
  <2>6. ToSet(Kept(ms)) \subseteq ToSet(ms)
    BY <2>3, <2>4 DEF ToSet
  <2> QED  BY <1>3, <1>1, <2>1, <2>3, <2>5, <2>6
<1> QED  BY <1>2, <1>3

-----------------------------------------------------------------------------
(* What an operation of the project does to its messages, and the frame to a view *)

\* The messages of a project of which the stream is str and the last number top.
Held(ms, str, top) ==
    /\ ms \in Seq(Messages) /\ Len(ms) <= Keep /\ top \in Nat /\ str \in 0 .. top
    /\ Distinct(ms, top) /\ Placed(ms, str, top)

LEMMA HeldFacts ==
    ASSUME NEW ms, NEW str, NEW top, Held(ms, str, top)
    PROVE  /\ ms \in Seq(Messages) /\ Len(ms) \in Nat /\ Len(ms) <= Keep /\ Keep \in Nat \ {0}
           /\ DOMAIN ms = 1 .. Len(ms) /\ top \in Nat /\ str \in Nat /\ str <= top
           /\ Distinct(ms, top) /\ Placed(ms, str, top)
           /\ \A i \in DOMAIN ms : /\ ms[i] \in Messages /\ ms[i].id \in Nat \ {0} /\ ms[i].id <= top
<1>1. ms \in Seq(Messages) /\ Distinct(ms, top) /\ \A i \in DOMAIN ms : ms[i] \in Messages
  BY DEF Held
<1>2. \A i \in DOMAIN ms : ms[i].id \in Nat \ {0} /\ ms[i].id <= top
  BY <1>1, MessageIs DEF Distinct
<1> QED  BY <1>1, <1>2, StreamAssumption DEF Held

\* A number not given out yet is not in use.
LEMMA NewNumber ==
    ASSUME NEW v \in Seq(Messages), NEW top \in Nat, Distinct(v, top)
    PROVE  ~Has(v, top + 1)
<1>1. \A i \in DOMAIN v : v[i].id \in Nat /\ v[i].id <= top
  BY MessageIs DEF Distinct
<1> QED  BY <1>1 DEF Has

\* While no message was dropped the streaming one is there.
LEMMA StillThere ==
    ASSUME NEW ms, NEW str, NEW top, Held(ms, str, top), str # 0, top <= Keep
    PROVE  Has(ms, str)
<1>1. ~(str + Keep <= top)
  BY HeldFacts
<1> QED  BY <1>1, HeldFacts DEF Placed, Has

LEMMA InView ==
    ASSUME NEW ms \in Seq(Messages), NEW v \in Seq(Messages), ToSet(ms) \subseteq ToSet(v), NEW id
    PROVE  /\ Has(ms, id) => Has(v, id)
           /\ \A i \in DOMAIN ms : \E k \in DOMAIN v : v[k] = ms[i]
<1>1. \A i \in DOMAIN ms : \E k \in DOMAIN v : v[k] = ms[i]
  BY DEF ToSet
<1> QED  BY <1>1 DEF Has

\* A new message, which may be the one that is streamed from now on.
LEMMA Adding ==
    ASSUME NEW ms, NEW str, NEW top, Held(ms, str, top), NEW m \in Messages, m.id = top + 1,
           NEW str2 \in {str, 0, top + 1}, str2 = top + 1 => m.status = "streaming"
    PROVE  /\ Held(Kept(Append(ms, m)), str2, top + 1)
           /\ \A v : Agrees(v, ms, top) =>
                 /\ ~Has(v, m.id)
                 /\ Agrees(Append(v, m), Kept(Append(ms, m)), top + 1)
<1> DEFINE more == Append(ms, m)
           new == Kept(more)
           n == Len(ms)
<1>1. /\ ms \in Seq(Messages) /\ n \in Nat /\ n <= Keep /\ Keep \in Nat \ {0}
      /\ DOMAIN ms = 1 .. n /\ top \in Nat /\ str \in Nat /\ str <= top
      /\ Distinct(ms, top) /\ Placed(ms, str, top)
  BY HeldFacts
<1>2. ~Has(ms, m.id) /\ top + 1 \in Nat /\ m.id <= top + 1 /\ top <= top + 1
  BY <1>1, NewNumber
<1>3. /\ more \in Seq(Messages) /\ Len(more) = n + 1 /\ more[n + 1] = m
      /\ \A i \in 1 .. n : more[i] = ms[i]
  BY <1>1, Appended
<1>4. Distinct(more, top + 1) /\ ToSet(more) = ToSet(ms) \union {m}
  BY <1>1, <1>2, AppendIs
<1> HIDE DEF more
<1>5. Len(more) <= Keep + 1
  BY <1>1, <1>3
<1>6. /\ new \in Seq(Messages) /\ Len(new) <= Keep /\ Distinct(new, top + 1)
      /\ ToSet(new) \subseteq ToSet(more) /\ (Len(more) <= Keep => new = more)
      /\ ~(Len(more) <= Keep) => /\ Len(more) = Keep + 1 /\ Len(new) = Keep
                                 /\ \A i \in 1 .. Keep : new[i] = more[i + 1]
  BY <1>2, <1>3, <1>4, <1>5, KeptIs
<1> HIDE DEF new, n
<1>7. top + 1 <= Keep => new = more /\ Len(new) <= top + 1
  <2>1. top + 1 <= Keep => n <= top
    BY <1>1 DEF Placed, n
  <2>2. top + 1 <= Keep => Len(more) <= Keep /\ Len(more) <= top + 1
    BY <2>1, <1>1, <1>3
  <2> QED  BY <2>2, <1>6
<1>8. ASSUME NEW i \in DOMAIN new, new[i].id = str2 PROVE new[i].status = "streaming"
  <2>1. new[i] \in ToSet(new)
    BY <1>6 DEF ToSet
  <2>2. CASE new[i] = m
    <3>1. str2 = top + 1
      BY <1>8, <2>2
    <3> QED  BY <3>1, <2>2
  <2>3. CASE new[i] # m
    <3>1. PICK j \in DOMAIN ms : new[i] = ms[j]
      BY <2>1, <2>3, <1>4, <1>6 DEF ToSet
    <3>2. ms[j].id \in Nat \ {0} /\ ms[j].id <= top
      BY HeldFacts
    <3>3. str2 = str
      BY <3>1, <3>2, <1>1, <1>8
    <3> QED  BY <3>1, <3>3, <1>1, <1>8 DEF Placed
  <2> QED  BY <2>2, <2>3
<1>9. str2 # 0 => \/ str2 + Keep <= top + 1
                  \/ \E p \in DOMAIN new : new[p].id = str2 /\ str2 + Len(new) <= (top + 1) + p
  <2>1. CASE str2 = top + 1
    <3>1. CASE Len(more) <= Keep
      <4>1. new = more /\ n + 1 \in DOMAIN new /\ new[n + 1].id = str2 /\ Len(new) = n + 1
        BY <3>1, <2>1, <1>1, <1>3, <1>6
      <4> QED  BY <4>1, <2>1, <1>1
    <3>2. CASE ~(Len(more) <= Keep)
      <4>1. Keep \in 1 .. Keep /\ Keep + 1 = n + 1 /\ Len(new) = Keep /\ DOMAIN new = 1 .. Keep
        BY <3>2, <1>1, <1>3, <1>6
      <4>2. new[Keep].id = str2
        BY <4>1, <3>2, <2>1, <1>3, <1>6
      <4> QED  BY <4>1, <4>2, <2>1, <1>1
    <3> QED  BY <3>1, <3>2
  <2>2. CASE str2 = str /\ str # 0
    <3>1. CASE str + Keep <= top
      BY <3>1, <2>2, <1>1
    <3>2. CASE ~(str + Keep <= top)
      <4>1. PICK p \in DOMAIN ms : ms[p].id = str /\ str + n <= top + p
        BY <3>2, <2>2, <1>1 DEF Placed, n
      <4>2. p \in 1 .. n
        BY <1>1
      <4>3. CASE Len(more) <= Keep
        <5>1. new = more /\ p \in DOMAIN new /\ new[p].id = str /\ Len(new) = n + 1
          BY <4>1, <4>2, <4>3, <1>1, <1>3, <1>6
        <5>2. str + Len(new) <= (top + 1) + p
          BY <5>1, <4>1, <4>2, <1>1
        <5> QED  BY <5>1, <5>2, <2>2
      <4>4. CASE ~(Len(more) <= Keep)
        <5>1. n = Keep /\ Len(new) = Keep /\ DOMAIN new = 1 .. Keep
          BY <4>4, <1>1, <1>3, <1>6
        <5>2. CASE p = 1
          BY <5>1, <5>2, <4>1, <2>2, <1>1
        <5>3. CASE p # 1
          <6>1. p - 1 \in 1 .. Keep /\ (p - 1) + 1 = p
            BY <5>1, <5>3, <4>2, <1>1
          <6>2. new[p - 1].id = str
            BY <6>1, <4>1, <4>2, <4>4, <1>3, <1>6
          <6>3. str + Len(new) <= (top + 1) + (p - 1)
            BY <5>1, <4>1, <4>2, <1>1
          <6> QED  BY <6>1, <6>2, <6>3, <5>1, <2>2
        <5> QED  BY <5>2, <5>3
      <4> QED  BY <4>3, <4>4
    <3> QED  BY <3>1, <3>2
  <2> QED  BY <2>1, <2>2
<1>10. Held(new, str2, top + 1)
  <2>1. str2 \in 0 .. top + 1
    BY <1>1
  <2>2. Placed(new, str2, top + 1)
    BY <1>7, <1>8, <1>9 DEF Placed
  <2> QED  BY <2>1, <2>2, <1>2, <1>6 DEF Held
<1>11. ASSUME NEW v, Agrees(v, ms, top)
       PROVE  ~Has(v, m.id) /\ Agrees(Append(v, m), new, top + 1)
  <2>1. v \in Seq(Messages) /\ Distinct(v, top) /\ ToSet(ms) \subseteq ToSet(v)
    BY <1>11 DEF Agrees
  <2>2. ~Has(v, m.id)
    BY <2>1, <1>1, NewNumber
  <2>3. /\ Append(v, m) \in Seq(Messages) /\ Distinct(Append(v, m), top + 1)
        /\ ToSet(Append(v, m)) = ToSet(v) \union {m}
    BY <2>1, <2>2, <1>1, <1>2, AppendIs
  <2>4. top + 1 <= Keep => Append(v, m) = new
    <3>1. top + 1 <= Keep => top <= Keep
      BY <1>1
    <3> QED  BY <3>1, <1>7, <1>11 DEF Agrees, more
  <2> QED  BY <2>1, <2>2, <2>3, <2>4, <1>4, <1>6 DEF Agrees
<1> QED  BY <1>10, <1>11 DEF new, more

LEMMA AppliedIs ==
    ASSUME NEW v
    PROVE  /\ Applied(v, Tick) = v
           /\ \A m : Applied(v, Output(m)) = Upsert(v, m)
           /\ \A id : Applied(v, StreamReset(id)) = Without(v, id)
           /\ \A id, t : Applied(v, Delta(id, t)) = IF Has(v, id) THEN Extended(v, id, t)
                                                    ELSE Append(v, Said(id, t))
BY DEF Applied, Tick, Output, StreamReset, Delta

\* Messages changed where they are.
LEMMA LikeHeld ==
    ASSUME NEW ms, NEW str, NEW top, Held(ms, str, top), NEW new, Like(ms, new),
           NEW str2 \in {0, str},
           str2 # 0 => \A i \in DOMAIN ms : ms[i].id = str2 => new[i].status = "streaming"
    PROVE  Held(new, str2, top)
<1>1. Distinct(new, top)
  BY LikeDistinct, HeldFacts
<1>2. \A i \in DOMAIN new : new[i].id = str2 => new[i].status = "streaming"
  BY HeldFacts DEF Like
<1>3. Len(new) = Len(ms) /\ (top <= Keep => Len(ms) <= top)
  BY HeldFacts DEF Placed, Like
<1>4. ASSUME str2 # 0 PROVE \/ str2 + Keep <= top
                          \/ \E p \in DOMAIN new : new[p].id = str2 /\ str2 + Len(new) <= top + p
  <2>1. str2 = str /\ str # 0
    BY <1>4
  <2>2. CASE str + Keep <= top
    BY <2>1, <2>2
  <2>3. CASE ~(str + Keep <= top)
    <3>1. PICK p \in DOMAIN ms : ms[p].id = str /\ str + Len(ms) <= top + p
      BY <2>1, <2>3, HeldFacts DEF Placed
    <3>2. p \in DOMAIN new /\ new[p].id = str /\ str + Len(new) <= top + p
      BY <3>1, <1>3 DEF Like
    <3> QED  BY <2>1, <3>2
  <2> QED  BY <2>2, <2>3
<1>5. Placed(new, str2, top)
  BY <1>2, <1>3, <1>4 DEF Placed
<1>6. str2 \in 0 .. top
  BY HeldFacts
<1> QED  BY <1>1, <1>3, <1>5, <1>6, HeldFacts DEF Held, Like

LEMMA NoMoreStream ==
    ASSUME NEW ms, NEW str, NEW top, Held(ms, str, top)
    PROVE  Held(ms, 0, top)
<1>1. Like(ms, ms)
  BY HeldFacts DEF Like
<1> QED  BY <1>1, LikeHeld

LEMMA KeptAll ==
    ASSUME NEW ms, NEW str, NEW top, Held(ms, str, top), NEW new, Like(ms, new)
    PROVE  Kept(new) = new
BY HeldFacts, LikeDistinct, KeptIs DEF Like

\* More text of the message that is streamed.
LEMMA Extending ==
    ASSUME NEW ms, NEW str, NEW top, Held(ms, str, top), str # 0, NEW t \in Seq(Attempts)
    PROVE  /\ Held(Kept(Extended(ms, str, t)), str, top)
           /\ \A v : Agrees(v, ms, top) =>
                 Agrees(Applied(v, Delta(str, t)), Kept(Extended(ms, str, t)), top)
<1> DEFINE new == Extended(ms, str, t)
<1>1. /\ ms \in Seq(Messages) /\ DOMAIN ms = 1 .. Len(ms) /\ top \in Nat /\ str \in Nat \ {0}
      /\ str <= top /\ Placed(ms, str, top)
  BY HeldFacts
<1>2. Like(ms, new) /\ \A i \in DOMAIN ms : new[i] = IF ms[i].id = str THEN Longer(ms[i], t) ELSE ms[i]
  BY <1>1, ExtendedIs
<1>3. \A m \in Messages : Longer(m, t).id = m.id /\ Longer(m, t).status = m.status
  BY LongerIs
<1> HIDE DEF new
<1>4. \A i \in DOMAIN ms : ms[i].id = str => new[i].status = "streaming"
  BY <1>1, <1>2, <1>3, HeldFacts DEF Placed
<1>5. Kept(new) = new /\ Held(new, str, top)
  BY <1>2, <1>4, KeptAll, LikeHeld
<1>6. ASSUME NEW v, Agrees(v, ms, top) PROVE Agrees(Applied(v, Delta(str, t)), new, top)
  <2> DEFINE w == Applied(v, Delta(str, t))
  <2>1. v \in Seq(Messages) /\ Distinct(v, top) /\ ToSet(ms) \subseteq ToSet(v)
        /\ (top <= Keep => v = ms)
    BY <1>6 DEF Agrees
  <2>2. \A i \in DOMAIN ms : \E k \in DOMAIN v : v[k] = ms[i]
    BY <2>1, <1>1, InView
  <2>3. CASE Has(v, str)
    <3>1. w = Extended(v, str, t)
      BY <2>3, AppliedIs
    <3>2. Like(v, w) /\ \A i \in DOMAIN v : w[i] = IF v[i].id = str THEN Longer(v[i], t) ELSE v[i]
      BY <2>1, <3>1, ExtendedIs
    <3>3. top <= Keep => w = new
      BY <2>1, <3>1 DEF new
    <3> HIDE DEF w
    <3>4. ASSUME NEW i \in DOMAIN new PROVE new[i] \in ToSet(w)
      <4>1. i \in DOMAIN ms
        BY <1>2 DEF Like
      <4>2. PICK k \in DOMAIN v : v[k] = ms[i]
        BY <2>2, <4>1
      <4>3. w[k] = new[i] /\ k \in DOMAIN w
        BY <4>1, <4>2, <3>2, <1>2 DEF Like
      <4> QED  BY <4>3 DEF ToSet
    <3>5. Distinct(w, top) /\ w \in Seq(Messages)
      BY <3>2, <2>1, LikeDistinct DEF Like
    <3>6. ToSet(new) \subseteq ToSet(w)
      BY <3>4 DEF ToSet
    <3> QED  BY <3>3, <3>5, <3>6 DEF Agrees, w
  <2>4. CASE ~Has(v, str)
    <3> DEFINE m == Said(str, t)
    <3>1. w = Append(v, m)
      BY <2>4, AppliedIs
    <3>2. m \in Messages /\ m.id = str
      BY <1>1 DEF Said, Messages
    <3> HIDE DEF m
    <3>3. w \in Seq(Messages) /\ Distinct(w, top) /\ ToSet(w) = ToSet(v) \union {m}
      BY <3>1, <3>2, <2>1, <2>4, <1>1, AppendIs
    <3>4. ~Has(ms, str)
      BY <2>1, <2>4, <1>1, InView
    <3>5. \A i \in DOMAIN new : i \in DOMAIN ms /\ new[i] = ms[i]
      BY <3>4, <1>2 DEF Like, Has
    <3>6. ToSet(new) \subseteq ToSet(w)
      BY <3>5, <3>3, <2>1 DEF ToSet
    <3>7. ~(top <= Keep)
      BY <3>4, StillThere
    <3> QED  BY <3>3, <3>6, <3>7 DEF Agrees
  <2> QED  BY <2>3, <2>4
<1> QED  BY <1>5, <1>6 DEF new

\* The message of a number is replaced, where it is.
LEMMA Replacing ==
    ASSUME NEW ms, NEW str, NEW top, Held(ms, str, top), NEW m \in Messages, Has(ms, m.id)
    PROVE  /\ Kept(Updated(ms, m)) = Updated(ms, m)
           /\ m.id = str => Held(Updated(ms, m), 0, top)
           /\ \A v : Agrees(v, ms, top) => Agrees(Upsert(v, m), Updated(ms, m), top)
<1> DEFINE new == Updated(ms, m)
<1>1. ms \in Seq(Messages) /\ DOMAIN ms = 1 .. Len(ms) /\ top \in Nat
  BY HeldFacts
<1>2. Like(ms, new) /\ \A i \in DOMAIN ms : new[i] = IF ms[i].id = m.id THEN m ELSE ms[i]
  BY <1>1, UpdatedIs
<1> HIDE DEF new
<1>3. Kept(new) = new /\ Held(new, 0, top)
  BY <1>2, KeptAll, LikeHeld
<1>4. ASSUME NEW v, Agrees(v, ms, top) PROVE Agrees(Upsert(v, m), new, top)
  <2> DEFINE w == Upsert(v, m)
  <2>1. v \in Seq(Messages) /\ Distinct(v, top) /\ ToSet(ms) \subseteq ToSet(v)
        /\ (top <= Keep => v = ms)
    BY <1>4 DEF Agrees
  <2>2. Has(v, m.id) /\ \A i \in DOMAIN ms : \E k \in DOMAIN v : v[k] = ms[i]
    BY <2>1, <1>1, InView
  <2>3. w = Updated(v, m)
    BY <2>2 DEF Upsert
  <2>4. Like(v, w) /\ \A i \in DOMAIN v : w[i] = IF v[i].id = m.id THEN m ELSE v[i]
    BY <2>1, <2>3, UpdatedIs
  <2>5. top <= Keep => w = new
    BY <2>1, <2>3 DEF new
  <2> HIDE DEF w
  <2>6. ASSUME NEW i \in DOMAIN new PROVE new[i] \in ToSet(w)
    <3>1. i \in DOMAIN ms
      BY <1>2 DEF Like
    <3>2. PICK k \in DOMAIN v : v[k] = ms[i]
      BY <2>2, <3>1
    <3>3. w[k] = new[i] /\ k \in DOMAIN w
      BY <3>1, <3>2, <2>4, <1>2 DEF Like
    <3> QED  BY <3>3 DEF ToSet
  <2>7. Distinct(w, top) /\ w \in Seq(Messages)
    BY <2>4, <2>1, LikeDistinct DEF Like
  <2>8. ToSet(new) \subseteq ToSet(w)
    BY <2>6 DEF ToSet
  <2> QED  BY <2>5, <2>7, <2>8 DEF Agrees, w
<1> QED  BY <1>3, <1>4 DEF new

\* The whole answer, for the message that was streamed or behind the others.
LEMMA Answering ==
    ASSUME NEW ms, NEW str, NEW top, Held(ms, str, top), str # 0, NEW m \in Messages, m.id = str
    PROVE  /\ Held(Kept(Upsert(ms, m)), 0, top)
           /\ \A v : Agrees(v, ms, top) => Agrees(Upsert(v, m), Kept(Upsert(ms, m)), top)
<1>1. CASE Has(ms, str)
  <2>1. Upsert(ms, m) = Updated(ms, m)
    BY <1>1 DEF Upsert
  <2> QED  BY <2>1, <1>1, Replacing
<1>2. CASE ~Has(ms, str)
  <2> DEFINE more == Append(ms, m)
             new == Kept(more)
  <2>1. Upsert(ms, m) = more
    BY <1>2 DEF Upsert
  <2>2. /\ ms \in Seq(Messages) /\ Distinct(ms, top) /\ top \in Nat /\ m.id <= top /\ top <= top
        /\ Len(ms) \in Nat /\ Len(ms) <= Keep /\ Keep \in Nat
    BY HeldFacts
  <2>3. /\ more \in Seq(Messages) /\ Distinct(more, top) /\ ToSet(more) = ToSet(ms) \union {m}
        /\ Len(more) = Len(ms) + 1
    BY <1>2, <2>2, AppendIs, Appended
  <2> HIDE DEF more
  <2>4. Len(more) <= Keep + 1
    BY <2>2, <2>3
  <2>5. /\ new \in Seq(Messages) /\ Len(new) <= Keep /\ Distinct(new, top)
        /\ ToSet(new) \subseteq ToSet(more)
    BY <2>2, <2>3, <2>4, KeptIs
  <2> HIDE DEF new
  <2>6. ~(top <= Keep)
    BY <1>2, StillThere
  <2>7. \A i \in DOMAIN new : new[i].id # 0
    BY <2>5, MessageIs
  <2>8. Held(new, 0, top)
    <3>1. 0 \in 0 .. top
      BY <2>2
    <3> QED  BY <3>1, <2>2, <2>5, <2>6, <2>7 DEF Held, Placed
  <2>9. ASSUME NEW v, Agrees(v, ms, top) PROVE Agrees(Upsert(v, m), new, top)
    <3>1. v \in Seq(Messages) /\ Distinct(v, top) /\ ToSet(ms) \subseteq ToSet(v)
      BY <2>9 DEF Agrees
    <3>2. CASE Has(v, str)
      <4> DEFINE w == Updated(v, m)
      <4>1. Upsert(v, m) = w
        BY <3>2 DEF Upsert
      <4>2. Like(v, w) /\ \A i \in DOMAIN v : w[i] = IF v[i].id = m.id THEN m ELSE v[i]
        BY <3>1, UpdatedIs
      <4> HIDE DEF w
      <4>3. w \in Seq(Messages) /\ Distinct(w, top)
        BY <4>2, <3>1, LikeDistinct DEF Like
      <4>4. m \in ToSet(w)
        BY <4>2, <3>2 DEF ToSet, Like, Has
      <4>5. ASSUME NEW i \in DOMAIN ms PROVE ms[i] \in ToSet(w)
        <5>1. PICK k \in DOMAIN v : v[k] = ms[i]
          BY <3>1, <2>2, InView
        <5>2. w[k] = ms[i] /\ k \in DOMAIN w
          BY <5>1, <4>2, <1>2 DEF Has, Like
        <5> QED  BY <5>2 DEF ToSet
      <4>6. ToSet(new) \subseteq ToSet(w)
        BY <4>4, <4>5, <2>3, <2>5 DEF ToSet
      <4> QED  BY <4>1, <4>3, <4>6, <2>6 DEF Agrees
    <3>3. CASE ~Has(v, str)
      <4>1. Upsert(v, m) = Append(v, m)
        BY <3>3 DEF Upsert
      <4>2. /\ Append(v, m) \in Seq(Messages) /\ Distinct(Append(v, m), top)
            /\ ToSet(Append(v, m)) = ToSet(v) \union {m}
        BY <3>1, <3>3, <2>2, AppendIs
      <4>3. ToSet(new) \subseteq ToSet(Append(v, m))
        BY <4>2, <3>1, <2>3, <2>5
      <4> QED  BY <4>1, <4>2, <4>3, <2>6 DEF Agrees
    <3> QED  BY <3>2, <3>3
  <2> QED  BY <2>1, <2>8, <2>9 DEF new
<1> QED  BY <1>1, <1>2

\* What was streamed is taken back.
LEMMA TakingBack ==
    ASSUME NEW ms, NEW str, NEW top, Held(ms, str, top), NEW new,
           new = IF Has(ms, str) /\ ms[Place(ms, str)].status = "streaming"
                 THEN Without(ms, str) ELSE ms
    PROVE  /\ Held(new, 0, top) /\ ~Has(new, str) /\ ToSet(new) \subseteq ToSet(ms)
           /\ \A v : Agrees(v, ms, top) => Agrees(Without(v, str), new, top)
<1>1. /\ ms \in Seq(Messages) /\ Distinct(ms, top) /\ top \in Nat /\ str \in Nat
      /\ Len(ms) \in Nat /\ Len(ms) <= Keep /\ Keep \in Nat /\ Placed(ms, str, top)
      /\ DOMAIN ms = 1 .. Len(ms)
  BY HeldFacts
<1>2. new = Without(ms, str)
  <2>1. ASSUME Has(ms, str) PROVE ms[Place(ms, str)].status = "streaming"
    <3>1. Place(ms, str) \in DOMAIN ms /\ ms[Place(ms, str)].id = str
      BY <2>1 DEF Has, Place
    <3> QED  BY <3>1, <1>1 DEF Placed
  <2> QED  BY <2>1 DEF Without
<1>3. CASE ~Has(ms, str)
  <2>1. new = ms
    BY <1>2, <1>3 DEF Without
  <2>2. ASSUME NEW v, Agrees(v, ms, top) PROVE Agrees(Without(v, str), ms, top)
    <3>1. v \in Seq(Messages) /\ Distinct(v, top) /\ ToSet(ms) \subseteq ToSet(v)
          /\ (top <= Keep => v = ms)
      BY <2>2 DEF Agrees
    <3>2. CASE ~Has(v, str)
      BY <2>2, <3>2 DEF Without
    <3>3. CASE Has(v, str)
      <4>1. /\ Without(v, str) \in Seq(Messages) /\ Distinct(Without(v, str), top)
            /\ ToSet(Without(v, str)) = {m \in ToSet(v) : m.id # str}
        BY <3>1, <3>3, <1>1, WithoutIs
      <4>2. \A m \in ToSet(ms) : m.id # str
        BY <1>3 DEF Has, ToSet
      <4>3. ~(top <= Keep)
        BY <3>1, <3>3, <1>3
      <4> QED  BY <4>1, <4>2, <4>3, <3>1 DEF Agrees
    <3> QED  BY <3>2, <3>3
  <2> QED  BY <2>1, <2>2, <1>3, NoMoreStream
<1>4. CASE Has(ms, str)
  <2>1. /\ new \in Seq(Messages) /\ Len(new) = Len(ms) - 1 /\ Distinct(new, top) /\ ~Has(new, str)
        /\ ToSet(new) = {m \in ToSet(ms) : m.id # str}
    BY <1>1, <1>2, <1>4, WithoutIs
  <2>2. \A i \in DOMAIN new : new[i].id # 0
    BY <2>1, MessageIs
  <2> DEFINE l == Len(ms)
             k == Len(new)
  <2>9. k = l - 1 /\ l \in Nat /\ l <= Keep /\ (top <= Keep => l <= top)
    BY <1>1, <2>1 DEF Placed
  <2> HIDE DEF l, k
  <2>10. k <= Keep /\ (top <= Keep => k <= top) /\ 0 \in 0 .. top
    BY <2>9, <1>1
  <2>3. top <= Keep => Len(new) <= top
    BY <2>10 DEF k
  <2>4. Held(new, 0, top)
    <3>1. 0 \in 0 .. top /\ Len(new) <= Keep
      BY <2>10 DEF k
    <3> QED  BY <3>1, <2>1, <2>2, <2>3, <1>1 DEF Held, Placed
  <2>5. ASSUME NEW v, Agrees(v, ms, top) PROVE Agrees(Without(v, str), new, top)
    <3>1. v \in Seq(Messages) /\ Distinct(v, top) /\ ToSet(ms) \subseteq ToSet(v)
          /\ (top <= Keep => v = ms)
      BY <2>5 DEF Agrees
    <3>2. Has(v, str)
      BY <3>1, <1>1, <1>4, InView
    <3>3. /\ Without(v, str) \in Seq(Messages) /\ Distinct(Without(v, str), top)
          /\ ToSet(Without(v, str)) = {m \in ToSet(v) : m.id # str}
      BY <3>1, <3>2, <1>1, WithoutIs
    <3>4. top <= Keep => Without(v, str) = new
      BY <3>1, <1>2
    <3> QED  BY <3>1, <3>3, <3>4, <2>1 DEF Agrees
  <2> QED  BY <2>1, <2>4, <2>5
<1> QED  BY <1>3, <1>4
-----------------------------------------------------------------------------
(* The project and its clients *)

ProjectHeld == Held(messages, stream, next)

ClientsAgree ==
    \A c \in Clients : subs[c].state = "on" =>
        Agrees(Shown(subs[c].view, subs[c].chan), messages, next)

ChannelsOK == subs \in [Clients -> Channels] /\ \A c \in Clients : Len(subs[c].chan) <= Capacity

\* A step tells every client of the project's new messages, by one frame and
\* possibly an event behind it.
Told(frame) ==
    /\ Publish(frame) \/ PublishBoth(frame, Tick)
    /\ Held(messages', stream', next')
    /\ \A v : Agrees(v, messages, next) => Agrees(Applied(v, frame), messages', next')

Moves == \/ UNCHANGED <<messages, stream, next, subs>>
         \/ \E frame \in Frames : Told(frame)

LEMMA FrameIs ==
    /\ Tick \in Frames
    /\ \A id \in Nat \ {0}, t \in Seq(Attempts) : Delta(id, t) \in Frames
    /\ \A m \in Messages : Output(m) \in Frames
    /\ \A id \in Nat : StreamReset(id) \in Frames
BY DEF Frames, Tick, Delta, Output, StreamReset

LEMMA RemovedTyped ==
    ASSUME NEW v \in Seq(Messages), NEW k \in 1 .. Len(v)
    PROVE  RemoveAt(v, k) \in Seq(Messages)
<1>1. SubSeq(v, 1, k - 1) \in Seq(Messages) /\ SubSeq(v, k + 1, Len(v)) \in Seq(Messages)
  OBVIOUS
<1> QED  BY <1>1, Joined DEF RemoveAt

\* Reading a frame keeps a view one of messages.
LEMMA AppliedTyped ==
    ASSUME NEW v \in Seq(Messages), NEW frame \in Frames
    PROVE  Applied(v, frame) \in Seq(Messages)
<1>1. ASSUME NEW m \in Messages PROVE Upsert(v, m) \in Seq(Messages)
  <2>1. Updated(v, m) \in Seq(Messages)
    BY UpdatedIs DEF Like
  <2>2. Append(v, m) \in Seq(Messages)
    BY Appended
  <2> QED  BY <2>1, <2>2 DEF Upsert
<1>2. CASE frame = Tick
  BY <1>2, AppliedIs
<1>3. CASE frame \in [kind : {"output"}, message : Messages]
  <2>1. frame.message \in Messages /\ frame.kind = "output"
    BY <1>3
  <2> QED  BY <1>1, <2>1 DEF Applied
<1>4. CASE frame \in [kind : {"reset"}, id : Nat]
  <2>1. frame.kind = "reset"
    BY <1>4
  <2>2. Without(v, frame.id) \in Seq(Messages)
    <3>1. CASE Has(v, frame.id)
      <4>1. Place(v, frame.id) \in 1 .. Len(v)
        BY <3>1 DEF Has, Place
      <4> QED  BY <4>1, <3>1, RemovedTyped DEF Without
    <3> QED  BY <3>1 DEF Without
  <2> QED  BY <2>1, <2>2 DEF Applied
<1>5. CASE frame \in [kind : {"delta"}, id : Nat \ {0}, text : Seq(Attempts)]
  <2>1. frame.kind = "delta" /\ frame.id \in Nat \ {0} /\ frame.text \in Seq(Attempts)
    BY <1>5
  <2>2. Extended(v, frame.id, frame.text) \in Seq(Messages)
    BY <2>1, ExtendedIs DEF Like
  <2>3. Said(frame.id, frame.text) \in Messages
    BY <2>1 DEF Said, Messages
  <2>4. Append(v, Said(frame.id, frame.text)) \in Seq(Messages)
    BY <2>3, Appended
  <2> QED  BY <2>1, <2>2, <2>4 DEF Applied
<1> QED  BY <1>2, <1>3, <1>4, <1>5 DEF Frames

LEMMA OffIs == Off \in Channels /\ Off.state = "off" /\ Off.chan = <<>> /\ Len(Off.chan) = 0
<1>1. \A f \in Seq(Frames), v \in Seq(Messages) :
         [state |-> "off", chan |-> f, view |-> v] \in Channels
  BY DEF Channels
<1>2. <<>> \in Seq(Frames) /\ <<>> \in Seq(Messages)
  OBVIOUS
<1>3. Off \in Channels
  BY <1>1, <1>2 DEF Off
<1> QED  BY <1>3 DEF Off

LEMMA IdleIs == Idle \in Calls
<1>1. \A t \in Seq(Attempts) :
         [pc |-> "idle", n |-> 0, retries |-> 0, delivered |-> FALSE, text |-> t, got |-> t] \in Calls
  BY StreamAssumption DEF Calls
<1>2. <<>> \in Seq(Attempts)
  OBVIOUS
<1> QED  BY <1>1, <1>2 DEF Idle

LEMMA MadeIs ==
    ASSUME NEW id \in Nat
    PROVE  /\ [id |-> id + 1, by |-> "user", status |-> "queued", text |-> <<>>] \in Messages
           /\ [id |-> id + 1, by |-> "user", status |-> "queued", text |-> <<>>].id = id + 1
           /\ [id |-> id + 1, by |-> "report", status |-> "complete", text |-> <<>>] \in Messages
           /\ [id |-> id + 1, by |-> "report", status |-> "complete", text |-> <<>>].id = id + 1
<1>1. \A t \in Seq(Attempts) :
         /\ [id |-> id + 1, by |-> "user", status |-> "queued", text |-> t] \in Messages
         /\ [id |-> id + 1, by |-> "report", status |-> "complete", text |-> t] \in Messages
  BY DEF Messages
<1>2. <<>> \in Seq(Attempts)
  OBVIOUS
<1> QED  BY <1>1, <1>2

LEMMA SentIs ==
    ASSUME NEW sub \in Channels, NEW frame \in Frames, Len(sub.chan) <= Capacity
    PROVE  /\ Sent(sub, frame) \in Channels /\ Len(Sent(sub, frame).chan) <= Capacity
           /\ Sent(sub, frame).state = "on" =>
                 /\ sub.state = "on" /\ Sent(sub, frame).view = sub.view
                 /\ Sent(sub, frame).chan = Append(sub.chan, frame)
<1>1. /\ sub.state \in {"off", "on", "cut"} /\ sub.chan \in Seq(Frames) /\ sub.view \in Seq(Messages)
      /\ Capacity \in Nat
  BY StreamAssumption DEF Channels
<1>2. CASE sub.state # "on"
  BY <1>2 DEF Sent
<1>3. CASE sub.state = "on" /\ Len(sub.chan) < Capacity
  <2> DEFINE more == Append(sub.chan, frame)
             n == Len(sub.chan)
             m == Len(more)
  <2>1. more \in Seq(Frames) /\ m = n + 1 /\ n \in Nat /\ n < Capacity
    BY <1>1, <1>3, Appended
  <2> HIDE DEF more, n, m
  <2>2. m <= Capacity
    BY <2>1, <1>1
  <2>3. Sent(sub, frame) = [sub EXCEPT !.chan = more]
    BY <1>3 DEF Sent, more
  <2>4. /\ Sent(sub, frame) \in Channels /\ Sent(sub, frame).chan = more
        /\ Sent(sub, frame).view = sub.view
    BY <2>1, <2>3 DEF Channels
  <2> QED  BY <2>2, <2>4, <1>3 DEF m, more
<1>4. CASE sub.state = "on" /\ ~(Len(sub.chan) < Capacity)
  <2>1. Sent(sub, frame) = [sub EXCEPT !.state = "cut"]
    BY <1>4 DEF Sent
  <2>2. /\ Sent(sub, frame) \in Channels /\ Sent(sub, frame).chan = sub.chan
        /\ Sent(sub, frame).state = "cut"
    BY <2>1 DEF Channels
  <2> QED  BY <2>2
<1> QED  BY <1>2, <1>3, <1>4

\* The frame reaches every client that stays connected.
LEMMA ToldIs ==
    ASSUME ChannelsOK, ClientsAgree, NEW frame \in Frames, Told(frame)
    PROVE  ChannelsOK' /\ ClientsAgree'
<1>1. ASSUME NEW c \in Clients
      PROVE  /\ subs'[c] \in Channels /\ Len(subs'[c].chan) <= Capacity
             /\ subs'[c].state = "on" => Agrees(Shown(subs'[c].view, subs'[c].chan), messages', next')
  <2> DEFINE sub == subs[c]
             view == Shown(sub.view, sub.chan)
  <2>1. sub \in Channels /\ Len(sub.chan) <= Capacity /\ sub.chan \in Seq(Frames)
    BY DEF ChannelsOK, Channels
  <2>2. sub.state = "on" => Agrees(view, messages, next)
    BY DEF ClientsAgree
  <2> HIDE DEF sub
  <2> DEFINE one == Sent(sub, frame)
             two == Sent(one, Tick)
  <2>3. /\ one \in Channels /\ Len(one.chan) <= Capacity
        /\ one.state = "on" => /\ sub.state = "on" /\ one.view = sub.view
                               /\ one.chan = Append(sub.chan, frame)
    BY <2>1, SentIs
  <2>4. one.chan \in Seq(Frames) /\ Tick \in Frames
    BY <2>3, FrameIs DEF Channels
  <2>5. one.state = "on" => Shown(one.view, one.chan) = Applied(view, frame)
    <3>1. Shown(sub.view, Append(sub.chan, frame)) = Applied(view, frame)
      BY <2>1, ShownMore
    <3> QED  BY <2>3, <3>1
  <2> HIDE DEF one, view
  <2>6. /\ two \in Channels /\ Len(two.chan) <= Capacity
        /\ two.state = "on" => one.state = "on" /\ two.view = one.view /\ two.chan = Append(one.chan, Tick)
    BY <2>3, <2>4, SentIs
  <2>7. two.state = "on" => Shown(two.view, two.chan) = Shown(one.view, one.chan)
    <3>2. Shown(one.view, Append(one.chan, Tick)) = Applied(Shown(one.view, one.chan), Tick)
      BY <2>4, ShownMore
    <3>3. Applied(Shown(one.view, one.chan), Tick) = Shown(one.view, one.chan)
      BY AppliedIs
    <3> QED  BY <2>6, <3>2, <3>3
  <2> HIDE DEF two
  <2>8. subs'[c] = one \/ subs'[c] = two
    BY DEF Told, Publish, PublishBoth, one, two, sub
  <2>9. Agrees(view, messages, next) => Agrees(Applied(view, frame), messages', next')
    BY DEF Told
  <2> QED  BY <2>2, <2>3, <2>5, <2>6, <2>7, <2>8, <2>9
<1>2. subs' = [c \in Clients |-> subs'[c]]
  BY DEF Told, Publish, PublishBoth
<1> QED  BY <1>1, <1>2 DEF ChannelsOK, ClientsAgree

LEMMA EventMoves ==
    ASSUME ProjectHeld, Event
    PROVE  Moves
BY FrameIs, AppliedIs DEF Event, Moves, Told, ProjectHeld

LEMMA ShowDeltaMoves ==
    ASSUME ProjectHeld, NEW t \in Seq(Attempts), ShowDelta(t)
    PROVE  Moves
<1>1. next \in Nat /\ stream \in Nat
  BY HeldFacts DEF ProjectHeld
<1>2. CASE stream = 0
  <2> DEFINE m == Said(next + 1, t)
  <2>1. m \in Messages /\ m.id = next + 1 /\ m.status = "streaming"
    BY <1>1 DEF Said, Messages
  <2>2. /\ stream' = next + 1 /\ next' = next + 1 /\ messages' = Kept(Append(messages, m))
        /\ Publish(Delta(next + 1, t))
    BY <1>2 DEF ShowDelta
  <2>3. \A v : ~Has(v, m.id) => Applied(v, Delta(next + 1, t)) = Append(v, m)
    BY <2>1, AppliedIs
  <2> HIDE DEF m
  <2>4. /\ Held(Kept(Append(messages, m)), next + 1, next + 1)
        /\ \A v : Agrees(v, messages, next) =>
              ~Has(v, m.id) /\ Agrees(Append(v, m), Kept(Append(messages, m)), next + 1)
    BY <2>1, Adding DEF ProjectHeld
  <2>5. Told(Delta(next + 1, t))
    BY <2>2, <2>3, <2>4 DEF Told
  <2>6. Delta(next + 1, t) \in Frames
    BY <1>1, FrameIs
  <2> QED  BY <2>5, <2>6 DEF Moves
<1>3. CASE stream # 0
  <2>1. /\ stream' = stream /\ next' = next /\ messages' = Kept(Extended(messages, stream, t))
        /\ Publish(Delta(stream, t))
    BY <1>3 DEF ShowDelta
  <2>2. /\ Held(Kept(Extended(messages, stream, t)), stream, next)
        /\ \A v : Agrees(v, messages, next) =>
              Agrees(Applied(v, Delta(stream, t)), Kept(Extended(messages, stream, t)), next)
    BY <1>3, Extending DEF ProjectHeld
  <2>3. Told(Delta(stream, t))
    BY <2>1, <2>2 DEF Told
  <2>4. Delta(stream, t) \in Frames
    BY <1>1, <1>3, FrameIs
  <2> QED  BY <2>3, <2>4 DEF Moves
<1> QED  BY <1>2, <1>3

LEMMA ShowFailureMoves ==
    ASSUME ProjectHeld, ShowFailure
    PROVE  Moves
<1>1. next' = next /\ stream' = 0
  BY DEF ShowFailure
<1>2. CASE Has(messages, stream)
  <2> DEFINE m == [messages[Place(messages, stream)] EXCEPT !.status = "error"]
  <2>1. Place(messages, stream) \in DOMAIN messages /\ messages[Place(messages, stream)].id = stream
    BY <1>2 DEF Has, Place
  <2>2. m \in Messages /\ m.id = stream
    <3>1. messages[Place(messages, stream)] \in Messages
      BY <2>1, HeldFacts DEF ProjectHeld
    <3> QED  BY <3>1, <2>1 DEF Messages
  <2>3. messages' = Updated(messages, m) /\ PublishBoth(Output(m), Tick)
    BY <1>2 DEF ShowFailure
  <2> HIDE DEF m
  <2>4. /\ Held(Updated(messages, m), 0, next)
        /\ \A v : Agrees(v, messages, next) => Agrees(Upsert(v, m), Updated(messages, m), next)
    BY <1>2, <2>2, Replacing DEF ProjectHeld
  <2>5. Told(Output(m)) /\ Output(m) \in Frames
    BY <1>1, <2>2, <2>3, <2>4, AppliedIs, FrameIs DEF Told
  <2> QED  BY <2>5 DEF Moves
<1>3. CASE ~Has(messages, stream)
  <2>1. messages' = messages /\ Publish(Tick)
    BY <1>3 DEF ShowFailure
  <2>2. Held(messages, 0, next)
    BY NoMoreStream DEF ProjectHeld
  <2>3. Told(Tick)
    BY <1>1, <2>1, <2>2, AppliedIs DEF Told
  <2> QED  BY <2>3, FrameIs DEF Moves
<1> QED  BY <1>2, <1>3

LEMMA TakeBackMoves ==
    ASSUME ProjectHeld, TakeBack
    PROVE  Moves
<1> DEFINE new == IF Has(messages, stream) /\ messages[Place(messages, stream)].status = "streaming"
                  THEN Without(messages, stream) ELSE messages
<1>1. messages' = new /\ stream' = 0 /\ next' = next /\ PublishBoth(StreamReset(stream), Tick)
  BY DEF TakeBack
<1>2. /\ Held(new, 0, next)
      /\ \A v : Agrees(v, messages, next) => Agrees(Without(v, stream), new, next)
  BY TakingBack DEF ProjectHeld
<1> HIDE DEF new
<1>5. \A v : Applied(v, StreamReset(stream)) = Without(v, stream)
  BY AppliedIs
<1>3. Told(StreamReset(stream))
  BY <1>1, <1>2, <1>5 DEF Told
<1>4. StreamReset(stream) \in Frames
  BY FrameIs, HeldFacts DEF ProjectHeld
<1> QED  BY <1>3, <1>4 DEF Moves

LEMMA ShowAnswerMoves ==
    ASSUME ProjectHeld, NEW t \in Seq(Attempts), ShowAnswer(t)
    PROVE  Moves
<1> DEFINE id == IF stream = 0 THEN next + 1 ELSE stream
           m == [id |-> id, by |-> Manager, status |-> "complete", text |-> t]
           top == IF stream = 0 THEN next + 1 ELSE next
<1>1. next \in Nat /\ stream \in Nat /\ messages \in Seq(Messages) /\ Distinct(messages, next)
  BY HeldFacts DEF ProjectHeld
<1>2. m \in Messages /\ m.id = id
  BY <1>1 DEF Messages
<1>3. next' = top /\ messages' = Kept(Upsert(messages, m)) /\ stream' = 0 /\ Publish(Output(m))
  BY DEF ShowAnswer
<1> HIDE DEF m
<1>4. /\ Held(Kept(Upsert(messages, m)), 0, top)
      /\ \A v : Agrees(v, messages, next) => Agrees(Upsert(v, m), Kept(Upsert(messages, m)), top)
  <2>1. CASE stream = 0
    <3>1. ~Has(messages, m.id)
      BY <2>1, <1>1, <1>2, NewNumber
    <3>2. Upsert(messages, m) = Append(messages, m)
      BY <3>1 DEF Upsert
    <3>3. /\ Held(Kept(Append(messages, m)), 0, next + 1)
          /\ \A v : Agrees(v, messages, next) =>
                ~Has(v, m.id) /\ Agrees(Append(v, m), Kept(Append(messages, m)), next + 1)
      BY <2>1, <1>1, <1>2, Adding DEF ProjectHeld
    <3> QED  BY <2>1, <3>2, <3>3 DEF Upsert
  <2>2. CASE stream # 0
    BY <2>2, <1>2, Answering DEF ProjectHeld
  <2> QED  BY <2>1, <2>2
<1> HIDE DEF top
<1>5. \A v : Applied(v, Output(m)) = Upsert(v, m)
  BY AppliedIs
<1>6. Told(Output(m))
  BY <1>3, <1>4, <1>5 DEF Told
<1>7. Output(m) \in Frames
  BY <1>2, FrameIs
<1> QED  BY <1>6, <1>7 DEF Moves

\* A message of a user or a task, behind the others.
LEMMA PostMoves ==
    ASSUME ProjectHeld, NEW m \in Messages, m.id = next + 1, next' = next + 1, stream' = stream,
           messages' = Kept(Append(messages, m)), Publish(Output(m))
    PROVE  Moves
<1>1. next \in Nat /\ stream \in Nat /\ stream <= next
  BY HeldFacts DEF ProjectHeld
<1>2. /\ Held(Kept(Append(messages, m)), stream, next + 1)
      /\ \A v : Agrees(v, messages, next) =>
            ~Has(v, m.id) /\ Agrees(Append(v, m), Kept(Append(messages, m)), next + 1)
  BY <1>1, Adding DEF ProjectHeld
<1>3. \A v : Agrees(v, messages, next) => Applied(v, Output(m)) = Append(v, m)
  BY <1>2, AppliedIs DEF Upsert
<1>4. Told(Output(m)) /\ Output(m) \in Frames
  BY <1>2, <1>3, FrameIs DEF Told
<1> QED  BY <1>4 DEF Moves
-----------------------------------------------------------------------------
(* Calls *)

\* A step changes the call of w only, to the fields given.
CallIs(w, pc, n, retries, delivered, text, got) ==
    /\ call' \in [Callers -> Calls]
    /\ \A u \in Callers \ {w} : call'[u] = call[u]
    /\ call'[w].pc = pc /\ call'[w].n = n /\ call'[w].retries = retries
    /\ call'[w].delivered = delivered /\ call'[w].text = text /\ call'[w].got = got

LEMMA CallFacts ==
    ASSUME TypeOK, NEW w \in Callers
    PROVE  /\ call \in [Callers -> Calls] /\ call[w] \in Calls
           /\ call[w].pc \in {"idle", "send", "wait", "read", "said"}
           /\ call[w].n \in Nat /\ call[w].retries \in 0 .. MaxRetries /\ MaxRetries \in Nat
           /\ call[w].retries \in Nat /\ call[w].delivered \in BOOLEAN
           /\ call[w].text \in Seq(Attempts) /\ call[w].got \in Seq(Attempts)
           /\ Attempt(w) \in Attempts /\ <<Attempt(w)>> \in Seq(Attempts)
<1>1. call[w] \in Calls /\ call \in [Callers -> Calls] /\ MaxRetries \in Nat
  BY StreamAssumption DEF TypeOK
<1>2. /\ call[w].pc \in {"idle", "send", "wait", "read", "said"}
      /\ call[w].n \in Nat /\ call[w].retries \in 0 .. MaxRetries
      /\ call[w].delivered \in BOOLEAN
      /\ call[w].text \in Seq(Attempts) /\ call[w].got \in Seq(Attempts)
  BY <1>1 DEF Calls
<1>3. call[w].retries \in Nat
  BY <1>1, <1>2
<1>4. Attempt(w) \in Attempts
  BY <1>2, <1>3 DEF Attempt, Attempts
<1>5. <<Attempt(w)>> \in Seq(Attempts)
  BY <1>4
<1> QED  BY <1>1, <1>2, <1>3, <1>4, <1>5

\* One record of a call takes the place of another.
LEMMA PutIs ==
    ASSUME TypeOK, NEW w \in Callers, NEW k \in Calls, call' = [call EXCEPT ![w] = k]
    PROVE  CallIs(w, k.pc, k.n, k.retries, k.delivered, k.text, k.got)
BY CallFacts DEF CallIs

LEMMA PcIs ==
    ASSUME TypeOK, NEW w \in Callers, NEW pc \in {"idle", "send", "wait", "read", "said"},
           call' = [call EXCEPT ![w].pc = pc]
    PROVE  CallIs(w, pc, call[w].n, call[w].retries, call[w].delivered, call[w].text, call[w].got)
<1> DEFINE k == [call[w] EXCEPT !.pc = pc]
<1>1. k \in Calls /\ k.pc = pc /\ k.n = call[w].n /\ k.retries = call[w].retries
      /\ k.delivered = call[w].delivered /\ k.text = call[w].text /\ k.got = call[w].got
  BY CallFacts DEF Calls
<1>2. call' = [call EXCEPT ![w] = k]
  OBVIOUS
<1> HIDE DEF k
<1> QED  BY <1>1, <1>2, PutIs

LEMMA StartedIs ==
    ASSUME TypeOK, NEW w \in Callers, call' = Started(w)
    PROVE  CallIs(w, "send", call[w].n + 1, 0, FALSE, <<>>, <<>>)
<1> DEFINE k == [Idle EXCEPT !.pc = "send", !.n = call[w].n + 1]
<1>1. <<>> \in Seq(Attempts) /\ call[w].n + 1 \in Nat /\ 0 \in 0 .. MaxRetries /\ 0 \in Nat
  BY CallFacts
<1>2. \A n \in Nat, e \in Seq(Attempts) :
         LET i == [pc |-> "idle", n |-> 0, retries |-> 0, delivered |-> FALSE, text |-> e, got |-> e]
             j == [i EXCEPT !.pc = "send", !.n = n]
         IN /\ j \in Calls /\ j.pc = "send" /\ j.n = n /\ j.retries = 0
            /\ j.delivered = FALSE /\ j.text = e /\ j.got = e
  BY <1>1 DEF Calls
<1>3. /\ k \in Calls /\ k.pc = "send" /\ k.n = call[w].n + 1 /\ k.retries = 0
      /\ k.delivered = FALSE /\ k.text = <<>> /\ k.got = <<>>
  BY <1>1, <1>2 DEF Idle
<1>4. call' = [call EXCEPT ![w] = k]
  BY DEF Started
<1> HIDE DEF k
<1> QED  BY <1>3, <1>4, PutIs

LEMMA RetryIs ==
    ASSUME TypeOK, NEW w \in Callers, NEW reset \in BOOLEAN, Budget(w), Retry(w, reset)
    PROVE  CallIs(w, "wait", call[w].n, call[w].retries + 1, call[w].delivered, call[w].text,
                  IF reset THEN <<>> ELSE call[w].got)
<1> DEFINE k == [call[w] EXCEPT !.retries = call[w].retries + 1, !.pc = "wait",
                                !.got = IF reset THEN <<>> ELSE call[w].got]
<1>1. call[w].retries + 1 \in 0 .. MaxRetries
  BY CallFacts DEF Budget
<1>2. (IF reset THEN <<>> ELSE call[w].got) \in Seq(Attempts)
  BY CallFacts
<1>3. k \in Calls /\ k.pc = "wait" /\ k.n = call[w].n /\ k.retries = call[w].retries + 1
      /\ k.delivered = call[w].delivered /\ k.text = call[w].text
      /\ k.got = IF reset THEN <<>> ELSE call[w].got
  BY <1>1, <1>2, CallFacts DEF Calls
<1>4. call' = [call EXCEPT ![w] = k]
  BY CallFacts DEF Retry
<1> HIDE DEF k
<1> QED  BY <1>3, <1>4, PutIs

\* The response begins.
LEMMA ReadIs ==
    ASSUME TypeOK, NEW w \in Callers,
           call' = [call EXCEPT ![w].pc = "read", ![w].delivered = FALSE, ![w].text = <<>>]
    PROVE  CallIs(w, "read", call[w].n, call[w].retries, FALSE, <<>>, call[w].got)
<1> DEFINE k == [call[w] EXCEPT !.pc = "read", !.delivered = FALSE, !.text = <<>>]
<1>3. <<>> \in Seq(Attempts)
  OBVIOUS
<1>4. k \in Calls /\ k.text = <<>>
  BY <1>3, CallFacts DEF Calls
<1>1. k.pc = "read" /\ k.n = call[w].n /\ k.retries = call[w].retries
      /\ k.delivered = FALSE /\ k.got = call[w].got
  BY CallFacts DEF Calls
<1>2. call' = [call EXCEPT ![w] = k]
  BY CallFacts
<1> HIDE DEF k
<1> QED  BY <1>1, <1>2, <1>4, PutIs

LEMMA HeldBackIs ==
    ASSUME TypeOK, NEW w \in Callers, NEW t \in Seq(Attempts),
           call' = [call EXCEPT ![w].text = @ \o t]
    PROVE  CallIs(w, call[w].pc, call[w].n, call[w].retries, call[w].delivered, call[w].text \o t, call[w].got)
<1> DEFINE text == call[w].text \o t
           k == [call[w] EXCEPT !.text = text]
<1>1. text \in Seq(Attempts)
  BY CallFacts, Joined
<1>2. call' = [call EXCEPT ![w] = k]
  BY CallFacts
<1> HIDE DEF text
<1>3. k \in Calls /\ k.pc = call[w].pc /\ k.n = call[w].n /\ k.retries = call[w].retries
      /\ k.delivered = call[w].delivered /\ k.text = text /\ k.got = call[w].got
  BY <1>1, CallFacts DEF Calls
<1> HIDE DEF k
<1>4. CallIs(w, call[w].pc, call[w].n, call[w].retries, call[w].delivered, text, call[w].got)
  BY <1>2, <1>3, PutIs
<1> QED  BY <1>4 DEF text

LEMMA ForwardedIs ==
    ASSUME TypeOK, NEW w \in Callers, NEW t \in Seq(Attempts),
           call' = [call EXCEPT ![w].text = @ \o t, ![w].delivered = TRUE, ![w].got = @ \o t]
    PROVE  CallIs(w, call[w].pc, call[w].n, call[w].retries, TRUE, call[w].text \o t, call[w].got \o t)
<1> DEFINE text == call[w].text \o t
           got == call[w].got \o t
           k == [call[w] EXCEPT !.text = text, !.delivered = TRUE, !.got = got]
<1>1. text \in Seq(Attempts) /\ got \in Seq(Attempts)
  BY CallFacts, Joined
<1>2. call' = [call EXCEPT ![w] = k]
  BY CallFacts
<1> HIDE DEF text, got
<1>3. k \in Calls /\ k.pc = call[w].pc /\ k.n = call[w].n /\ k.retries = call[w].retries
      /\ k.delivered = TRUE /\ k.text = text /\ k.got = got
  BY <1>1, CallFacts DEF Calls
<1> HIDE DEF k
<1>4. CallIs(w, call[w].pc, call[w].n, call[w].retries, TRUE, text, got)
  BY <1>2, <1>3, PutIs
<1> QED  BY <1>4 DEF text, got

LEMMA ThoughtIs ==
    ASSUME TypeOK, NEW w \in Callers, call' = [call EXCEPT ![w].delivered = TRUE]
    PROVE  CallIs(w, call[w].pc, call[w].n, call[w].retries, TRUE, call[w].text, call[w].got)
<1> DEFINE k == [call[w] EXCEPT !.delivered = TRUE]
<1>1. k \in Calls /\ k.pc = call[w].pc /\ k.n = call[w].n /\ k.retries = call[w].retries
      /\ k.delivered = TRUE /\ k.text = call[w].text /\ k.got = call[w].got
  BY CallFacts DEF Calls
<1>2. call' = [call EXCEPT ![w] = k]
  OBVIOUS
<1> HIDE DEF k
<1> QED  BY <1>1, <1>2, PutIs

LEMMA SaidIs ==
    ASSUME TypeOK, NEW w \in Callers, NEW got \in Seq(Attempts),
           call' = [call EXCEPT ![w].pc = "said", ![w].got = got]
    PROVE  CallIs(w, "said", call[w].n, call[w].retries, call[w].delivered, call[w].text, got)
<1> DEFINE k == [call[w] EXCEPT !.pc = "said", !.got = got]
<1>1. k \in Calls /\ k.pc = "said" /\ k.n = call[w].n /\ k.retries = call[w].retries
      /\ k.delivered = call[w].delivered /\ k.text = call[w].text /\ k.got = got
  BY CallFacts DEF Calls
<1>2. call' = [call EXCEPT ![w] = k]
  BY CallFacts
<1> HIDE DEF k
<1> QED  BY <1>1, <1>2, PutIs
-----------------------------------------------------------------------------
(* The invariant of the project and its clients *)

RestOK ==
    /\ web \in BOOLEAN /\ open \in BOOLEAN /\ queue \in Nat
    /\ call \in [Callers -> Calls]
    /\ canceled \subseteq Callers /\ given \subseteq Attempts
    /\ used \in [posts : Nat, connects : Nat, others : Nat]

\* The client's invariant: the types, the numbers of the project's messages, and
\* what the frames on their way bring each client to.
ClientInv == RestOK /\ ChannelsOK /\ ProjectHeld /\ ClientsAgree

LEMMA ClientFacts ==
    ASSUME RestOK, ChannelsOK, ProjectHeld
    PROVE  TypeOK
BY HeldFacts DEF RestOK, ChannelsOK, ProjectHeld, TypeOK, Held

\* What a step tells the gateway.
LEMMA TellMoves ==
    ASSUME TypeOK, ProjectHeld
    PROVE  /\ Tell(Event) => Moves /\ open' = open
           /\ Tell(ShowFailure) => Moves /\ open' = open
           /\ Tell(TakeBack) => Moves /\ open' = open
           /\ \A t \in Seq(Attempts) : Tell(ShowDelta(t)) \/ Tell(ShowAnswer(t)) => Moves /\ open' = open
           /\ UNCHANGED project => Moves /\ open' = open
<1>1. UNCHANGED project => Moves /\ open' = open
  BY DEF Moves, project
<1>2. Event => Moves /\ open' = open
  BY EventMoves DEF Event
<1>3. ShowFailure => Moves /\ open' = open
  BY ShowFailureMoves DEF ShowFailure
<1>4. TakeBack => Moves /\ open' = open
  BY TakeBackMoves DEF TakeBack
<1>5. ASSUME NEW t \in Seq(Attempts) PROVE ShowDelta(t) => Moves /\ open' = open
  BY ShowDeltaMoves DEF ShowDelta
<1>6. ASSUME NEW t \in Seq(Attempts) PROVE ShowAnswer(t) => Moves /\ open' = open
  BY ShowAnswerMoves DEF ShowAnswer
<1> QED  BY <1>1, <1>2, <1>3, <1>4, <1>5, <1>6 DEF Tell

LEMMA FailMoves ==
    ASSUME TypeOK, ProjectHeld, NEW w \in Callers, Fail(w)
    PROVE  Moves /\ open' = open
<1>1. Tell(IF w = Manager THEN ShowFailure ELSE Event)
  BY DEF Fail
<1>2. CASE w = Manager
  BY <1>1, <1>2, TellMoves
<1>3. CASE w # Manager
  BY <1>1, <1>3, TellMoves
<1> QED  BY <1>2, <1>3

LEMMA RetryMoves ==
    ASSUME TypeOK, ProjectHeld, NEW w \in Callers, NEW reset \in BOOLEAN, Retry(w, reset)
    PROVE  Moves /\ open' = open
<1>1. Tell(IF reset THEN TakeBack ELSE Event)
  BY DEF Retry
<1>2. CASE reset
  BY <1>1, <1>2, TellMoves
<1>3. CASE ~reset
  BY <1>1, <1>3, TellMoves
<1> QED  BY <1>2, <1>3

\* Steps of a call of a model.
Calling(w) ==
    \/ Begin(w) \/ Request(w) \/ Wait(w) \/ Chunk(w) \/ Thought(w) \/ Complete(w) \/ Unusable(w) \/ Break(w)
    \/ NextCall(w) \/ Answer(w) \/ Cancel(w)

\* A break is a retry within the budget or the end of the call.
LEMMA BreakIs ==
    ASSUME TypeOK, NEW w \in Callers, Break(w)
    PROVE  /\ call[w].pc = "read"
           /\ \/ /\ w \notin canceled /\ Budget(w) /\ (call[w].delivered => web)
                 /\ Retry(w, call[w].delivered)
              \/ Fail(w)
BY DEF Break

LEMMA CallingRest ==
    ASSUME ClientInv, NEW w \in Callers, Calling(w)
    PROVE  RestOK' /\ Moves
<1>1. TypeOK /\ ProjectHeld /\ RestOK
  BY ClientFacts DEF ClientInv
<1>2. /\ Attempt(w) \in Attempts /\ call[w].delivered \in BOOLEAN /\ <<Attempt(w)>> \in Seq(Attempts)
      /\ call[w].text \in Seq(Attempts) /\ call[w].got \in Seq(Attempts)
      /\ call[w].pc \in {"idle", "send", "wait", "read", "said"}
  BY <1>1, CallFacts
<1>3. CASE Begin(w)
  <2>1. call' = Started(w) /\ Tell(Event) /\ UNCHANGED <<web, given, used>>
        /\ canceled' = canceled \ {w} /\ (w = Manager => queue > 0)
        /\ queue' = IF w = Manager THEN queue - 1 ELSE queue
    BY <1>3 DEF Begin
  <2>2. call' \in [Callers -> Calls]
    BY <2>1, <1>1, StartedIs DEF CallIs
  <2>3. queue' \in Nat
    BY <2>1, <1>1 DEF RestOK
  <2>4. Moves /\ open' = open
    BY <2>1, <1>1, TellMoves
  <2> QED  BY <2>1, <2>2, <2>3, <2>4, <1>1 DEF RestOK
<1>4. ASSUME Fail(w) PROVE RestOK' /\ Moves
  <2>1. call' = [call EXCEPT ![w].pc = "idle"] /\ UNCHANGED <<web, queue, canceled, given, used>>
    BY <1>4 DEF Fail
  <2>2. call' \in [Callers -> Calls]
    BY <2>1, <1>1, PcIs DEF CallIs
  <2>3. Moves /\ open' = open
    BY <1>1, <1>4, FailMoves
  <2> QED  BY <2>1, <2>2, <2>3, <1>1 DEF RestOK
<1>5. ASSUME NEW reset \in BOOLEAN, Budget(w), Retry(w, reset) PROVE RestOK' /\ Moves
  <2>1. given' = given \union {Attempt(w)} /\ UNCHANGED <<web, queue, canceled, used>>
    BY <1>5 DEF Retry
  <2>2. call' \in [Callers -> Calls]
    BY <1>1, <1>5, RetryIs DEF CallIs
  <2>3. Moves /\ open' = open
    BY <1>1, <1>5, RetryMoves
  <2> QED  BY <2>1, <2>2, <2>3, <1>1, <1>2 DEF RestOK
<1>6. CASE Request(w)
  <2>1. CASE /\ call' = [call EXCEPT ![w].pc = "read", ![w].delivered = FALSE, ![w].text = <<>>]
             /\ UNCHANGED <<web, project, queue, canceled, given, used>>
    <3>1. call' \in [Callers -> Calls]
      BY <2>1, <1>1, ReadIs DEF CallIs
    <3>2. Moves /\ open' = open
      BY <2>1, <1>1, TellMoves
    <3> QED  BY <2>1, <3>1, <3>2, <1>1 DEF RestOK
  <2>2. CASE Budget(w) /\ Retry(w, FALSE)
    BY <2>2, <1>5
  <2> QED  BY <1>4, <1>6, <2>1, <2>2 DEF Request
<1>7. CASE Wait(w)
  <2>1. CASE /\ call' = [call EXCEPT ![w].pc = "send"]
             /\ UNCHANGED <<web, project, queue, canceled, given, used>>
    <3>1. call' \in [Callers -> Calls]
      BY <2>1, <1>1, PcIs DEF CallIs
    <3>2. Moves /\ open' = open
      BY <2>1, <1>1, TellMoves
    <3> QED  BY <2>1, <3>1, <3>2, <1>1 DEF RestOK
  <2> QED  BY <1>4, <1>7, <2>1 DEF Wait
<1>8. CASE Chunk(w)
  <2> DEFINE t == <<Attempt(w)>>
  <2>1. UNCHANGED <<web, queue, canceled, given, used>>
    BY <1>8 DEF Chunk
  <2>2. CASE Forwarded(w)
    <3>1. /\ call' = [call EXCEPT ![w].text = @ \o t, ![w].delivered = TRUE, ![w].got = @ \o t]
          /\ Tell(IF w = Manager THEN ShowDelta(t) ELSE Event)
      BY <1>8, <2>2 DEF Chunk
    <3>2. call' \in [Callers -> Calls]
      BY <3>1, <1>1, <1>2, ForwardedIs DEF CallIs
    <3>3. Moves /\ open' = open
      <4>1. CASE w = Manager
        BY <4>1, <3>1, <1>1, <1>2, TellMoves
      <4>2. CASE w # Manager
        BY <4>2, <3>1, <1>1, TellMoves
      <4> QED  BY <4>1, <4>2
    <3> QED  BY <2>1, <3>2, <3>3, <1>1 DEF RestOK
  <2>3. CASE ~Forwarded(w)
    <3>1. call' = [call EXCEPT ![w].text = @ \o t] /\ UNCHANGED project
      BY <1>8, <2>3 DEF Chunk
    <3>2. call' \in [Callers -> Calls]
      BY <3>1, <1>1, <1>2, HeldBackIs DEF CallIs
    <3>3. Moves /\ open' = open
      BY <3>1, <1>1, TellMoves
    <3> QED  BY <2>1, <3>2, <3>3, <1>1 DEF RestOK
  <2> QED  BY <2>2, <2>3
<1>9. CASE Thought(w)
  <2>1. /\ call' = [call EXCEPT ![w].delivered = TRUE] /\ Tell(Event)
        /\ UNCHANGED <<web, queue, canceled, given, used>>
    BY <1>9 DEF Thought
  <2>2. call' \in [Callers -> Calls]
    BY <2>1, <1>1, ThoughtIs DEF CallIs
  <2>3. Moves /\ open' = open
    BY <2>1, <1>1, TellMoves
  <2> QED  BY <2>1, <2>2, <2>3, <1>1 DEF RestOK
<1>10. CASE Complete(w)
  <2>1. CASE /\ call' = [call EXCEPT ![w].pc = "said", ![w].got = IF Replayable(w) THEN call[w].text ELSE @]
             /\ Tell(Event) /\ UNCHANGED <<web, queue, canceled, given, used>>
    <3> DEFINE got == IF Replayable(w) THEN call[w].text ELSE call[w].got
    <3>1. got \in Seq(Attempts) /\ call' = [call EXCEPT ![w].pc = "said", ![w].got = got]
      BY <2>1, <1>1, <1>2, CallFacts
    <3> HIDE DEF got
    <3>2. call' \in [Callers -> Calls]
      BY <3>1, <1>1, SaidIs DEF CallIs
    <3>3. Moves /\ open' = open
      BY <2>1, <1>1, TellMoves
    <3> QED  BY <2>1, <3>2, <3>3, <1>1 DEF RestOK
  <2> QED  BY <1>4, <1>10, <2>1 DEF Complete
<1>11. CASE Unusable(w)
  BY <1>4, <1>11 DEF Unusable
<1>12. CASE Break(w)
  BY <1>1, <1>2, <1>4, <1>5, <1>12, BreakIs
<1>13. CASE NextCall(w)
  <2>1. UNCHANGED <<web, queue, canceled, given, used>>
    BY <1>13 DEF NextCall
  <2>2. CASE call' = Started(w) /\ Tell(Event)
    <3>1. call' \in [Callers -> Calls]
      BY <2>2, <1>1, StartedIs DEF CallIs
    <3>2. Moves /\ open' = open
      BY <2>2, <1>1, TellMoves
    <3> QED  BY <2>1, <3>1, <3>2, <1>1 DEF RestOK
  <2>3. CASE call' = [call EXCEPT ![w].pc = "idle"] /\ UNCHANGED project
    <3>1. call' \in [Callers -> Calls]
      BY <2>3, <1>1, PcIs DEF CallIs
    <3>2. Moves /\ open' = open
      BY <2>3, <1>1, TellMoves
    <3> QED  BY <2>1, <3>1, <3>2, <1>1 DEF RestOK
  <2> QED  BY <1>13, <2>2, <2>3 DEF NextCall
<1>14. CASE Answer(w)
  <2>1. /\ call' = [call EXCEPT ![w].pc = "idle"] /\ UNCHANGED <<web, queue, canceled, given, used>>
        /\ Tell(ShowAnswer(call[w].text)) \/ UNCHANGED project
    BY <1>14 DEF Answer
  <2>2. call' \in [Callers -> Calls]
    BY <2>1, <1>1, PcIs DEF CallIs
  <2>3. Moves /\ open' = open
    BY <2>1, <1>1, <1>2, TellMoves
  <2> QED  BY <2>1, <2>2, <2>3, <1>1 DEF RestOK
<1>15. CASE Cancel(w)
  <2>1. /\ canceled' = canceled \union {w} /\ used' = [used EXCEPT !.others = @ + 1]
        /\ UNCHANGED <<web, project, queue, call, given>>
    BY <1>15 DEF Cancel
  <2>2. Moves /\ open' = open
    BY <2>1, <1>1, TellMoves
  <2> QED  BY <2>1, <2>2, <1>1 DEF RestOK
<1> QED  BY <1>3, <1>6, <1>7, <1>8, <1>9, <1>10, <1>11, <1>12, <1>13, <1>14, <1>15 DEF Calling

\* Steps of the clients and of the gateway itself.
LEMMA ClientStep ==
    ASSUME ClientInv, NEW c \in Clients, Connect(c) \/ Receive(c) \/ Disconnect(c)
    PROVE  ClientInv'
<1>1. /\ RestOK /\ ChannelsOK /\ ProjectHeld /\ ClientsAgree /\ Capacity \in Nat
      /\ subs \in [Clients -> Channels] /\ subs[c].chan \in Seq(Frames) /\ subs[c].view \in Seq(Messages)
      /\ messages \in Seq(Messages) /\ Distinct(messages, next) /\ Len(subs[c].chan) <= Capacity
  BY StreamAssumption, HeldFacts DEF ClientInv, ChannelsOK, ProjectHeld, Channels
<1>2. UNCHANGED <<web, open, messages, stream, next, queue, call, canceled, given>>
  BY DEF Connect, Receive, Disconnect
<1>3. RestOK' /\ ProjectHeld'
  <2>1. used' \in [posts : Nat, connects : Nat, others : Nat]
    BY <1>1 DEF RestOK, Connect, Receive, Disconnect
  <2>2. RestOK'
    BY <1>1, <1>2, <2>1 DEF RestOK
  <2> QED  BY <1>1, <1>2, <2>2 DEF ProjectHeld
<1>4. ASSUME NEW k \in Channels, subs' = [subs EXCEPT ![c] = k], Len(k.chan) <= Capacity,
             k.state = "on" => Agrees(Shown(k.view, k.chan), messages, next)
      PROVE  ClientInv'
  <2>1. ChannelsOK'
    BY <1>1, <1>4 DEF ChannelsOK
  <2>2. ClientsAgree'
    BY <1>1, <1>2, <1>4 DEF ClientsAgree
  <2> QED  BY <1>3, <2>1, <2>2 DEF ClientInv
<1>5. CASE Connect(c)
  <2> DEFINE k == [state |-> "on", chan |-> <<>>, view |-> messages]
  <2>1. subs' = [subs EXCEPT ![c] = k]
    BY <1>5 DEF Connect
  <2>2. k \in Channels /\ k.view = messages
    <3>1. <<>> \in Seq(Frames)
      OBVIOUS
    <3> QED  BY <3>1, <1>1 DEF Channels
  <2>3. k.chan = <<>> /\ Len(k.chan) = 0
    OBVIOUS
  <2> HIDE DEF k
  <2>4. Shown(k.view, k.chan) = messages
    BY <2>2, <2>3, ShownNone
  <2>5. Agrees(messages, messages, next)
    BY <1>1 DEF Agrees
  <2>6. Len(k.chan) <= Capacity
    BY <2>3, <1>1
  <2> QED  BY <1>4, <2>1, <2>2, <2>4, <2>5, <2>6
<1>6. CASE Receive(c)
  <2> DEFINE sub == subs[c]
             rest == Tail(sub.chan)
             seen == Applied(sub.view, Head(sub.chan))
             k == [sub EXCEPT !.chan = rest, !.view = seen]
  <2>1. /\ sub.chan # <<>> /\ subs' = [subs EXCEPT ![c] = k]
    BY <1>6, <1>1 DEF Receive
  <2>2. Shown(seen, rest) = Shown(sub.view, sub.chan)
    BY <1>1, <2>1, ShownLess
  <2>3. /\ rest \in Seq(Frames) /\ Len(rest) = Len(sub.chan) - 1 /\ Len(sub.chan) \in Nat \ {0}
        /\ Head(sub.chan) \in Frames
    BY <1>1, <2>1, Behead
  <2>4. seen \in Seq(Messages)
    BY <1>1, <2>3, AppliedTyped
  <2>5. sub \in Channels /\ (sub.state = "on" => Agrees(Shown(sub.view, sub.chan), messages, next))
    BY <1>1 DEF ClientsAgree
  <2> DEFINE n == Len(sub.chan)
             m == Len(rest)
  <2>6. m = n - 1 /\ n \in Nat \ {0} /\ n <= Capacity
    BY <2>3, <1>1
  <2> HIDE DEF n, m
  <2>7. m <= Capacity
    BY <2>6, <1>1
  <2> HIDE DEF sub, rest, seen
  <2>8. k \in Channels /\ k.chan = rest /\ k.view = seen /\ k.state = sub.state
    BY <2>3, <2>4, <2>5 DEF Channels
  <2> HIDE DEF k
  <2> QED  BY <1>4, <2>1, <2>2, <2>5, <2>7, <2>8 DEF m
<1>7. CASE Disconnect(c)
  <2>1. subs' = [subs EXCEPT ![c] = Off]
    BY <1>7 DEF Disconnect
  <2>2. Off \in Channels /\ Off.state = "off"
    BY OffIs
  <2>3. Len(Off.chan) <= Capacity
    BY <1>1, OffIs
  <2> QED  BY <1>4, <2>1, <2>2, <2>3
<1> QED  BY <1>5, <1>6, <1>7

LEMMA PostStep ==
    ASSUME ClientInv, Post \/ Report
    PROVE  RestOK' /\ Moves
<1>1. RestOK /\ ProjectHeld /\ next \in Nat
  BY HeldFacts DEF ClientInv, ProjectHeld
<1>2. CASE Post
  <2> DEFINE m == [id |-> next + 1, by |-> "user", status |-> "queued", text |-> <<>>]
  <2>1. /\ next' = next + 1 /\ messages' = Kept(Append(messages, m)) /\ Publish(Output(m))
        /\ queue' = queue + 1 /\ used' = [used EXCEPT !.posts = @ + 1]
        /\ UNCHANGED <<web, open, stream, call, canceled, given>>
    BY <1>2 DEF Post
  <2>2. m \in Messages /\ m.id = next + 1
    BY <1>1, MadeIs
  <2> HIDE DEF m
  <2>3. Moves
    BY <1>1, <2>1, <2>2, PostMoves
  <2>4. RestOK'
    BY <1>1, <2>1 DEF RestOK
  <2> QED  BY <2>3, <2>4
<1>3. CASE Report
  <2> DEFINE m == [id |-> next + 1, by |-> "report", status |-> "complete", text |-> <<>>]
  <2>1. /\ next' = next + 1 /\ messages' = Kept(Append(messages, m)) /\ Publish(Output(m))
        /\ used' = [used EXCEPT !.others = @ + 1]
        /\ UNCHANGED <<web, open, stream, queue, call, canceled, given>>
    BY <1>3 DEF Report
  <2>2. m \in Messages /\ m.id = next + 1
    BY <1>1, MadeIs
  <2> HIDE DEF m
  <2>3. Moves
    BY <1>1, <2>1, <2>2, PostMoves
  <2>4. RestOK'
    BY <1>1, <2>1 DEF RestOK
  <2> QED  BY <2>3, <2>4
<1> QED  BY <1>2, <1>3

LEMMA CloseStep ==
    ASSUME ClientInv, Close
    PROVE  ClientInv'
<1>1. /\ RestOK /\ ChannelsOK /\ ProjectHeld
      /\ open' = FALSE /\ stream' = 0 /\ queue' = 0
      /\ subs' = [c \in Clients |-> IF subs[c].state = "on" THEN [subs[c] EXCEPT !.state = "cut"] ELSE subs[c]]
      /\ used' = [used EXCEPT !.others = @ + 1]
      /\ UNCHANGED <<web, messages, next, call, canceled, given>>
  BY DEF ClientInv, Close
<1>2. RestOK'
  <2>1. /\ RestOK /\ open' = FALSE /\ queue' = 0 /\ used' = [used EXCEPT !.others = @ + 1]
        /\ web' = web /\ call' = call /\ canceled' = canceled /\ given' = given
    BY <1>1
  <2>2. used' \in [posts : Nat, connects : Nat, others : Nat]
    BY <2>1 DEF RestOK
  <2> QED  BY <2>1, <2>2 DEF RestOK
<1>3. ProjectHeld'
  BY <1>1, NoMoreStream DEF ProjectHeld
<1>4. ASSUME NEW c \in Clients
      PROVE  subs'[c] \in Channels /\ Len(subs'[c].chan) <= Capacity /\ subs'[c].state # "on"
  <2>1. subs[c] \in Channels /\ Len(subs[c].chan) <= Capacity
    BY <1>1 DEF ChannelsOK
  <2>2. subs'[c] = IF subs[c].state = "on" THEN [subs[c] EXCEPT !.state = "cut"] ELSE subs[c]
    BY <1>1
  <2>3. /\ [subs[c] EXCEPT !.state = "cut"] \in Channels
        /\ [subs[c] EXCEPT !.state = "cut"].chan = subs[c].chan
        /\ [subs[c] EXCEPT !.state = "cut"].state = "cut"
    BY <2>1 DEF Channels
  <2>4. CASE subs[c].state = "on"
    BY <2>1, <2>2, <2>3, <2>4
  <2>5. CASE subs[c].state # "on"
    BY <2>1, <2>2, <2>5
  <2> QED  BY <2>4, <2>5
<1>5. ChannelsOK' /\ ClientsAgree'
  <2>1. subs' = [c \in Clients |-> subs'[c]]
    BY <1>1
  <2> QED  BY <2>1, <1>4 DEF ChannelsOK, ClientsAgree
<1> QED  BY <1>2, <1>3, <1>5 DEF ClientInv

LEMMA MovesKeep ==
    ASSUME ClientInv, RestOK', Moves
    PROVE  ClientInv'
<1>1. CASE UNCHANGED <<messages, stream, next, subs>>
  BY <1>1 DEF ClientInv, ChannelsOK, ProjectHeld, ClientsAgree
<1>2. ASSUME NEW frame \in Frames, Told(frame) PROVE ClientInv'
  <2>1. ChannelsOK' /\ ClientsAgree'
    BY <1>2, ToldIs DEF ClientInv
  <2>2. ProjectHeld'
    BY <1>2 DEF Told, ProjectHeld
  <2> QED  BY <2>1, <2>2 DEF ClientInv
<1> QED  BY <1>1, <1>2 DEF Moves

LEMMA InitClient == Init => ClientInv
<1> SUFFICES ASSUME Init PROVE ClientInv
  OBVIOUS
<1>1. /\ web \in BOOLEAN /\ open = TRUE /\ messages = <<>> /\ stream = 0 /\ next = 0
      /\ subs = [c \in Clients |-> Off] /\ queue = (IF web THEN 0 ELSE MaxPosts)
      /\ call = [w \in Callers |-> Idle] /\ canceled = {} /\ given = {}
      /\ used = [posts |-> 0, connects |-> 0, others |-> 0]
      /\ MaxPosts \in Nat /\ Keep \in Nat \ {0} /\ Capacity \in Nat
  BY StreamAssumption DEF Init
<1>2. RestOK
  BY <1>1, IdleIs DEF RestOK
<1>3. ChannelsOK /\ ClientsAgree
  BY <1>1, OffIs DEF ChannelsOK, ClientsAgree
<1>4. ProjectHeld
  <2>1. /\ <<>> \in Seq(Messages) /\ Len(<<>>) = 0 /\ DOMAIN <<>> = {} /\ 0 <= Keep /\ 0 \in 0 .. 0
    BY <1>1
  <2>2. Held(<<>>, 0, 0)
    BY <2>1, <1>1 DEF Held, Distinct, Placed
  <2> QED  BY <1>1, <2>2 DEF ProjectHeld
<1> QED  BY <1>2, <1>3, <1>4 DEF ClientInv

LEMMA NextClient == ClientInv /\ [Next]_vars => ClientInv'
<1> SUFFICES ASSUME ClientInv, [Next]_vars PROVE ClientInv'
  OBVIOUS
<1>1. CASE UNCHANGED vars
  BY <1>1 DEF ClientInv, RestOK, ChannelsOK, ProjectHeld, ClientsAgree, vars
<1>2. CASE Post \/ Report
  BY <1>2, PostStep, MovesKeep
<1>3. CASE Close
  BY <1>3, CloseStep
<1>4. CASE Open
  BY <1>4 DEF ClientInv, RestOK, ChannelsOK, ProjectHeld, ClientsAgree, Open
<1>5. ASSUME NEW c \in Clients, Connect(c) \/ Receive(c) \/ Disconnect(c) PROVE ClientInv'
  BY <1>5, ClientStep
<1>6. ASSUME NEW w \in Callers, Calling(w) PROVE ClientInv'
  BY <1>6, CallingRest, MovesKeep
<1> QED  BY <1>1, <1>2, <1>3, <1>4, <1>5, <1>6 DEF Next, Calling

LEMMA ClientAlways == Spec => []ClientInv
<1>1. Init => ClientInv
  BY InitClient
<1>2. ClientInv /\ [Next]_vars => ClientInv'
  BY NextClient
<1> QED  BY <1>1, <1>2, PTL DEF Spec

\* Types: the project keeps at most Keep messages, a channel holds at most Capacity
\* frames, and an attempt is counted within MaxRetries.
THEOREM TypeCorrect == Spec => []TypeOK
<1>1. ClientInv => TypeOK
  BY ClientFacts DEF ClientInv
<1> QED  BY <1>1, ClientAlways, PTL

\* A connected client that has read its frames shows what the project holds: every
\* frame of webProject takes what applyEvent shows from the project before it to
\* the project after it, whatever has been dropped, taken back or cut meanwhile.
THEOREM ClientsShowTheProject == Spec => []ClientCurrent
<1>1. ClientInv => ClientCurrent
  BY DEF ClientInv, ClientsAgree, ClientCurrent, Agrees
<1> QED  BY <1>1, ClientAlways, PTL
-----------------------------------------------------------------------------
(* Where the text of an attempt can be *)

\* The manager's attempt of a call, and the attempts before it.
Now(k) == <<Manager, k.n, k.retries>>
Before(a, k) == a[2] < k.n \/ (a[2] = k.n /\ a[3] < k.retries)

\* What a call has received comes from its attempt; nothing of it was passed on
\* before a response began, and nothing of a worker's before it is complete.
OfOneAttempt(w, at, pc, delivered, text, got) ==
    /\ ToSet(got) \subseteq {at}
    /\ pc \in {"read", "said"} => ToSet(text) \subseteq {at}
    /\ pc \in {"send", "wait"} \/ (pc = "read" /\ ~delivered) => got = <<>>
    /\ delivered => w = Manager

CallsText == \A w \in Callers :
    OfOneAttempt(w, Attempt(w), call[w].pc, call[w].delivered, call[w].text, call[w].got)

GivenBefore == \A a \in given : Before(a, call[a[1]])

\* A message holds text of the manager's attempts that were not given up, g, and
\* text of the attempt under way, k, only if it is the streaming one.
Fits(m, str, g, k) == \A a \in ToSet(m.text) :
    /\ a[1] = Manager /\ a \notin g
    /\ a = Now(k) \/ Before(a, k)
    /\ a = Now(k) /\ k.pc \in {"send", "wait", "read"} =>
          k.pc = "read" /\ k.got # <<>> /\ str # 0 /\ m.id = str

Texts(gateway, ms, str, g, k) ==
    /\ ~gateway => ms = <<>>
    /\ \A m \in ToSet(ms) : Fits(m, str, g, k)
    /\ gateway /\ k.pc = "read" /\ k.got # <<>> =>
          str # 0 /\ \A m \in ToSet(ms) : m.id = str => IsSuffix(k.got, m.text)

\* The provider's invariant.
TextInv == CallsText /\ GivenBefore /\ Texts(web, messages, stream, given, call[Manager])

LEMMA ReverseIs ==
    ASSUME NEW S, NEW s \in Seq(S)
    PROVE  /\ Reverse(s) \in Seq(S) /\ Len(Reverse(s)) = Len(s)
           /\ \A i \in 1 .. Len(s) : Reverse(s)[i] = s[(Len(s) - i) + 1]
<1> DEFINE n == Len(s)
           r == Reverse(s)
<1>1. n \in Nat /\ \A i \in 1 .. n : s[i] \in S
  OBVIOUS
<1>2. r = [i \in 1 .. n |-> s[(n - i) + 1]]
  BY DEF Reverse
<1> HIDE DEF n, r
<1>3. \A i \in 1 .. n : (n - i) + 1 \in 1 .. n
  BY <1>1
<1>4. r \in [1 .. n -> S] /\ \A i \in 1 .. n : r[i] = s[(n - i) + 1]
  BY <1>1, <1>2, <1>3
<1>5. r \in Seq(S) /\ Len(r) = n
  BY <1>1, <1>4
<1> QED  BY <1>4, <1>5 DEF n, r

LEMMA OneMore ==
    ASSUME NEW S, NEW s \in Seq(S), NEW e \in S
    PROVE  /\ s \o <<e>> \in Seq(S) /\ Len(s \o <<e>>) = Len(s) + 1 /\ (s \o <<e>>)[Len(s) + 1] = e
           /\ \A i \in 1 .. Len(s) : (s \o <<e>>)[i] = s[i]
           /\ ToSet(s \o <<e>>) = ToSet(s) \union {e}
<1>1. s \o <<e>> = Append(s, e)
  OBVIOUS
<1>2. /\ Append(s, e) \in Seq(S) /\ Len(Append(s, e)) = Len(s) + 1 /\ Len(s) \in Nat
      /\ \A i \in 1 .. Len(s) : Append(s, e)[i] = s[i]
      /\ Append(s, e)[Len(s) + 1] = e
  BY Appended
<1> DEFINE a == Append(s, e)
           n == Len(s)
<1>3. ToSet(a) = {a[i] : i \in 1 .. n + 1} /\ ToSet(s) = {s[i] : i \in 1 .. n}
  BY <1>2, Elements
<1> HIDE DEF a, n
<1>4. \A i \in 1 .. n + 1 : i = n + 1 \/ i \in 1 .. n
  BY <1>2 DEF n
<1>5. n + 1 \in 1 .. n + 1 /\ \A i \in 1 .. n : i \in 1 .. n + 1
  BY <1>2 DEF n
<1>6. a[n + 1] = e /\ \A i \in 1 .. n : a[i] = s[i]
  BY <1>2 DEF a, n
<1>7. ToSet(a) = ToSet(s) \union {e}
  BY <1>3, <1>4, <1>5, <1>6
<1> QED  BY <1>1, <1>2, <1>7 DEF a

LEMMA OfOne ==
    ASSUME NEW S, NEW e \in S
    PROVE  ToSet(<<e>>) = {e}
<1> DEFINE one == <<e>>
<1>1. one \in Seq(S) /\ Len(one) = 1 /\ one[1] = e /\ 1 .. 1 = {1}
  OBVIOUS
<1> HIDE DEF one
<1>2. ToSet(one) = {one[i] : i \in 1 .. 1}
  BY <1>1, Elements
<1> QED  BY <1>1, <1>2 DEF one

LEMMA SuffixIs ==
    ASSUME NEW S, NEW s \in Seq(S), NEW t \in Seq(S)
    PROVE  IsSuffix(s, t) <=> /\ Len(s) <= Len(t)
                              /\ \A i \in 1 .. Len(s) : s[i] = t[Len(t) - Len(s) + i]
<1> DEFINE n == Len(s)
           l == Len(t)
           rs == Reverse(s)
           rt == Reverse(t)
<1>1. n \in Nat /\ l \in Nat
  OBVIOUS
<1>2. rs \in Seq(S) /\ Len(rs) = n /\ \A i \in 1 .. n : rs[i] = s[(n - i) + 1]
  BY ReverseIs
<1>3. rt \in Seq(S) /\ Len(rt) = l /\ \A i \in 1 .. l : rt[i] = t[(l - i) + 1]
  BY ReverseIs
<1>4. IsSuffix(s, t) <=> n <= l /\ SubSeq(rs, 1, n) = SubSeq(rt, 1, n)
  BY <1>2, <1>3 DEF IsSuffix, IsPrefix
<1> HIDE DEF n, l, rs, rt
<1>5. CASE ~(n <= l)
  BY <1>4, <1>5 DEF n, l
<1>6. CASE n <= l
  <2> DEFINE a == SubSeq(rs, 1, n)
             b == SubSeq(rt, 1, n)
  <2>1. a \in Seq(S) /\ Len(a) = n /\ \A i \in 1 .. n : a[i] = rs[i]
    BY <1>1, <1>2, <1>6
  <2>2. b \in Seq(S) /\ Len(b) = n /\ \A i \in 1 .. n : b[i] = rt[i] /\ i \in 1 .. l
    BY <1>1, <1>3, <1>6
  <2> HIDE DEF a, b
  <2>3. ASSUME a = b, NEW i \in 1 .. n PROVE s[i] = t[l - n + i]
    <3>1. (n - i) + 1 \in 1 .. n /\ (n - ((n - i) + 1)) + 1 = i /\ (l - ((n - i) + 1)) + 1 = l - n + i
      BY <1>1
    <3>2. rs[(n - i) + 1] = s[i] /\ rt[(n - i) + 1] = t[l - n + i]
      BY <3>1, <2>2, <1>2, <1>3
    <3> QED  BY <3>1, <3>2, <2>1, <2>2, <2>3
  <2>4. ASSUME \A i \in 1 .. n : s[i] = t[l - n + i] PROVE a = b
    <3>1. ASSUME NEW i \in 1 .. n PROVE a[i] = b[i]
      <4>1. (n - i) + 1 \in 1 .. n /\ l - n + ((n - i) + 1) = (l - i) + 1
        BY <1>1
      <4>2. s[(n - i) + 1] = t[l - n + ((n - i) + 1)]
        BY <4>1, <2>4
      <4>3. a[i] = s[(n - i) + 1]
        BY <2>1, <1>2
      <4>4. b[i] = t[(l - i) + 1]
        BY <2>2, <1>3
      <4> QED  BY <4>1, <4>2, <4>3, <4>4
    <3> QED  BY <3>1, <2>1, <2>2, Equal
  <2>5. a = b <=> \A i \in 1 .. n : s[i] = t[l - n + i]
    BY <2>3, <2>4
  <2> QED  BY <2>5, <1>4, <1>6 DEF a, b, n, l
<1> QED  BY <1>5, <1>6

\* One chunk more on both sides.
LEMMA SuffixMore ==
    ASSUME NEW S, NEW s \in Seq(S), NEW t \in Seq(S), NEW e \in S
    PROVE  /\ IsSuffix(s, t) => IsSuffix(s \o <<e>>, t \o <<e>>)
           /\ IsSuffix(<<e>>, t \o <<e>>) /\ IsSuffix(<<e>>, <<e>>)
<1> DEFINE n == Len(s)
           l == Len(t)
           a == s \o <<e>>
           b == t \o <<e>>
           one == <<e>>
<1>1. n \in Nat /\ l \in Nat /\ one \in Seq(S) /\ Len(one) = 1 /\ one[1] = e
  OBVIOUS
<1>2. a \in Seq(S) /\ Len(a) = n + 1 /\ a[n + 1] = e /\ \A i \in 1 .. n : a[i] = s[i]
  BY <1>1, OneMore
<1>3. b \in Seq(S) /\ Len(b) = l + 1 /\ b[l + 1] = e /\ \A i \in 1 .. l : b[i] = t[i]
  BY <1>1, OneMore
<1>4. IsSuffix(s, t) <=> n <= l /\ \A i \in 1 .. n : s[i] = t[l - n + i]
  BY SuffixIs
<1>5. IsSuffix(a, b) <=> Len(a) <= Len(b) /\ \A i \in 1 .. Len(a) : a[i] = b[Len(b) - Len(a) + i]
  BY <1>2, <1>3, SuffixIs
<1>6. IsSuffix(one, b) <=> Len(one) <= Len(b) /\ \A i \in 1 .. Len(one) : one[i] = b[Len(b) - Len(one) + i]
  BY <1>1, <1>3, SuffixIs
<1>7. IsSuffix(one, one) <=> Len(one) <= Len(one) /\ \A i \in 1 .. Len(one) : one[i] = one[Len(one) - Len(one) + i]
  BY <1>1, SuffixIs
<1> HIDE DEF n, l, a, b, one
<1>8. IsSuffix(s, t) => IsSuffix(a, b)
  <2> SUFFICES ASSUME IsSuffix(s, t) PROVE IsSuffix(a, b)
    OBVIOUS
  <2>1. n <= l /\ \A i \in 1 .. n : s[i] = t[l - n + i]
    BY <1>4
  <2>2. n + 1 <= l + 1 /\ (l + 1) - (n + 1) = l - n
    BY <2>1, <1>1
  <2>3. ASSUME NEW i \in 1 .. n + 1 PROVE a[i] = b[l - n + i]
    <3>1. CASE i = n + 1
      <4>1. l - n + i = l + 1
        BY <3>1, <1>1
      <4> QED  BY <4>1, <3>1, <1>2, <1>3
    <3>2. CASE i # n + 1
      <4>1. i \in 1 .. n /\ l - n + i \in 1 .. l
        BY <3>2, <2>1, <1>1
      <4> QED  BY <4>1, <2>1, <1>2, <1>3
    <3> QED  BY <3>1, <3>2
  <2> QED  BY <2>2, <2>3, <1>2, <1>3, <1>5
<1>9. IsSuffix(one, b)
  <2>1. 1 <= l + 1 /\ \A i \in 1 .. 1 : i = 1 /\ (l + 1) - 1 + i = l + 1
    BY <1>1
  <2> QED  BY <2>1, <1>1, <1>3, <1>6
<1>10. IsSuffix(one, one)
  <2>1. 1 <= 1 /\ \A i \in 1 .. 1 : 1 - 1 + i = i
    OBVIOUS
  <2> QED  BY <2>1, <1>1, <1>7
<1> QED  BY <1>8, <1>9, <1>10 DEF a, b, one

Later(k, j)   == k.n < j.n \/ (k.n = j.n /\ k.retries < j.retries)
NotAgo(k, j)  == k.n < j.n \/ (k.n = j.n /\ k.retries <= j.retries)
SameCall(k, j) == j.n = k.n /\ j.retries = k.retries

LEMMA CallTyped ==
    ASSUME NEW k \in Calls
    PROVE  /\ k.n \in Nat /\ k.retries \in Nat /\ k.got \in Seq(Attempts) /\ k.text \in Seq(Attempts)
           /\ k.pc \in {"idle", "send", "wait", "read", "said"} /\ Now(k) \in Attempts
           /\ Now(k)[1] = Manager /\ Now(k)[2] = k.n /\ Now(k)[3] = k.retries
<1>1. /\ k.n \in Nat /\ k.retries \in 0 .. MaxRetries /\ k.got \in Seq(Attempts) /\ k.text \in Seq(Attempts)
      /\ k.pc \in {"idle", "send", "wait", "read", "said"} /\ MaxRetries \in Nat
  BY StreamAssumption DEF Calls
<1>2. k.retries \in Nat
  BY <1>1
<1> QED  BY <1>1, <1>2 DEF Now, Attempts, Callers

LEMMA AttemptIs ==
    ASSUME NEW a \in Attempts
    PROVE  a[1] \in Callers /\ a[2] \in Nat /\ a[3] \in Nat /\ a = <<a[1], a[2], a[3]>>
BY DEF Attempts

LEMMA BeforeIs ==
    ASSUME NEW a \in Attempts, NEW k \in Calls, NEW j \in Calls
    PROVE  /\ Before(a, k) /\ NotAgo(k, j) => Before(a, j)
           /\ a[2] = k.n /\ a[3] = k.retries /\ Later(k, j) => Before(a, j)
           /\ Before(a, k) => ~(a[2] = k.n /\ a[3] = k.retries)
<1> DEFINE an == a[2]
           ar == a[3]
           kn == k.n
           kr == k.retries
           jn == j.n
           jr == j.retries
<1>1. an \in Nat /\ ar \in Nat /\ kn \in Nat /\ kr \in Nat /\ jn \in Nat /\ jr \in Nat
  BY AttemptIs, CallTyped
<1>2. /\ Before(a, k) <=> an < kn \/ (an = kn /\ ar < kr)
      /\ Before(a, j) <=> an < jn \/ (an = jn /\ ar < jr)
      /\ Later(k, j) <=> kn < jn \/ (kn = jn /\ kr < jr)
      /\ NotAgo(k, j) <=> kn < jn \/ (kn = jn /\ kr <= jr)
  BY DEF Before, Later, NotAgo
<1> HIDE DEF an, ar, kn, kr, jn, jr
<1>3. Before(a, k) /\ NotAgo(k, j) => Before(a, j)
  BY <1>1, <1>2
<1>4. an = kn /\ ar = kr /\ Later(k, j) => Before(a, j)
  BY <1>1, <1>2
<1>5. Before(a, k) => ~(an = kn /\ ar = kr)
  BY <1>1, <1>2
<1> QED  BY <1>3, <1>4, <1>5 DEF an, ar, kn, kr

\* The text of a message is of attempts.
LEMMA TextTyped ==
    ASSUME NEW ms \in Seq(Messages), NEW m \in ToSet(ms)
    PROVE  m \in Messages /\ m.id \in Nat \ {0} /\ m.text \in Seq(Attempts) /\ ToSet(m.text) \subseteq Attempts
<1>1. m \in Messages
  BY Elements
<1>2. m.id \in Nat \ {0} /\ m.text \in Seq(Attempts)
  BY <1>1, MessageIs
<1> QED  BY <1>1, <1>2, Elements

\* The next attempt begins, or the next call; what it gives up is taken back.
LEMMA TextsLater ==
    ASSUME NEW k \in Calls, NEW j \in Calls, NEW ms \in Seq(Messages), NEW new \in Seq(Messages),
           NEW gateway \in BOOLEAN, NEW str, NEW str2, NEW g, NEW g2,
           Texts(gateway, ms, str, g, k), Later(k, j), j.pc \in {"send", "wait"},
           ToSet(new) \subseteq ToSet(ms), ~gateway => new = <<>>,
           \/ g2 = g
           \/ /\ g2 = g \union {Now(k)} /\ k.pc \in {"send", "read"}
              /\ k.got = <<>> \/ \A m \in ToSet(new) : m.id # str
    PROVE  Texts(gateway, new, str2, g2, j)
<1>1. ASSUME NEW m \in ToSet(new) PROVE Fits(m, str2, g2, j)
  <2>1. ASSUME NEW a \in ToSet(m.text)
        PROVE  a[1] = Manager /\ a \notin g2 /\ Before(a, j) /\ a # Now(j)
    <3>1. a \in Attempts /\ m \in ToSet(ms)
      BY TextTyped
    <3>2. /\ a[1] = Manager /\ a \notin g /\ (a = Now(k) \/ Before(a, k))
          /\ a = Now(k) /\ k.pc \in {"send", "wait", "read"} =>
                k.pc = "read" /\ k.got # <<>> /\ str # 0 /\ m.id = str
      BY <3>1 DEF Texts, Fits
    <3>3. Before(a, j)
      <4>1. a = Now(k) => a[2] = k.n /\ a[3] = k.retries
        BY CallTyped
      <4>2. NotAgo(k, j)
        BY CallTyped DEF Later, NotAgo
      <4> QED  BY <3>1, <3>2, <4>1, <4>2, BeforeIs
    <3>4. a # Now(j)
      <4>1. ~(a[2] = j.n /\ a[3] = j.retries)
        BY <3>1, <3>3, BeforeIs
      <4> QED  BY <4>1, CallTyped
    <3>5. a \notin g2
      BY <3>2
    <3> QED  BY <3>2, <3>3, <3>4, <3>5
  <2> QED  BY <2>1 DEF Fits
<1> QED  BY <1>1 DEF Texts

\* A call ends, or its response is complete; a whole answer may be shown.
LEMMA TextsOver ==
    ASSUME NEW k \in Calls, NEW j \in Calls, NEW ms \in Seq(Messages), NEW new \in Seq(Messages),
           NEW gateway \in BOOLEAN, NEW str, NEW str2, NEW g,
           Texts(gateway, ms, str, g, k), SameCall(k, j), j.pc \in {"idle", "said"}, Now(k) \notin g,
           \A m \in ToSet(new) : \/ ToSet(m.text) \subseteq {Now(k)}
                                 \/ \E o \in ToSet(ms) : m.text = o.text,
           ~gateway => new = <<>>
    PROVE  Texts(gateway, new, str2, g, j)
<1>1. Now(j) = Now(k)
  BY DEF Now, SameCall
<1>2. ASSUME NEW m \in ToSet(new) PROVE Fits(m, str2, g, j)
  <2>1. ASSUME NEW a \in ToSet(m.text)
        PROVE  a[1] = Manager /\ a \notin g /\ (a = Now(j) \/ Before(a, j))
    <3>1. CASE a = Now(k)
      BY <3>1, <1>1, CallTyped
    <3>2. CASE a # Now(k)
      <4>1. PICK o \in ToSet(ms) : m.text = o.text
        BY <3>2
      <4>2. a[1] = Manager /\ a \notin g /\ Before(a, k)
        BY <4>1, <3>2 DEF Texts, Fits
      <4> QED  BY <4>2 DEF Before, SameCall
    <3> QED  BY <3>1, <3>2
  <2> QED  BY <2>1 DEF Fits
<1> QED  BY <1>2 DEF Texts

\* A request is made again, or its response begins.
LEMMA TextsAgain ==
    ASSUME NEW k \in Calls, NEW j \in Calls, NEW ms \in Seq(Messages),
           NEW gateway \in BOOLEAN, NEW str, NEW g,
           Texts(gateway, ms, str, g, k), SameCall(k, j), k.pc \in {"send", "wait"}, j.got = <<>>
    PROVE  Texts(gateway, ms, str, g, j)
<1>1. Now(j) = Now(k)
  BY DEF Now, SameCall
<1>2. ASSUME NEW m \in ToSet(ms) PROVE Fits(m, str, g, j)
  <2>1. ASSUME NEW a \in ToSet(m.text)
        PROVE  a[1] = Manager /\ a \notin g /\ a # Now(j) /\ Before(a, j)
    <3>1. a[1] = Manager /\ a \notin g /\ a # Now(k) /\ Before(a, k)
      BY DEF Texts, Fits
    <3> QED  BY <3>1, <1>1 DEF Before, SameCall
  <2> QED  BY <2>1 DEF Fits
<1> QED  BY <1>2 DEF Texts

\* Nothing of the manager's text changes.
LEMMA TextsKept ==
    ASSUME NEW k \in Calls, NEW j \in Calls, NEW ms \in Seq(Messages), NEW new \in Seq(Messages),
           NEW gateway \in BOOLEAN, NEW str, NEW g, NEW g2, NEW x,
           Texts(gateway, ms, str, g, k), SameCall(k, j), j.pc = k.pc, j.got = k.got,
           g2 \subseteq g \union {x}, x[1] # Manager,
           \A m \in ToSet(new) : m \in ToSet(ms) \/ (ToSet(m.text) = {} /\ m.id # str),
           ~gateway => new = <<>>
    PROVE  Texts(gateway, new, str, g2, j)
<1>1. Now(j) = Now(k)
  BY DEF Now, SameCall
<1>2. ASSUME NEW m \in ToSet(new) PROVE Fits(m, str, g2, j)
  <2>1. ASSUME NEW a \in ToSet(m.text)
        PROVE  /\ a[1] = Manager /\ a \notin g2 /\ (a = Now(j) \/ Before(a, j))
               /\ a = Now(j) /\ j.pc \in {"send", "wait", "read"} =>
                     j.pc = "read" /\ j.got # <<>> /\ str # 0 /\ m.id = str
    <3>1. /\ a[1] = Manager /\ a \notin g /\ (a = Now(k) \/ Before(a, k))
          /\ a = Now(k) /\ k.pc \in {"send", "wait", "read"} =>
                k.pc = "read" /\ k.got # <<>> /\ str # 0 /\ m.id = str
      BY DEF Texts, Fits
    <3>2. a \notin g2
      BY <3>1
    <3>3. Before(a, k) => Before(a, j)
      BY DEF Before, SameCall
    <3> QED  BY <3>1, <3>2, <3>3, <1>1
  <2> QED  BY <2>1 DEF Fits
<1>3. ASSUME gateway, j.pc = "read", j.got # <<>>
      PROVE  str # 0 /\ \A m \in ToSet(new) : m.id = str => IsSuffix(j.got, m.text)
  BY <1>3 DEF Texts
<1> QED  BY <1>2, <1>3 DEF Texts

\* A piece of the manager's text is shown: a message after it is one of the others,
\* a new one of the piece alone, or the streaming one with the piece at its end.
WithMore(m, ms, str, str2, t) ==
    \/ m \in ToSet(ms) /\ m.id # str /\ m.id # str2
    \/ m.id = str2 /\ str = 0 /\ m.text = t
    \/ /\ m.id = str2 /\ str2 = str
       /\ \E o \in ToSet(ms) : o.id = str /\ m.text = o.text \o t

LEMMA TextsMore ==
    ASSUME NEW k \in Calls, NEW j \in Calls, NEW ms \in Seq(Messages), NEW new \in Seq(Messages),
           NEW gateway \in BOOLEAN, gateway, NEW str, NEW str2, NEW g,
           Texts(gateway, ms, str, g, k), SameCall(k, j), k.pc = "read", j.pc = "read", Now(k) \notin g,
           j.got = k.got \o <<Now(k)>>, str2 # 0,
           \A m \in ToSet(new) : WithMore(m, ms, str, str2, <<Now(k)>>)
    PROVE  Texts(gateway, new, str2, g, j)
<1> DEFINE e == Now(k)
<1>1. Now(j) = e /\ e \in Attempts /\ e[1] = Manager /\ k.got \in Seq(Attempts)
  BY CallTyped DEF Now, SameCall
<1> HIDE DEF e
<1>2. /\ j.got = k.got \o <<e>>
      /\ j.got # <<>>
  <2>1. j.got = k.got \o <<e>> /\ Len(k.got \o <<e>>) = Len(k.got) + 1 /\ Len(k.got) \in Nat
    BY <1>1, OneMore DEF e
  <2>2. Len(k.got) + 1 # 0
    BY <2>1
  <2>3. Len(<<>>) = 0
    OBVIOUS
  <2> QED  BY <2>1, <2>2, <2>3
<1>3. ASSUME NEW m \in ToSet(ms), m.id # str, NEW a \in ToSet(m.text)
      PROVE  a[1] = Manager /\ a \notin g /\ a # e /\ Before(a, j)
  <2>1. a[1] = Manager /\ a \notin g /\ a # e /\ Before(a, k)
    BY <1>3 DEF Texts, Fits, e
  <2> QED  BY <2>1 DEF Before, SameCall
<1>4. ASSUME NEW m \in ToSet(ms), NEW a \in ToSet(m.text)
      PROVE  a[1] = Manager /\ a \notin g /\ (a = e \/ Before(a, j))
  <2>1. a[1] = Manager /\ a \notin g /\ (a = e \/ Before(a, k))
    BY DEF Texts, Fits, e
  <2> QED  BY <2>1 DEF Before, SameCall
<1>5. ASSUME NEW m \in ToSet(new), NEW a \in ToSet(m.text)
      PROVE  /\ a[1] = Manager /\ a \notin g /\ (a = e \/ Before(a, j))
             /\ a = e => m.id = str2
  <2>1. CASE m \in ToSet(ms) /\ m.id # str
    BY <2>1, <1>3
  <2>2. CASE m.id = str2 /\ m.text = <<e>>
    <3>1. a = e
      BY <2>2, <1>1, OfOne
    <3> QED  BY <3>1, <2>2, <1>1 DEF e
  <2>3. CASE m.id = str2 /\ \E o \in ToSet(ms) : m.text = o.text \o <<e>>
    <3>1. PICK o \in ToSet(ms) : m.text = o.text \o <<e>>
      BY <2>3
    <3>2. a \in ToSet(o.text) \/ a = e
      <4>1. o.text \in Seq(Attempts)
        BY TextTyped
      <4> QED  BY <4>1, <3>1, <1>1, OneMore
    <3>3. e \notin g
      BY DEF e
    <3> QED  BY <3>2, <3>3, <1>1, <1>4, <2>3
  <2> QED  BY <2>1, <2>2, <2>3 DEF e, WithMore
<1>6. ASSUME NEW m \in ToSet(new) PROVE Fits(m, str2, g, j)
  BY <1>1, <1>2, <1>5 DEF Fits
<1>7. ASSUME NEW m \in ToSet(new), m.id = str2 PROVE IsSuffix(j.got, m.text)
  <2>1. CASE str = 0 /\ m.text = <<e>>
    <3>1. k.got = <<>>
      BY <2>1 DEF Texts
    <3>2. j.got = <<e>>
      BY <3>1, <1>2
    <3>3. IsSuffix(<<e>>, <<e>>)
      BY <1>1, SuffixMore
    <3> QED  BY <3>2, <3>3, <2>1
  <2>2. CASE \E o \in ToSet(ms) : o.id = str /\ m.text = o.text \o <<e>>
    <3>1. PICK o \in ToSet(ms) : o.id = str /\ m.text = o.text \o <<e>>
      BY <2>2
    <3>2. o.text \in Seq(Attempts)
      BY TextTyped
    <3>3. CASE k.got = <<>>
      <4>1. j.got = <<e>>
        BY <3>3, <1>2
      <4>2. IsSuffix(<<e>>, o.text \o <<e>>)
        BY <3>2, <1>1, SuffixMore
      <4> QED  BY <4>1, <4>2, <3>1
    <3>4. CASE k.got # <<>>
      <4>1. IsSuffix(k.got, o.text)
        BY <3>1, <3>4 DEF Texts
      <4>2. IsSuffix(k.got \o <<e>>, o.text \o <<e>>)
        BY <4>1, <3>2, <1>1, SuffixMore
      <4> QED  BY <4>2, <3>1, <1>2
    <3> QED  BY <3>3, <3>4
  <2> QED  BY <1>7, <2>1, <2>2 DEF e, WithMore
<1> QED  BY <1>6, <1>7 DEF Texts

-----------------------------------------------------------------------------
(* What an operation of the project does to the texts of its messages *)

LEMMA AddedText ==
    ASSUME ProjectHeld, NEW m \in Messages, m.id = next + 1
    PROVE  /\ ToSet(Kept(Append(messages, m))) \subseteq ToSet(messages) \union {m}
           /\ \A o \in ToSet(messages) : o.id # next + 1 /\ o.id # 0
<1>1. /\ messages \in Seq(Messages) /\ Distinct(messages, next) /\ next \in Nat /\ Keep \in Nat
      /\ Len(messages) \in Nat /\ Len(messages) <= Keep
      /\ \A i \in DOMAIN messages : messages[i].id \in Nat \ {0} /\ messages[i].id <= next
  BY HeldFacts DEF ProjectHeld
<1>2. ~Has(messages, m.id)
  BY <1>1, NewNumber
<1> DEFINE more == Append(messages, m)
           l == Len(messages)
<1>3. /\ more \in Seq(Messages) /\ Distinct(more, next + 1) /\ ToSet(more) = ToSet(messages) \union {m}
      /\ Len(more) = l + 1
  BY <1>1, <1>2, AppendIs, Appended
<1>4. Len(more) <= Keep + 1 /\ next + 1 \in Nat
  BY <1>1, <1>3
<1> HIDE DEF more
<1>5. ToSet(Kept(more)) \subseteq ToSet(more)
  BY <1>3, <1>4, KeptIs
<1>6. \A o \in ToSet(messages) : o.id # next + 1 /\ o.id # 0
  <2> SUFFICES ASSUME NEW i \in DOMAIN messages PROVE messages[i].id # next + 1 /\ messages[i].id # 0
    BY DEF ToSet
  <2>1. messages[i].id \in Nat \ {0} /\ messages[i].id <= next
    BY <1>1
  <2> QED  BY <2>1, <1>1
<1> QED  BY <1>3, <1>5, <1>6 DEF more

LEMMA DeltaText ==
    ASSUME ProjectHeld, NEW t \in Seq(Attempts), ShowDelta(t)
    PROVE  /\ stream' # 0
           /\ \A m \in ToSet(messages') : WithMore(m, messages, stream, stream', t)
<1>1. /\ next \in Nat /\ stream \in Nat /\ stream <= next /\ messages \in Seq(Messages)
      /\ \A i \in DOMAIN messages : messages[i] \in Messages
  BY HeldFacts DEF ProjectHeld
<1>2. CASE stream = 0
  <2> DEFINE m == Said(next + 1, t)
  <2>1. m \in Messages /\ m.id = next + 1 /\ m.text = t
    BY <1>1 DEF Said, Messages
  <2>2. stream' = next + 1 /\ messages' = Kept(Append(messages, m))
    BY <1>2 DEF ShowDelta
  <2> HIDE DEF m
  <2>3. /\ ToSet(messages') \subseteq ToSet(messages) \union {m}
        /\ \A o \in ToSet(messages) : o.id # next + 1 /\ o.id # 0
    BY <2>1, <2>2, AddedText
  <2>4. next + 1 # 0
    BY <1>1
  <2> QED  BY <2>1, <2>2, <2>3, <2>4, <1>2 DEF WithMore
<1>3. CASE stream # 0
  <2> DEFINE new == Extended(messages, stream, t)
  <2>1. Like(messages, new) /\ \A i \in DOMAIN messages :
           new[i] = IF messages[i].id = stream THEN Longer(messages[i], t) ELSE messages[i]
    BY <1>1, ExtendedIs
  <2>2. stream' = stream /\ messages' = Kept(new)
    BY <1>3 DEF ShowDelta
  <2> HIDE DEF new
  <2>3. messages' = new
    BY <2>1, <2>2, KeptAll DEF ProjectHeld
  <2>4. ASSUME NEW i \in DOMAIN new
        PROVE  \/ new[i] \in ToSet(messages) /\ new[i].id # stream
               \/ /\ new[i].id = stream
                  /\ \E o \in ToSet(messages) : o.id = stream /\ new[i].text = o.text \o t
    <3>1. i \in DOMAIN messages /\ messages[i] \in ToSet(messages)
      BY <2>1 DEF Like, ToSet
    <3>2. CASE messages[i].id # stream
      BY <3>1, <3>2, <2>1
    <3>3. CASE messages[i].id = stream
      <4>1. new[i] = Longer(messages[i], t) /\ messages[i] \in Messages
        BY <3>1, <3>3, <2>1, <1>1
      <4>2. new[i].id = stream /\ new[i].text = messages[i].text \o t
        BY <4>1, <3>3, LongerIs
      <4> QED  BY <4>2, <3>1, <3>3
    <3> QED  BY <3>2, <3>3
  <2>5. \A m \in ToSet(new) :
           \/ m \in ToSet(messages) /\ m.id # stream
           \/ /\ m.id = stream
              /\ \E o \in ToSet(messages) : o.id = stream /\ m.text = o.text \o t
    BY <2>4 DEF ToSet
  <2> QED  BY <1>3, <2>2, <2>3, <2>5 DEF WithMore
<1> QED  BY <1>2, <1>3

LEMMA FailureText ==
    ASSUME ProjectHeld, ShowFailure
    PROVE  \A m \in ToSet(messages') : \E o \in ToSet(messages) : m.text = o.text
<1>1. CASE Has(messages, stream)
  <2> DEFINE p == Place(messages, stream)
             m == [messages[p] EXCEPT !.status = "error"]
  <2>1. p \in DOMAIN messages /\ messages[p] \in Messages /\ messages[p] \in ToSet(messages)
        /\ messages \in Seq(Messages)
    <3>1. p \in DOMAIN messages
      BY <1>1 DEF Has, Place
    <3> QED  BY <3>1, HeldFacts DEF ProjectHeld, ToSet
  <2>2. m \in Messages /\ m.text = messages[p].text
    BY <2>1 DEF Messages
  <2>3. messages' = Updated(messages, m)
    BY <1>1 DEF ShowFailure
  <2> HIDE DEF m, p
  <2>4. /\ Like(messages, Updated(messages, m))
        /\ \A i \in DOMAIN messages : Updated(messages, m)[i] = IF messages[i].id = m.id THEN m ELSE messages[i]
    BY <2>1, <2>2, UpdatedIs
  <2>5. ASSUME NEW i \in DOMAIN messages'
        PROVE  \E o \in ToSet(messages) : messages'[i].text = o.text
    <3>1. i \in DOMAIN messages /\ messages[i] \in ToSet(messages)
      BY <2>3, <2>4 DEF Like, ToSet
    <3>2. messages'[i] = m \/ messages'[i] = messages[i]
      BY <3>1, <2>3, <2>4
    <3> QED  BY <3>1, <3>2, <2>1, <2>2
  <2> QED  BY <2>5 DEF ToSet
<1>2. CASE ~Has(messages, stream)
  BY <1>2 DEF ShowFailure
<1> QED  BY <1>1, <1>2

LEMMA TakeBackText ==
    ASSUME ProjectHeld, TakeBack
    PROVE  ToSet(messages') \subseteq ToSet(messages) /\ \A m \in ToSet(messages') : m.id # stream
<1> DEFINE new == IF Has(messages, stream) /\ messages[Place(messages, stream)].status = "streaming"
                  THEN Without(messages, stream) ELSE messages
<1>1. messages' = new
  BY DEF TakeBack
<1>2. ~Has(new, stream) /\ ToSet(new) \subseteq ToSet(messages)
  BY TakingBack DEF ProjectHeld
<1> HIDE DEF new
<1>3. \A m \in ToSet(new) : m.id # stream
  BY <1>2 DEF Has, ToSet
<1> QED  BY <1>1, <1>2, <1>3

LEMMA AnswerText ==
    ASSUME ProjectHeld, NEW t \in Seq(Attempts), ShowAnswer(t)
    PROVE  \A m \in ToSet(messages') : m \in ToSet(messages) \/ m.text = t
<1> DEFINE id == IF stream = 0 THEN next + 1 ELSE stream
           m == [id |-> id, by |-> Manager, status |-> "complete", text |-> t]
<1>1. /\ next \in Nat /\ stream \in Nat /\ stream <= next /\ messages \in Seq(Messages) /\ Distinct(messages, next)
      /\ Len(messages) \in Nat /\ Len(messages) <= Keep /\ Keep \in Nat
  BY HeldFacts DEF ProjectHeld
<1>2. m \in Messages /\ m.id = id /\ m.text = t /\ id <= next + 1
  BY <1>1 DEF Messages
<1>3. messages' = Kept(Upsert(messages, m))
  BY DEF ShowAnswer
<1> HIDE DEF m, id
<1>4. CASE Has(messages, m.id)
  <2>1. Upsert(messages, m) = Updated(messages, m)
    BY <1>4 DEF Upsert
  <2>2. /\ Like(messages, Updated(messages, m))
        /\ \A i \in DOMAIN messages : Updated(messages, m)[i] = IF messages[i].id = m.id THEN m ELSE messages[i]
    BY <1>1, <1>2, UpdatedIs
  <2>3. messages' = Updated(messages, m)
    BY <1>3, <2>1, <2>2, KeptAll DEF ProjectHeld
  <2>4. ASSUME NEW i \in DOMAIN messages' PROVE messages'[i] \in ToSet(messages) \/ messages'[i] = m
    <3>1. i \in DOMAIN messages
      BY <2>2, <2>3 DEF Like
    <3>2. messages'[i] = m \/ messages'[i] = messages[i]
      BY <3>1, <2>2, <2>3
    <3> QED  BY <3>1, <3>2 DEF ToSet
  <2>5. \A o \in ToSet(messages') : o \in ToSet(messages) \/ o = m
    BY <2>4 DEF ToSet
  <2> QED  BY <2>5, <1>2
<1>5. CASE ~Has(messages, m.id)
  <2>1. Upsert(messages, m) = Append(messages, m)
    BY <1>5 DEF Upsert
  <2> DEFINE more == Append(messages, m)
             l == Len(messages)
             top == next + 1
  <2>2. top \in Nat /\ next <= top
    BY <1>1
  <2>3. /\ more \in Seq(Messages) /\ Distinct(more, top) /\ ToSet(more) = ToSet(messages) \union {m}
        /\ Len(more) = l + 1
    BY <1>1, <1>2, <1>5, <2>2, AppendIs, Appended
  <2>4. Len(more) <= Keep + 1
    BY <1>1, <2>3
  <2> HIDE DEF more, top
  <2>5. ToSet(Kept(more)) \subseteq ToSet(more)
    BY <2>2, <2>3, <2>4, KeptIs
  <2> QED  BY <2>1, <2>3, <2>5, <1>2, <1>3 DEF more
<1> QED  BY <1>4, <1>5

-----------------------------------------------------------------------------
(* The invariant of the text *)

LEMMA TextBase ==
    ASSUME ClientInv, TextInv
    PROVE  /\ TypeOK /\ ProjectHeld /\ messages \in Seq(Messages) /\ web \in BOOLEAN
           /\ Manager \in Callers /\ call[Manager] \in Calls /\ Attempt(Manager) = Now(call[Manager])
           /\ CallsText /\ GivenBefore /\ Texts(web, messages, stream, given, call[Manager])
           /\ Now(call[Manager]) \notin given /\ (~web => messages = <<>>)
<1>1. TypeOK /\ ProjectHeld /\ messages \in Seq(Messages) /\ web \in BOOLEAN
  BY ClientFacts DEF ClientInv, TypeOK
<1>2. Manager \in Callers /\ call[Manager] \in Calls /\ Attempt(Manager) = Now(call[Manager])
  BY <1>1 DEF TypeOK, Callers, Attempt, Now
<1>3. CallsText /\ GivenBefore /\ Texts(web, messages, stream, given, call[Manager])
  BY DEF TextInv
<1>4. Now(call[Manager]) \notin given
  <2> DEFINE k == call[Manager]
             a == Now(k)
  <2>1. k \in Calls /\ a \in Attempts /\ a[1] = Manager /\ a[2] = k.n /\ a[3] = k.retries
    BY <1>2, CallTyped
  <2>2. ~Before(a, k)
    BY <2>1, BeforeIs
  <2>3. a \in given => Before(a, k)
    BY <1>3, <2>1 DEF GivenBefore
  <2> QED  BY <2>2, <2>3
<1>5. ~web => messages = <<>>
  BY <1>3 DEF Texts
<1> QED  BY <1>1, <1>2, <1>3, <1>4, <1>5

\* Without a gateway there is no message.
LEMMA NoGateway ==
    ASSUME NEW str, NEW g, NEW k
    PROVE  Texts(FALSE, <<>>, str, g, k)
BY DEF Texts, ToSet

\* The calls and the attempts given up, after a step of one caller.
LEMMA CallsTextStep ==
    ASSUME TypeOK, CallsText, GivenBefore, NEW w \in Callers,
           NEW pc, NEW n, NEW retries, NEW delivered, NEW text, NEW got,
           CallIs(w, pc, n, retries, delivered, text, got),
           OfOneAttempt(w, <<w, n, retries>>, pc, delivered, text, got),
           \/ /\ given' = given
              /\ call[w].n < n \/ (call[w].n = n /\ call[w].retries <= retries)
           \/ /\ given' = given \union {Attempt(w)}
              /\ call[w].n = n /\ call[w].retries < retries
    PROVE  CallsText' /\ GivenBefore'
<1> DEFINE k == call[w]
           j == call'[w]
<1>1. k \in Calls /\ j \in Calls /\ call' \in [Callers -> Calls]
  BY CallFacts DEF CallIs
<1>2. j.n = n /\ j.retries = retries
  BY DEF CallIs
<1>3. CallsText'
  <2>1. ASSUME NEW u \in Callers
        PROVE  OfOneAttempt(u, Attempt(u), call[u].pc, call[u].delivered, call[u].text, call[u].got)'
    <3>1. CASE u = w
      BY <3>1 DEF CallIs, OfOneAttempt, Attempt
    <3>2. CASE u # w
      <4>1. call'[u] = call[u]
        BY <3>2 DEF CallIs
      <4> QED  BY <4>1 DEF CallsText, OfOneAttempt, Attempt
    <3> QED  BY <3>1, <3>2
  <2> QED  BY <2>1 DEF CallsText
<1>4. ASSUME NEW a \in given' PROVE Before(a, call'[a[1]])
  <2>1. a \in Attempts /\ a[1] \in Callers
    <3>1. Attempt(w) \in Attempts /\ given \subseteq Attempts
      BY CallFacts DEF TypeOK
    <3> QED  BY <3>1, AttemptIs
  <2>2. CASE a \in given /\ a[1] # w
    BY <2>1, <2>2 DEF GivenBefore, CallIs
  <2>3. CASE a \in given /\ a[1] = w
    <3>1. Before(a, k)
      BY <2>3 DEF GivenBefore
    <3>2. NotAgo(k, j)
      <4>1. k.retries \in Nat /\ j.retries \in Nat
        BY <1>1, CallTyped
      <4> QED  BY <4>1, <1>2 DEF NotAgo
    <3> QED  BY <3>1, <3>2, <2>1, <2>3, <1>1, BeforeIs
  <2>4. CASE a \notin given
    <3>1. a = Attempt(w) /\ k.n = n /\ k.retries < retries
      BY <2>4
    <3>2. a[1] = w /\ a[2] = k.n /\ a[3] = k.retries
      BY <3>1 DEF Attempt
    <3>3. Later(k, j)
      BY <3>1, <1>2 DEF Later
    <3> QED  BY <3>2, <3>3, <2>1, <1>1, BeforeIs
  <2> QED  BY <2>2, <2>3, <2>4
<1>5. GivenBefore'
  BY <1>4 DEF GivenBefore
<1> QED  BY <1>3, <1>5

\* A step that leaves the manager's call and its text alone.
LEMMA OthersText ==
    ASSUME ClientInv, TextInv, ClientInv', web' = web, stream' = stream,
           call'[Manager].n = call[Manager].n, call'[Manager].retries = call[Manager].retries,
           call'[Manager].pc = call[Manager].pc, call'[Manager].got = call[Manager].got,
           NEW n, NEW r, given' \subseteq given \union {<<Worker, n, r>>},
           \A m \in ToSet(messages') : m \in ToSet(messages) \/ (ToSet(m.text) = {} /\ m.id # stream),
           ~web => messages' = <<>>
    PROVE  Texts(web, messages, stream, given, call[Manager])'
<1> DEFINE k == call[Manager]
           j == call'[Manager]
           new == messages'
           g2 == given'
           x == <<Worker, n, r>>
<1>1. /\ messages \in Seq(Messages) /\ web \in BOOLEAN /\ k \in Calls
      /\ Texts(web, messages, stream, given, k)
  BY TextBase
<1>2. new \in Seq(Messages) /\ j \in Calls
  BY DEF ClientInv, RestOK, ProjectHeld, Held, Callers
<1>3. SameCall(k, j) /\ j.pc = k.pc /\ j.got = k.got
  BY DEF SameCall
<1>4. x[1] # Manager /\ g2 \subseteq given \union {x}
  BY DEF Worker, Manager
<1>5. /\ \A m \in ToSet(new) : m \in ToSet(messages) \/ (ToSet(m.text) = {} /\ m.id # stream)
      /\ ~web => new = <<>>
  OBVIOUS
<1> HIDE DEF k, j, new, g2, x
<1>6. Texts(web, new, stream, g2, j)
  BY <1>1, <1>2, <1>3, <1>4, <1>5, TextsKept
<1> QED  BY <1>6 DEF new, g2, j

\* The messages after what a step told the gateway.
LEMMA QuietText ==
    ASSUME UNCHANGED project \/ Tell(Event)
    PROVE  messages' = messages /\ stream' = stream
BY DEF project, Tell, Event

\* A worker's step.
LEMMA WorkerText ==
    ASSUME ClientInv, TextInv, ClientInv', NEW w \in Callers, w # Manager, web' = web,
           UNCHANGED project \/ Tell(Event), \A u \in Callers \ {w} : call'[u] = call[u],
           given' \subseteq given \union {Attempt(w)}
    PROVE  Texts(web, messages, stream, given, call[Manager])'
<1>1. messages' = messages /\ stream' = stream
  BY QuietText
<1>2. call'[Manager] = call[Manager] /\ Attempt(w) = <<Worker, call[w].n, call[w].retries>>
  BY DEF Callers, Attempt
<1>3. ~web => messages = <<>>
  BY TextBase
<1> QED  BY <1>1, <1>2, <1>3, OthersText

LEMMA FailText ==
    ASSUME ClientInv, TextInv, ClientInv', NEW w \in Callers, Fail(w)
    PROVE  TextInv'
<1> DEFINE k == call[Manager]
           j == call'[Manager]
           new == messages'
           str2 == stream'
<1>1. /\ TypeOK /\ ProjectHeld /\ messages \in Seq(Messages) /\ web \in BOOLEAN /\ Manager \in Callers
      /\ k \in Calls /\ CallsText /\ GivenBefore /\ Texts(web, messages, stream, given, k)
      /\ Now(k) \notin given /\ (~web => messages = <<>>)
  BY TextBase
<1>2. /\ call' = [call EXCEPT ![w].pc = "idle"] /\ web' = web /\ given' = given
      /\ Tell(IF w = Manager THEN ShowFailure ELSE Event)
  BY DEF Fail
<1>3. CallIs(w, "idle", call[w].n, call[w].retries, call[w].delivered, call[w].text, call[w].got)
  BY <1>1, <1>2, PcIs
<1>4. CallsText' /\ GivenBefore'
  <2>1. OfOneAttempt(w, <<w, call[w].n, call[w].retries>>, "idle", call[w].delivered, call[w].text, call[w].got)
    BY <1>1 DEF CallsText, OfOneAttempt, Attempt
  <2>2. call[w].n = call[w].n /\ call[w].retries <= call[w].retries
    BY <1>1, CallFacts
  <2> QED  BY <1>1, <1>2, <1>3, <2>1, <2>2, CallsTextStep
<1>5. Texts(web, messages, stream, given, call[Manager])'
  <2>1. CASE w = Manager
    <3>1. /\ \A m \in ToSet(new) : \E o \in ToSet(messages) : m.text = o.text
          /\ ~web => new = <<>>
      <4>1. CASE web
        <5>1. ShowFailure
          BY <1>2, <2>1, <4>1 DEF Tell
        <5> QED  BY <5>1, <4>1, <1>1, FailureText
      <4>2. CASE ~web
        BY <1>1, <1>2, <4>2 DEF Tell, project
      <4> QED  BY <4>1, <4>2
    <3>2. new \in Seq(Messages) /\ j \in Calls
      BY DEF ClientInv, RestOK, ProjectHeld, Held, Callers
    <3>3. SameCall(k, j) /\ j.pc = "idle"
      BY <1>3, <2>1 DEF SameCall, CallIs
    <3> HIDE DEF k, j, new, str2
    <3>4. Texts(web, new, str2, given, j)
      BY <1>1, <3>1, <3>2, <3>3, TextsOver
    <3> QED  BY <3>4, <1>2 DEF new, str2, j
  <2>2. CASE w # Manager
    <3>1. /\ \A u \in Callers \ {w} : call'[u] = call[u]
          /\ UNCHANGED project \/ Tell(Event)
          /\ given' \subseteq given \union {Attempt(w)}
      BY <1>2, <1>3, <2>2 DEF CallIs
    <3> QED  BY <3>1, <2>2, <1>2, WorkerText
  <2> QED  BY <2>1, <2>2
<1> QED  BY <1>4, <1>5 DEF TextInv

LEMMA RetryText ==
    ASSUME ClientInv, TextInv, ClientInv', NEW w \in Callers, NEW reset \in BOOLEAN, Budget(w),
           Retry(w, reset), call[w].pc \in {"send", "read"}, reset => web /\ w = Manager,
           ~reset => call[w].got = <<>>
    PROVE  TextInv'
<1> DEFINE k == call[Manager]
           j == call'[Manager]
           new == messages'
           str2 == stream'
           g2 == given'
<1>1. /\ TypeOK /\ ProjectHeld /\ messages \in Seq(Messages) /\ web \in BOOLEAN /\ Manager \in Callers
      /\ k \in Calls /\ CallsText /\ GivenBefore /\ Texts(web, messages, stream, given, k)
      /\ Attempt(Manager) = Now(k) /\ (~web => messages = <<>>)
  BY TextBase
<1>2. /\ web' = web /\ given' = given \union {Attempt(w)}
      /\ Tell(IF reset THEN TakeBack ELSE Event)
  BY DEF Retry
<1> DEFINE got2 == IF reset THEN <<>> ELSE call[w].got
<1>3. CallIs(w, "wait", call[w].n, call[w].retries + 1, call[w].delivered, call[w].text, got2)
  BY <1>1, RetryIs
<1>4. got2 = <<>>
  OBVIOUS
<1> HIDE DEF got2
<1>5. call[w].n \in Nat /\ call[w].retries \in Nat /\ call[w].retries < call[w].retries + 1
  BY <1>1, CallFacts
<1>6. CallsText' /\ GivenBefore'
  <2>1. OfOneAttempt(w, <<w, call[w].n, call[w].retries + 1>>, "wait", call[w].delivered, call[w].text, got2)
    <3>1. call[w].delivered => w = Manager
      BY <1>1 DEF CallsText, OfOneAttempt
    <3> QED  BY <3>1, <1>4 DEF OfOneAttempt, ToSet
  <2> QED  BY <1>1, <1>2, <1>3, <1>5, <2>1, CallsTextStep
<1>7. Texts(web, messages, stream, given, call[Manager])'
  <2>1. CASE w = Manager
    <3>1. /\ ToSet(new) \subseteq ToSet(messages) /\ (~web => new = <<>>)
          /\ k.got = <<>> \/ \A m \in ToSet(new) : m.id # stream
      <4>1. CASE reset
        <5>1. TakeBack
          BY <1>2, <4>1 DEF Tell
        <5> QED  BY <5>1, <4>1, <1>1, TakeBackText
      <4>2. CASE ~reset
        <5>1. messages' = messages
          BY <1>2, <4>2, QuietText
        <5> QED  BY <5>1, <4>2, <2>1, <1>1
      <4> QED  BY <4>1, <4>2
    <3>2. new \in Seq(Messages) /\ j \in Calls
      BY DEF ClientInv, RestOK, ProjectHeld, Held, Callers
    <3>3. Later(k, j) /\ j.pc = "wait"
      BY <1>3, <1>5, <2>1 DEF Later, CallIs
    <3>4. g2 = given \union {Now(k)} /\ k.pc \in {"send", "read"}
      BY <1>1, <1>2, <2>1
    <3> HIDE DEF k, j, new, str2, g2
    <3>5. Texts(web, new, str2, g2, j)
      BY <1>1, <3>1, <3>2, <3>3, <3>4, TextsLater
    <3> QED  BY <3>5, <1>2 DEF new, str2, j, g2
  <2>2. CASE w # Manager
    <3>1. /\ \A u \in Callers \ {w} : call'[u] = call[u]
          /\ UNCHANGED project \/ Tell(Event)
          /\ given' \subseteq given \union {Attempt(w)}
      BY <1>2, <1>3, <2>2 DEF CallIs
    <3> QED  BY <3>1, <2>2, <1>2, WorkerText
  <2> QED  BY <2>1, <2>2
<1> QED  BY <1>6, <1>7 DEF TextInv

LEMMA StartText ==
    ASSUME ClientInv, TextInv, ClientInv', NEW w \in Callers, call' = Started(w),
           web' = web, given' = given, Tell(Event)
    PROVE  TextInv'
<1> DEFINE k == call[Manager]
           j == call'[Manager]
           new == messages'
           str2 == stream'
<1>1. /\ TypeOK /\ ProjectHeld /\ messages \in Seq(Messages) /\ web \in BOOLEAN /\ Manager \in Callers
      /\ k \in Calls /\ CallsText /\ GivenBefore /\ Texts(web, messages, stream, given, k)
      /\ (~web => messages = <<>>)
  BY TextBase
<1>2. CallIs(w, "send", call[w].n + 1, 0, FALSE, <<>>, <<>>)
  BY <1>1, StartedIs
<1>3. call[w].n \in Nat /\ call[w].n < call[w].n + 1
  BY <1>1, CallFacts
<1>4. messages' = messages
  BY QuietText
<1>5. CallsText' /\ GivenBefore'
  <2>1. OfOneAttempt(w, <<w, call[w].n + 1, 0>>, "send", FALSE, <<>>, <<>>)
    BY DEF OfOneAttempt, ToSet
  <2> QED  BY <1>1, <1>2, <1>3, <2>1, CallsTextStep
<1>6. Texts(web, messages, stream, given, call[Manager])'
  <2>1. CASE w = Manager
    <3>1. new \in Seq(Messages) /\ j \in Calls /\ new = messages
      BY <1>4 DEF ClientInv, RestOK, ProjectHeld, Held, Callers
    <3>2. Later(k, j) /\ j.pc = "send"
      BY <1>2, <1>3, <2>1 DEF Later, CallIs
    <3> HIDE DEF k, j, new, str2
    <3>3. Texts(web, new, str2, given, j)
      BY <1>1, <3>1, <3>2, TextsLater
    <3> QED  BY <3>3 DEF new, str2, j
  <2>2. CASE w # Manager
    BY <2>2, <1>2, WorkerText DEF CallIs
  <2> QED  BY <2>1, <2>2
<1> QED  BY <1>5, <1>6 DEF TextInv

\* A step after which the call is over, or its response complete.
LEMMA OverText ==
    ASSUME ClientInv, TextInv, ClientInv', NEW w \in Callers, web' = web, given' = given,
           NEW pc \in {"idle", "said"}, NEW got,
           got = call[w].got \/ (got = call[w].text /\ call[w].pc \in {"read", "said"}),
           pc = "said" => call[w].pc = "read",
           CallIs(w, pc, call[w].n, call[w].retries, call[w].delivered, call[w].text, got),
           UNCHANGED project \/ Tell(Event)
    PROVE  TextInv'
<1> DEFINE k == call[Manager]
           j == call'[Manager]
           new == messages'
           str2 == stream'
<1>1. /\ TypeOK /\ ProjectHeld /\ messages \in Seq(Messages) /\ web \in BOOLEAN /\ Manager \in Callers
      /\ k \in Calls /\ CallsText /\ GivenBefore /\ Texts(web, messages, stream, given, k)
      /\ Now(k) \notin given /\ (~web => messages = <<>>)
  BY TextBase
<1>2. messages' = messages
  BY QuietText
<1>3. CallsText' /\ GivenBefore'
  <2>1. OfOneAttempt(w, <<w, call[w].n, call[w].retries>>, pc, call[w].delivered, call[w].text, got)
    BY <1>1 DEF CallsText, OfOneAttempt, Attempt
  <2>2. call[w].n = call[w].n /\ call[w].retries <= call[w].retries
    BY <1>1, CallFacts
  <2> QED  BY <1>1, <2>1, <2>2, CallsTextStep
<1>4. Texts(web, messages, stream, given, call[Manager])'
  <2>1. CASE w = Manager
    <3>1. new \in Seq(Messages) /\ j \in Calls /\ new = messages
      BY <1>2 DEF ClientInv, RestOK, ProjectHeld, Held, Callers
    <3>2. SameCall(k, j) /\ j.pc \in {"idle", "said"}
      BY <2>1 DEF SameCall, CallIs
    <3> HIDE DEF k, j, new, str2
    <3>3. Texts(web, new, str2, given, j)
      BY <1>1, <3>1, <3>2, TextsOver
    <3> QED  BY <3>3 DEF new, str2, j
  <2>2. CASE w # Manager
    BY <2>2, WorkerText DEF CallIs
  <2> QED  BY <2>1, <2>2
<1> QED  BY <1>3, <1>4 DEF TextInv

\* The response begins, or a request is made again.
LEMMA AgainText ==
    ASSUME ClientInv, TextInv, ClientInv', NEW w \in Callers, web' = web, given' = given,
           NEW pc \in {"send", "read"}, NEW delivered, NEW text, call[w].pc \in {"send", "wait"},
           ToSet(text) = {} \/ pc = "send", delivered => w = Manager, pc = "read" => ~delivered,
           CallIs(w, pc, call[w].n, call[w].retries, delivered, text, call[w].got),
           UNCHANGED project
    PROVE  TextInv'
<1> DEFINE k == call[Manager]
           j == call'[Manager]
<1>1. /\ TypeOK /\ ProjectHeld /\ messages \in Seq(Messages) /\ web \in BOOLEAN /\ Manager \in Callers
      /\ k \in Calls /\ CallsText /\ GivenBefore /\ Texts(web, messages, stream, given, k)
  BY TextBase
<1>2. messages' = messages /\ stream' = stream
  BY QuietText
<1>3. call[w].got = <<>>
  BY <1>1 DEF CallsText, OfOneAttempt
<1>4. CallsText' /\ GivenBefore'
  <2>1. OfOneAttempt(w, <<w, call[w].n, call[w].retries>>, pc, delivered, text, call[w].got)
    BY <1>1, <1>3 DEF CallsText, OfOneAttempt, Attempt
  <2>2. call[w].n = call[w].n /\ call[w].retries <= call[w].retries
    BY <1>1, CallFacts
  <2> QED  BY <1>1, <2>1, <2>2, CallsTextStep
<1>5. Texts(web, messages, stream, given, call[Manager])'
  <2>1. CASE w = Manager
    <3>1. j \in Calls
      BY DEF ClientInv, RestOK, Callers
    <3>2. SameCall(k, j) /\ k.pc \in {"send", "wait"} /\ j.got = <<>>
      BY <2>1, <1>3 DEF SameCall, CallIs
    <3> HIDE DEF k, j
    <3>3. Texts(web, messages, stream, given, j)
      BY <1>1, <3>1, <3>2, TextsAgain
    <3> QED  BY <3>3, <1>2 DEF j
  <2>2. CASE w # Manager
    BY <2>2, WorkerText DEF CallIs
  <2> QED  BY <2>1, <2>2
<1> QED  BY <1>4, <1>5 DEF TextInv

\* A piece of text goes on to the front end.
LEMMA ForwardText ==
    ASSUME ClientInv, TextInv, ClientInv', NEW w \in Callers, Chunk(w), Forwarded(w)
    PROVE  TextInv'
<1> DEFINE k == call[Manager]
           j == call'[Manager]
           new == messages'
           str2 == stream'
           e == Attempt(w)
           t == <<e>>
<1>1. /\ TypeOK /\ ProjectHeld /\ messages \in Seq(Messages) /\ web \in BOOLEAN /\ Manager \in Callers
      /\ k \in Calls /\ CallsText /\ GivenBefore /\ Texts(web, messages, stream, given, k)
      /\ Attempt(Manager) = Now(k) /\ Now(k) \notin given /\ (~web => messages = <<>>)
  BY TextBase
<1>2. w = Manager
  BY DEF Forwarded, Replayable
<1>3. /\ call' = [call EXCEPT ![w].text = @ \o t, ![w].delivered = TRUE, ![w].got = @ \o t]
      /\ Tell(ShowDelta(t)) /\ web' = web /\ given' = given /\ call[w].pc = "read"
  BY <1>2 DEF Chunk
<1>4. e \in Attempts /\ t \in Seq(Attempts) /\ call[w].text \in Seq(Attempts) /\ call[w].got \in Seq(Attempts)
  BY <1>1, CallFacts
<1>5. CallIs(w, call[w].pc, call[w].n, call[w].retries, TRUE, call[w].text \o t, call[w].got \o t)
  BY <1>1, <1>3, <1>4, ForwardedIs
<1>6. CallsText' /\ GivenBefore'
  <2>1. ToSet(call[w].text) \subseteq {e} /\ ToSet(call[w].got) \subseteq {e}
    BY <1>1, <1>3 DEF CallsText, OfOneAttempt
  <2>2. ToSet(call[w].text \o t) \subseteq {e} /\ ToSet(call[w].got \o t) \subseteq {e}
    BY <1>4, <2>1, OneMore
  <2>3. OfOneAttempt(w, <<w, call[w].n, call[w].retries>>, call[w].pc, TRUE, call[w].text \o t, call[w].got \o t)
    BY <2>2, <1>2, <1>3 DEF OfOneAttempt, Attempt
  <2>4. call[w].n = call[w].n /\ call[w].retries <= call[w].retries
    BY <1>1, CallFacts
  <2> QED  BY <1>1, <1>3, <1>5, <2>3, <2>4, CallsTextStep
<1>7. Texts(web, messages, stream, given, call[Manager])'
  <2>1. new \in Seq(Messages) /\ j \in Calls
    BY DEF ClientInv, RestOK, ProjectHeld, Held, Callers
  <2>2. /\ SameCall(k, j) /\ k.pc = "read" /\ j.pc = "read" /\ j.got = k.got \o <<Now(k)>>
    BY <1>1, <1>2, <1>3, <1>5 DEF SameCall, CallIs
  <2>3. CASE web
    <3>1. ShowDelta(t) /\ t = <<Now(k)>>
      BY <1>1, <1>2, <1>3, <2>3 DEF Tell
    <3>2. /\ str2 # 0
          /\ \A m \in ToSet(new) : WithMore(m, messages, stream, str2, <<Now(k)>>)
      BY <1>1, <1>4, <3>1, DeltaText
    <3>3. /\ k \in Calls /\ messages \in Seq(Messages) /\ web \in BOOLEAN
          /\ Texts(web, messages, stream, given, k) /\ Now(k) \notin given
      BY <1>1
    <3> HIDE DEF k, j, new, str2, t, e
    <3>4. Texts(web, new, str2, given, j)
      BY <2>1, <2>2, <2>3, <3>2, <3>3, TextsMore
    <3> QED  BY <3>4, <1>3 DEF new, str2, j
  <2>4. CASE ~web
    <3>1. messages' = <<>> /\ web' = FALSE
      BY <1>1, <1>3, <2>4 DEF Tell, project
    <3> HIDE DEF str2, j
    <3>2. Texts(FALSE, <<>>, str2, given, j)
      BY NoGateway
    <3> QED  BY <3>1, <3>2, <1>3 DEF str2, j
  <2> QED  BY <2>3, <2>4
<1> QED  BY <1>6, <1>7 DEF TextInv

\* A piece of text is held back, or dropped after a cancellation.
LEMMA HoldText ==
    ASSUME ClientInv, TextInv, ClientInv', NEW w \in Callers, Chunk(w), ~Forwarded(w)
    PROVE  TextInv'
<1> DEFINE e == Attempt(w)
           t == <<e>>
<1>1. /\ TypeOK /\ Manager \in Callers /\ CallsText /\ GivenBefore /\ (~web => messages = <<>>)
  BY TextBase
<1>2. /\ call' = [call EXCEPT ![w].text = @ \o t] /\ UNCHANGED project
      /\ web' = web /\ given' = given /\ call[w].pc = "read"
  BY DEF Chunk
<1>3. e \in Attempts /\ t \in Seq(Attempts) /\ call[w].text \in Seq(Attempts)
  BY <1>1, CallFacts
<1>4. CallIs(w, call[w].pc, call[w].n, call[w].retries, call[w].delivered, call[w].text \o t, call[w].got)
  BY <1>1, <1>2, <1>3, HeldBackIs
<1>5. CallsText' /\ GivenBefore'
  <2>1. ToSet(call[w].text) \subseteq {e}
    BY <1>1, <1>2 DEF CallsText, OfOneAttempt
  <2>2. ToSet(call[w].text \o t) \subseteq {e}
    BY <1>3, <2>1, OneMore
  <2>3. OfOneAttempt(w, <<w, call[w].n, call[w].retries>>, call[w].pc, call[w].delivered,
                     call[w].text \o t, call[w].got)
    BY <2>2, <1>1, <1>2 DEF CallsText, OfOneAttempt, Attempt
  <2>4. call[w].n = call[w].n /\ call[w].retries <= call[w].retries
    BY <1>1, CallFacts
  <2> QED  BY <1>1, <1>2, <1>4, <2>3, <2>4, CallsTextStep
<1>6. Texts(web, messages, stream, given, call[Manager])'
  <2>1. messages' = messages /\ stream' = stream
    BY <1>2, QuietText
  <2>2. /\ call'[Manager].n = call[Manager].n /\ call'[Manager].retries = call[Manager].retries
        /\ call'[Manager].pc = call[Manager].pc /\ call'[Manager].got = call[Manager].got
    <3>1. CASE w = Manager
      BY <3>1, <1>4 DEF CallIs
    <3>2. CASE w # Manager
      BY <3>2, <1>1, <1>4 DEF CallIs
    <3> QED  BY <3>1, <3>2
  <2> QED  BY <1>1, <1>2, <2>1, <2>2, OthersText
<1> QED  BY <1>5, <1>6 DEF TextInv

LEMMA ThoughtText ==
    ASSUME ClientInv, TextInv, ClientInv', NEW w \in Callers, Thought(w)
    PROVE  TextInv'
<1>1. /\ TypeOK /\ Manager \in Callers /\ CallsText /\ GivenBefore /\ (~web => messages = <<>>)
  BY TextBase
<1>2. /\ call' = [call EXCEPT ![w].delivered = TRUE] /\ Tell(Event) /\ w = Manager
      /\ web' = web /\ given' = given /\ call[w].pc = "read"
  BY DEF Thought, Forwarded, Replayable
<1>3. CallIs(w, call[w].pc, call[w].n, call[w].retries, TRUE, call[w].text, call[w].got)
  BY <1>1, <1>2, ThoughtIs
<1>4. CallsText' /\ GivenBefore'
  <2>1. OfOneAttempt(w, <<w, call[w].n, call[w].retries>>, call[w].pc, TRUE, call[w].text, call[w].got)
    BY <1>1, <1>2 DEF CallsText, OfOneAttempt, Attempt
  <2>2. call[w].n = call[w].n /\ call[w].retries <= call[w].retries
    BY <1>1, CallFacts
  <2> QED  BY <1>1, <1>2, <1>3, <2>1, <2>2, CallsTextStep
<1>5. Texts(web, messages, stream, given, call[Manager])'
  <2>1. messages' = messages /\ stream' = stream
    BY <1>2, QuietText
  <2>2. /\ call'[Manager].n = call[Manager].n /\ call'[Manager].retries = call[Manager].retries
        /\ call'[Manager].pc = call[Manager].pc /\ call'[Manager].got = call[Manager].got
    BY <1>2, <1>3 DEF CallIs
  <2> QED  BY <1>1, <1>2, <2>1, <2>2, OthersText
<1> QED  BY <1>4, <1>5 DEF TextInv

\* The whole answer is shown.
LEMMA GivenAnswerText ==
    ASSUME ClientInv, TextInv, ClientInv', NEW w \in Callers, Answer(w)
    PROVE  TextInv'
<1> DEFINE k == call[Manager]
           j == call'[Manager]
           new == messages'
           str2 == stream'
<1>1. /\ TypeOK /\ ProjectHeld /\ messages \in Seq(Messages) /\ web \in BOOLEAN /\ Manager \in Callers
      /\ k \in Calls /\ CallsText /\ GivenBefore /\ Texts(web, messages, stream, given, k)
      /\ Attempt(Manager) = Now(k) /\ Now(k) \notin given /\ (~web => messages = <<>>)
  BY TextBase
<1>2. /\ call[w].pc = "said" /\ call' = [call EXCEPT ![w].pc = "idle"] /\ web' = web /\ given' = given
  BY DEF Answer
<1>3. CallIs(w, "idle", call[w].n, call[w].retries, call[w].delivered, call[w].text, call[w].got)
  BY <1>1, <1>2, PcIs
<1>4. CASE w # Manager
  <2>1. UNCHANGED project
    BY <1>4 DEF Answer
  <2> QED  BY <1>2, <1>3, <2>1, OverText
<1>5. CASE w = Manager
  <2>1. Tell(ShowAnswer(call[w].text))
    BY <1>5 DEF Answer
  <2>2. CallsText' /\ GivenBefore'
    <3>1. OfOneAttempt(w, <<w, call[w].n, call[w].retries>>, "idle", call[w].delivered, call[w].text, call[w].got)
      BY <1>1 DEF CallsText, OfOneAttempt, Attempt
    <3>2. call[w].n = call[w].n /\ call[w].retries <= call[w].retries
      BY <1>1, CallFacts
    <3> QED  BY <1>1, <1>2, <1>3, <3>1, <3>2, CallsTextStep
  <2>3. /\ \A m \in ToSet(new) : \/ ToSet(m.text) \subseteq {Now(k)}
                                 \/ \E o \in ToSet(messages) : m.text = o.text
        /\ ~web => new = <<>>
    <3>1. CASE web
      <4>1. ShowAnswer(call[w].text) /\ call[w].text \in Seq(Attempts)
        BY <2>1, <3>1, <1>1, CallFacts DEF Tell
      <4>2. \A m \in ToSet(new) : m \in ToSet(messages) \/ m.text = call[w].text
        BY <4>1, <1>1, AnswerText
      <4>3. ToSet(call[w].text) \subseteq {Now(k)}
        BY <1>1, <1>2, <1>5 DEF CallsText, OfOneAttempt
      <4> QED  BY <4>2, <4>3, <3>1
    <3>2. CASE ~web
      BY <1>1, <2>1, <3>2 DEF Tell, project, ToSet
    <3> QED  BY <3>1, <3>2
  <2>4. new \in Seq(Messages) /\ j \in Calls
    BY DEF ClientInv, RestOK, ProjectHeld, Held, Callers
  <2>5. SameCall(k, j) /\ j.pc = "idle"
    BY <1>3, <1>5 DEF SameCall, CallIs
  <2> HIDE DEF k, j, new, str2
  <2>6. Texts(web, new, str2, given, j)
    BY <1>1, <2>3, <2>4, <2>5, TextsOver
  <2> QED  BY <2>2, <2>6, <1>2 DEF new, str2, j, TextInv
<1> QED  BY <1>4, <1>5

LEMMA CallingText ==
    ASSUME ClientInv, TextInv, ClientInv', NEW w \in Callers, Calling(w)
    PROVE  TextInv'
<1>1. TypeOK /\ ProjectHeld /\ CallsText /\ web \in BOOLEAN /\ (~web => messages = <<>>)
  BY TextBase
<1>2. /\ call[w].delivered \in BOOLEAN
      /\ OfOneAttempt(w, Attempt(w), call[w].pc, call[w].delivered, call[w].text, call[w].got)
  BY <1>1, CallFacts DEF CallsText
<1>3. CASE Begin(w)
  BY <1>3, StartText DEF Begin
<1>4. CASE Request(w)
  <2>1. call[w].pc = "send" /\ call[w].got = <<>>
    BY <1>2, <1>4 DEF Request, OfOneAttempt
  <2>2. CASE /\ call' = [call EXCEPT ![w].pc = "read", ![w].delivered = FALSE, ![w].text = <<>>]
             /\ UNCHANGED <<web, project, queue, canceled, given, used>>
    <3>1. CallIs(w, "read", call[w].n, call[w].retries, FALSE, <<>>, call[w].got)
      BY <2>2, <1>1, ReadIs
    <3>2. ToSet(<<>>) = {}
      BY DEF ToSet
    <3>3. web' = web /\ given' = given /\ UNCHANGED project
      BY <2>2
    <3> DEFINE d == FALSE
    <3>4. CallIs(w, "read", call[w].n, call[w].retries, d, <<>>, call[w].got) /\ ~d
      BY <3>1
    <3>5. call[w].pc \in {"send", "wait"} /\ "read" \in {"send", "read"}
      BY <2>1
    <3> HIDE DEF d
    <3> QED  BY <3>2, <3>3, <3>4, <3>5, AgainText
  <2>3. CASE Budget(w) /\ Retry(w, FALSE)
    BY <2>1, <2>3, RetryText
  <2>4. CASE Fail(w)
    BY <2>4, FailText
  <2> QED  BY <1>4, <2>2, <2>3, <2>4 DEF Request
<1>5. CASE Wait(w)
  <2>1. CASE Fail(w)
    BY <2>1, FailText
  <2>2. CASE /\ call' = [call EXCEPT ![w].pc = "send"]
             /\ UNCHANGED <<web, project, queue, canceled, given, used>>
    <3>1. CallIs(w, "send", call[w].n, call[w].retries, call[w].delivered, call[w].text, call[w].got)
      BY <2>2, <1>1, PcIs
    <3>2. call[w].pc = "wait" /\ (call[w].delivered => w = Manager)
      BY <1>2, <1>5 DEF Wait, OfOneAttempt
    <3>3. web' = web /\ given' = given /\ UNCHANGED project
      BY <2>2
    <3> QED  BY <3>1, <3>2, <3>3, AgainText
  <2> QED  BY <1>5, <2>1, <2>2 DEF Wait
<1>6. CASE Chunk(w)
  BY <1>6, ForwardText, HoldText
<1>7. CASE Thought(w)
  BY <1>7, ThoughtText
<1>8. CASE Complete(w)
  <2>1. CASE Fail(w)
    BY <2>1, FailText
  <2>2. CASE /\ call' = [call EXCEPT ![w].pc = "said", ![w].got = IF Replayable(w) THEN call[w].text ELSE @]
             /\ Tell(Event) /\ UNCHANGED <<web, queue, canceled, given, used>>
    <3> DEFINE got == IF Replayable(w) THEN call[w].text ELSE call[w].got
    <3>1. got \in Seq(Attempts) /\ call' = [call EXCEPT ![w].pc = "said", ![w].got = got]
      BY <2>2, <1>1, CallFacts
    <3>2. got = call[w].got \/ got = call[w].text
      OBVIOUS
    <3> HIDE DEF got
    <3>3. CallIs(w, "said", call[w].n, call[w].retries, call[w].delivered, call[w].text, got)
      BY <3>1, <1>1, SaidIs
    <3>4. call[w].pc = "read"
      BY <1>8 DEF Complete
    <3>5. web' = web /\ given' = given /\ Tell(Event)
      BY <2>2
    <3> QED  BY <3>2, <3>3, <3>4, <3>5, OverText
  <2> QED  BY <1>8, <2>1, <2>2 DEF Complete
<1>9. CASE Unusable(w)
  BY <1>9, FailText DEF Unusable
<1>10. CASE Break(w)
  <2>1. CASE Fail(w)
    BY <2>1, FailText
  <2>2. CASE /\ Budget(w) /\ (call[w].delivered => web) /\ Retry(w, call[w].delivered)
    <3>1. call[w].pc = "read"
      BY <1>1, <1>10, BreakIs
    <3>2. (call[w].delivered => w = Manager) /\ (~call[w].delivered => call[w].got = <<>>)
      BY <1>2, <3>1 DEF OfOneAttempt
    <3> QED  BY <1>2, <2>2, <3>1, <3>2, RetryText
  <2> QED  BY <1>1, <1>10, <2>1, <2>2, BreakIs
<1>11. CASE NextCall(w)
  <2>1. web' = web /\ given' = given
    BY <1>11 DEF NextCall
  <2>2. CASE call' = Started(w) /\ Tell(Event)
    BY <2>1, <2>2, StartText
  <2>3. CASE call' = [call EXCEPT ![w].pc = "idle"] /\ UNCHANGED project
    <3>1. CallIs(w, "idle", call[w].n, call[w].retries, call[w].delivered, call[w].text, call[w].got)
      BY <2>3, <1>1, PcIs
    <3> QED  BY <2>1, <2>3, <3>1, OverText
  <2> QED  BY <1>11, <2>2, <2>3 DEF NextCall
<1>12. CASE Answer(w)
  BY <1>12, GivenAnswerText
<1>13. CASE Cancel(w)
  <2>1. web' = web /\ given' = given /\ call' = call /\ messages' = messages /\ stream' = stream
    BY <1>13 DEF Cancel, project
  <2> QED  BY <2>1 DEF TextInv, CallsText, GivenBefore, Attempt
<1> QED  BY <1>3, <1>4, <1>5, <1>6, <1>7, <1>8, <1>9, <1>10, <1>11, <1>12, <1>13 DEF Calling

LEMMA PostedIs ==
    ASSUME ClientInv, Post \/ Report
    PROVE  \E m \in Messages : /\ m.id = next + 1 /\ ToSet(m.text) = {}
                               /\ messages' = Kept(Append(messages, m))
<1>1. next \in Nat
  BY HeldFacts DEF ClientInv, ProjectHeld
<1>2. ToSet(<<>>) = {}
  BY DEF ToSet
<1>3. CASE Post
  <2> DEFINE m == [id |-> next + 1, by |-> "user", status |-> "queued", text |-> <<>>]
  <2>1. m \in Messages /\ m.id = next + 1 /\ m.text = <<>>
    BY <1>1, MadeIs
  <2>2. messages' = Kept(Append(messages, m))
    BY <1>3 DEF Post
  <2> HIDE DEF m
  <2> QED  BY <1>2, <2>1, <2>2
<1>4. CASE Report
  <2> DEFINE m == [id |-> next + 1, by |-> "report", status |-> "complete", text |-> <<>>]
  <2>1. m \in Messages /\ m.id = next + 1 /\ m.text = <<>>
    BY <1>1, MadeIs
  <2>2. messages' = Kept(Append(messages, m))
    BY <1>4 DEF Report
  <2> HIDE DEF m
  <2> QED  BY <1>2, <2>1, <2>2
<1> QED  BY <1>3, <1>4

\* The project is closed when no call is under way.
LEMMA ClosedText ==
    ASSUME ClientInv, TextInv, Close
    PROVE  TextInv'
<1> DEFINE k == call[Manager]
<1>1. /\ web' = web /\ messages' = messages /\ stream' = 0 /\ given' = given /\ call' = call
      /\ k.pc = "idle" /\ web \in BOOLEAN /\ k \in Calls /\ messages \in Seq(Messages)
      /\ Texts(web, messages, stream, given, k) /\ Now(k) \notin given /\ (~web => messages = <<>>)
  BY TextBase DEF Close, Callers
<1>2. Texts(web, messages, 0, given, k)
  <2>1. SameCall(k, k) /\ \A m \in ToSet(messages) : \E o \in ToSet(messages) : m.text = o.text
    BY DEF SameCall
  <2> HIDE DEF k
  <2> QED  BY <1>1, <2>1, TextsOver
<1> QED  BY <1>1, <1>2 DEF TextInv, CallsText, GivenBefore, Attempt

LEMMA InitText == Init => TextInv
<1> SUFFICES ASSUME Init PROVE TextInv
  OBVIOUS
<1>1. messages = <<>> /\ given = {} /\ call = [w \in Callers |-> Idle] /\ web \in BOOLEAN
  BY DEF Init
<1>2. ToSet(<<>>) = {}
  BY DEF ToSet
<1>3. CallsText
  BY <1>1, <1>2 DEF CallsText, OfOneAttempt, Idle
<1>4. Manager \in Callers /\ call[Manager].pc = "idle"
  BY <1>1 DEF Callers, Idle
<1>5. Texts(web, messages, stream, given, call[Manager])
  BY <1>1, <1>2, <1>4 DEF Texts
<1> QED  BY <1>1, <1>3, <1>5 DEF TextInv, GivenBefore

LEMMA NextText == ClientInv /\ TextInv /\ ClientInv' /\ [Next]_vars => TextInv'
<1> SUFFICES ASSUME ClientInv, TextInv, ClientInv', [Next]_vars PROVE TextInv'
  OBVIOUS
<1>1. ASSUME UNCHANGED <<web, messages, stream, given, call>> PROVE TextInv'
  BY <1>1 DEF TextInv, CallsText, GivenBefore, Attempt
<1>2. CASE UNCHANGED vars
  BY <1>1, <1>2 DEF vars
<1>3. CASE Post \/ Report
  <2>1. PICK m \in Messages : /\ m.id = next + 1 /\ ToSet(m.text) = {}
                              /\ messages' = Kept(Append(messages, m))
    BY <1>3, PostedIs
  <2>2. web' = web /\ web = TRUE /\ stream' = stream /\ call' = call /\ given' = given
    BY <1>3 DEF Post, Report
  <2>3. ProjectHeld /\ next \in Nat /\ stream <= next
    BY HeldFacts DEF ClientInv, ProjectHeld
  <2>4. \A o \in ToSet(messages') : o \in ToSet(messages) \/ o = m
    BY <2>1, <2>3, AddedText
  <2>5. m.id # stream
    BY <2>1, <2>3, HeldFacts DEF ProjectHeld
  <2>6. Texts(web, messages, stream, given, call[Manager])'
    BY <2>1, <2>2, <2>4, <2>5, OthersText
  <2> QED  BY <2>2, <2>6 DEF TextInv, CallsText, GivenBefore, Attempt
<1>4. CASE Close
  BY <1>4, ClosedText
<1>5. CASE Open
  BY <1>1, <1>5 DEF Open
<1>6. ASSUME NEW c \in Clients, Connect(c) \/ Receive(c) \/ Disconnect(c) PROVE TextInv'
  BY <1>1, <1>6 DEF Connect, Receive, Disconnect
<1>7. ASSUME NEW w \in Callers, Calling(w) PROVE TextInv'
  BY <1>7, CallingText
<1> QED  BY <1>2, <1>3, <1>4, <1>5, <1>6, <1>7 DEF Next, Calling

\* The text a front end was given of a call is of one attempt, no message keeps
\* text that was taken back, and the streaming message ends with all that the
\* attempt under way has brought: resetStream finds all of a broken attempt's text
\* in the message of streamID, and other agents' retries never reach it.
THEOREM TextShownOnce == Spec => []ShownOnce
<1>1. Init => ClientInv /\ TextInv
  BY InitClient, InitText
<1>2. ClientInv /\ TextInv /\ [Next]_vars => (ClientInv /\ TextInv)'
  BY NextClient, NextText
<1>3. ClientInv /\ TextInv => ShownOnce
  <2> SUFFICES ASSUME ClientInv, TextInv PROVE ShownOnce
    OBVIOUS
  <2>1. \A w \in Callers : ToSet(call[w].got) \subseteq {Attempt(w)}
    BY DEF TextInv, CallsText, OfOneAttempt
  <2>2. ASSUME NEW i \in DOMAIN messages
        PROVE  messages[i] \in ToSet(messages) /\ ToSet(messages[i].text) \intersect given = {}
    <3>1. messages[i] \in ToSet(messages)
      BY DEF ToSet
    <3> QED  BY <3>1 DEF TextInv, Texts, Fits
  <2>3. ASSUME web, call[Manager].pc = "read", call[Manager].got # <<>>
        PROVE  /\ stream # 0
               /\ Has(messages, stream) \/ next - stream >= Keep
               /\ \A i \in DOMAIN messages :
                     messages[i].id = stream => IsSuffix(call[Manager].got, messages[i].text)
    <3>1. /\ stream # 0
          /\ \A m \in ToSet(messages) : m.id = stream => IsSuffix(call[Manager].got, m.text)
      BY <2>3 DEF TextInv, Texts
    <3>2. Placed(messages, stream, next) /\ next \in Nat /\ stream \in Nat /\ Keep \in Nat
      BY HeldFacts DEF ClientInv, ProjectHeld
    <3>3. stream + Keep <= next \/ Has(messages, stream)
      BY <3>1, <3>2 DEF Placed, Has
    <3>4. stream + Keep <= next => next - stream >= Keep
      BY <3>2
    <3> QED  BY <3>1, <3>3, <3>4, <2>2
  <2> QED  BY <2>1, <2>2, <2>3 DEF ShownOnce
<1> QED  BY <1>1, <1>2, <1>3, PTL DEF Spec
=============================================================================
