-------------------------- MODULE MexSession_proofs --------------------------
(***************************************************************************)
(* Proofs about clients that call mtk at the same time: for any number of  *)
(* clients, any systems in the storage at first and any requests.          *)
(*                                                                         *)
(* The first part is about the programs of MexPrograms, on every way       *)
(* through them: that a client has the lock for what it reads and writes,  *)
(* appends only matrices that it knows are not there, and ends with the    *)
(* answer it was asked for. A program is typed as in a proof outline, with *)
(* what is sure before each instruction; programs that are put together    *)
(* have the types put together. The second part is about the clients.      *)
(***************************************************************************)
EXTENDS MexSession, SequenceTheorems, FiniteSetTheorems, WellFoundedInduction, TLAPS

-----------------------------------------------------------------------------
(* Sequences, whatever they are made of.                                   *)
IsSeq(p) == p \in Seq({p[i] : i \in DOMAIN p})

LEMMA SeqFacts ==
  ASSUME NEW p, IsSeq(p)
  PROVE  /\ Len(p) \in Nat
         /\ DOMAIN p = 1 .. Len(p)
         /\ \A S : (\A i \in 1 .. Len(p) : p[i] \in S) => p \in Seq(S)
<1> DEFINE E == {p[i] : i \in DOMAIN p}
<1>1. p \in Seq(E)
  BY DEF IsSeq
<1>2. Len(p) \in Nat /\ DOMAIN p = 1 .. Len(p) /\ p \in [1 .. Len(p) -> E]
  BY <1>1, LenProperties
<1>3. ASSUME NEW S, \A i \in 1 .. Len(p) : p[i] \in S
      PROVE  p \in Seq(S)
  <2>1. E \subseteq S
    BY <1>2, <1>3
  <2> HIDE DEF E
  <2>2. QED BY <1>1, <2>1
<1>4. QED BY <1>2, <1>3

LEMMA SeqIntro ==
  ASSUME NEW S, NEW p \in Seq(S)
  PROVE  IsSeq(p)
<1>1. Len(p) \in Nat /\ DOMAIN p = 1 .. Len(p) /\ p \in [1 .. Len(p) -> S]
  BY LenProperties
<1> DEFINE E == {p[i] : i \in DOMAIN p}
<1>2. p \in [1 .. Len(p) -> E]
  BY <1>1
<1> HIDE DEF E
<1>3. p \in Seq(E)
  BY <1>1, <1>2
<1>4. QED BY <1>3 DEF IsSeq, E

LEMMA ConcatFacts ==
  ASSUME NEW p, NEW q, IsSeq(p), IsSeq(q)
  PROVE  /\ IsSeq(p \o q)
         /\ Len(p \o q) = Len(p) + Len(q)
         /\ \A i \in 1 .. Len(p) + Len(q) : (p \o q)[i] = IF i <= Len(p) THEN p[i] ELSE q[i - Len(p)]
<1> DEFINE S == {p[i] : i \in 1 .. Len(p)} \cup {q[i] : i \in 1 .. Len(q)}
<1>1. p \in Seq(S) /\ q \in Seq(S)
  BY SeqFacts
<1> HIDE DEF S
<1>2. QED BY <1>1, ConcatProperties, SeqIntro

LEMMA SubSeqFacts ==
  ASSUME NEW p, IsSeq(p), NEW m \in 1 .. Len(p) + 1
  PROVE  /\ IsSeq(SubSeq(p, m, Len(p)))
         /\ Len(SubSeq(p, m, Len(p))) = Len(p) + 1 - m
         /\ \A i \in 1 .. Len(p) + 1 - m : SubSeq(p, m, Len(p))[i] = p[m + i - 1]
<1> DEFINE S == {p[i] : i \in 1 .. Len(p)}
<1>1. Len(p) \in Nat
  BY SeqFacts
<1>2. \A i \in m .. Len(p) : p[i] \in S
  BY <1>1
<1> HIDE DEF S
<1>3. /\ SubSeq(p, m, Len(p)) \in Seq(S)
      /\ Len(SubSeq(p, m, Len(p))) = IF m <= Len(p) THEN Len(p) - m + 1 ELSE 0
      /\ \A i \in 1 .. Len(p) - m + 1 : SubSeq(p, m, Len(p))[i] = p[m + i - 1]
  BY <1>1, <1>2, SubSeqProperties
<1>4. IsSeq(SubSeq(p, m, Len(p)))
  BY <1>3, SeqIntro
<1>5. Len(p) - m + 1 = Len(p) + 1 - m /\ (m <= Len(p) \/ Len(p) + 1 - m = 0)
  BY <1>1
<1>6. QED BY <1>1, <1>3, <1>4, <1>5

LEMMA SmallSeqs == 
  /\ IsSeq(<<>>) /\ Len(<<>>) = 0
  /\ \A x : IsSeq(<<x>>) /\ Len(<<x>>) = 1 /\ <<x>>[1] = x
<1>1. <<>> \in Seq({})
  OBVIOUS
<1>2. ASSUME NEW x
      PROVE  <<x>> \in Seq({x}) /\ Len(<<x>>) = 1 /\ <<x>>[1] = x
  OBVIOUS
<1>3. QED BY <1>1, <1>2, SeqIntro

LEMMA AppendFacts ==
  ASSUME NEW p, NEW x, IsSeq(p)
  PROVE  /\ IsSeq(Append(p, x))
         /\ Len(Append(p, x)) = Len(p) + 1
         /\ \A i \in 1 .. Len(p) : Append(p, x)[i] = p[i]
         /\ Append(p, x)[Len(p) + 1] = x
<1> DEFINE S == {p[i] : i \in 1 .. Len(p)} \cup {x}
<1>1. p \in Seq(S) /\ x \in S
  BY SeqFacts
<1> HIDE DEF S
<1>2. Len(p) \in Nat
  BY SeqFacts
<1>3. Append(p, x) \in Seq(S)
  BY <1>1
<1>4. IsSeq(Append(p, x))
  BY <1>3, SeqIntro
<1>5. Len(Append(p, x)) = Len(p) + 1
  BY <1>1
<1>6. QED BY <1>1, <1>2, <1>4, <1>5

-----------------------------------------------------------------------------
(* What a client is sure of at a place in its program, on every way there: *)
(* the systems it may read and those it may write by the locks it holds,   *)
(* the matrices that are not made in those it may write, and whether its   *)
(* answer names the matrix that it was asked for.                          *)
Weaker(a, b) ==
  /\ a.read \subseteq b.read /\ a.write \subseteq b.write /\ a.absent \subseteq b.absent
  /\ a.right => b.right

LEMMA WeakerOrder ==
  /\ \A a : Weaker(a, a)
  /\ \A a, b, c : Weaker(a, b) /\ Weaker(b, c) => Weaker(a, c)
  BY DEF Weaker

Answering == {"create", "append", "find", "made", "peek made"}
Pushing   == {"push", "import", "push polynomial"}

(* The request of the call is for `cx.key' of the system `cx.on'. If there *)
(* is no matrix to name, every answer will do.                             *)
Unnamed(cx) == cx.key \in {NoKey, <<"tensor">>}

Names(i, cx) ==
  \/ Unnamed(cx)
  \/ i.on = cx.on /\ (i.do \in Pushing \/ (i.do \in Answering /\ i.key = cx.key))

Away(absent, o) == {a \in absent : a[1] # o}

(* What is sure after an instruction: after a test that succeeds, and      *)
(* after one that fails.                                                   *)
Succeeds(i, cx, h) ==
  [read   |-> IF i.do \in {"read lock", "write lock"} THEN h.read \cup {i.on}
              ELSE IF i.do = "unlock" THEN h.read \ {i.on} ELSE h.read,
   write  |-> IF i.do = "write lock" THEN h.write \cup {i.on}
              ELSE IF i.do = "unlock" THEN h.write \ {i.on} ELSE h.write,
   absent |-> IF i.do = "unlock" \/ "matrices" \in Writes(i)
              THEN Away(h.absent, i.on) ELSE h.absent,
   right  |-> IF i.do \in Answering \cup Pushing \cup {"need matrix", "need tensor"}
              THEN Names(i, cx) ELSE h.right]

Fails(i, cx, h) ==
  IF i.do \in {"find", "made"}
  THEN [h EXCEPT !.absent = @ \cup (IF i.on \in h.write THEN {<<i.on, i.key>>} ELSE {})]
  ELSE Succeeds(i, cx, h)

(* What an instruction needs to be sure of.                                *)
InstructionFields == {"do", "on", "key", "n", "skip"}

Permitted(i, cx, h) ==
  /\ i = [f \in InstructionFields |-> i[f]]
  /\ i.on \in cx.systems
  /\ Writes(i) # {} => i.on \in h.write
  /\ Reads(i) # {} => i.on \in h.read
  /\ i.do \in {"create", "append", "push polynomial"} => i.key # Raw
  /\ i.do = "append" => <<i.on, i.key>> \in h.absent
  /\ i.do = "create symbols" => i.n \in cx.largest
  /\ i.do \in {"make", "fill"} => i.key[1] \in {"cg", "fc", "pt"}

Typing(p, cx, H) ==
  /\ IsSeq(p)
  /\ \A i \in 1 .. Len(p) :
       /\ Permitted(p[i], cx, H[i])
       /\ p[i].skip \in 0 .. Len(p) - i
       /\ Weaker(H[i + 1], Fails(p[i], cx, H[i]))
       /\ Weaker(H[i + 1 + p[i].skip], Succeeds(p[i], cx, H[i]))

(* A program that may begin when `a' is sure, and ends with `b' sure.      *)
Typed(p, cx, a, b) ==
  \E H : Typing(p, cx, H) /\ Weaker(H[1], a) /\ Weaker(b, H[Len(p) + 1])

-----------------------------------------------------------------------------
LEMMA TypedNothing == \A cx, a : Typed(<<>>, cx, a, a)
<1> SUFFICES ASSUME NEW cx, NEW a PROVE Typed(<<>>, cx, a, a)
  OBVIOUS
<1> DEFINE H == [i \in {1} |-> a]
<1>1. H[1] = a /\ Len(<<>>) = 0
  OBVIOUS
<1>2. Typing(<<>>, cx, H)
  BY SmallSeqs DEF Typing
<1> HIDE DEF H
<1>3. Weaker(H[1], a) /\ Weaker(a, H[Len(<<>>) + 1])
  BY <1>1, WeakerOrder
<1>4. QED BY <1>2, <1>3 DEF Typed

LEMMA TypedOne ==
  ASSUME NEW i, NEW cx, NEW a, NEW b, Permitted(i, cx, a), i.skip = 0,
         Weaker(b, Succeeds(i, cx, a)), Weaker(b, Fails(i, cx, a))
  PROVE  Typed(<<i>>, cx, a, b)
<1> DEFINE H == [j \in 1 .. 2 |-> IF j = 1 THEN a ELSE b]
<1>1. H[1] = a /\ H[2] = b
  OBVIOUS
<1> HIDE DEF H
<1>2. IsSeq(<<i>>) /\ Len(<<i>>) = 1 /\ <<i>>[1] = i
  BY SmallSeqs
<1>3. Typing(<<i>>, cx, H)
  BY <1>1, <1>2 DEF Typing
<1>4. QED BY <1>1, <1>2, <1>3, WeakerOrder DEF Typed

LEMMA TypedWeaker ==
  ASSUME NEW p, NEW cx, NEW a, NEW b, NEW c, NEW d,
         Typed(p, cx, b, c), Weaker(b, a), Weaker(d, c)
  PROVE  Typed(p, cx, a, d)
  BY WeakerOrder DEF Typed

LEMMA TypedConcat ==
  ASSUME NEW p, NEW q, NEW cx, NEW a, NEW b, NEW c, Typed(p, cx, a, b), Typed(q, cx, b, c)
  PROVE  Typed(p \o q, cx, a, c)
<1>1. PICK F : Typing(p, cx, F) /\ Weaker(F[1], a) /\ Weaker(b, F[Len(p) + 1])
  BY DEF Typed
<1>2. PICK G : Typing(q, cx, G) /\ Weaker(G[1], b) /\ Weaker(c, G[Len(q) + 1])
  BY DEF Typed
<1> DEFINE H == [i \in 1 .. Len(p) + Len(q) + 1 |-> IF i <= Len(p) THEN F[i] ELSE G[i - Len(p)]]
           s == p \o q
<1>3. /\ Len(p) \in Nat /\ Len(q) \in Nat
      /\ IsSeq(s) /\ Len(s) = Len(p) + Len(q)
      /\ \A i \in 1 .. Len(p) + Len(q) : s[i] = IF i <= Len(p) THEN p[i] ELSE q[i - Len(p)]
  BY <1>1, <1>2, ConcatFacts, SeqFacts DEF Typing
<1>4. \A i \in 1 .. Len(p) : H[i] = F[i]
  BY <1>3
<1>5. \A i \in Len(p) + 1 .. Len(p) + Len(q) + 1 : H[i] = G[i - Len(p)]
  BY <1>3
<1> HIDE DEF s, H
<1>6. Weaker(H[Len(p) + 1], F[Len(p) + 1])
  <2>1. H[Len(p) + 1] = G[1]
    BY <1>3, <1>5
  <2>2. QED BY <2>1, <1>1, <1>2, WeakerOrder
<1>7. \A i \in 1 .. Len(p) + 1 : Weaker(H[i], F[i])
  BY <1>3, <1>4, <1>6, WeakerOrder
<1>8. ASSUME NEW i \in 1 .. Len(s)
      PROVE  /\ Permitted(s[i], cx, H[i])
             /\ s[i].skip \in 0 .. Len(s) - i
             /\ Weaker(H[i + 1], Fails(s[i], cx, H[i]))
             /\ Weaker(H[i + 1 + s[i].skip], Succeeds(s[i], cx, H[i]))
  <2>1. CASE i \in 1 .. Len(p)
    <3>1. s[i] = p[i] /\ H[i] = F[i] /\ i + 1 \in 1 .. Len(p) + 1
      BY <2>1, <1>3, <1>4
    <3>2. /\ Permitted(p[i], cx, F[i])
          /\ p[i].skip \in 0 .. Len(p) - i
          /\ Weaker(F[i + 1], Fails(p[i], cx, F[i]))
          /\ Weaker(F[i + 1 + p[i].skip], Succeeds(p[i], cx, F[i]))
      BY <2>1, <1>1 DEF Typing
    <3>3. i + 1 + p[i].skip \in 1 .. Len(p) + 1 /\ p[i].skip \in 0 .. Len(s) - i
      BY <2>1, <1>3, <3>2
    <3>4. QED BY <3>1, <3>2, <3>3, <1>7, WeakerOrder
  <2>2. CASE i \in Len(p) + 1 .. Len(p) + Len(q)
    <3>0. PICK k \in 1 .. Len(q) : k = i - Len(p)
      BY <2>2, <1>3
    <3>1. k \in 1 .. Len(q) /\ s[i] = q[k] /\ H[i] = G[k] /\ H[i + 1] = G[k + 1]
      <4>1. k \in 1 .. Len(q) /\ s[i] = q[k] /\ H[i] = G[k]
        BY <3>0, <2>2, <1>3, <1>5
      <4>2. i + 1 \in Len(p) + 1 .. Len(p) + Len(q) + 1 /\ (i + 1) - Len(p) = k + 1
        BY <3>0, <2>2, <1>3
      <4>3. QED BY <4>1, <4>2, <1>5
    <3>2. /\ Permitted(q[k], cx, G[k])
          /\ q[k].skip \in 0 .. Len(q) - k
          /\ Weaker(G[k + 1], Fails(q[k], cx, G[k]))
          /\ Weaker(G[k + 1 + q[k].skip], Succeeds(q[k], cx, G[k]))
      BY <3>1, <1>2 DEF Typing
    <3>3. H[i + 1 + q[k].skip] = G[k + 1 + q[k].skip] /\ q[k].skip \in 0 .. Len(s) - i
      <4>1. PICK n \in 0 .. Len(q) - k : n = q[k].skip
        BY <3>2
      <4>2. i = Len(p) + k /\ Len(p) \in Nat /\ Len(q) \in Nat /\ Len(s) = Len(p) + Len(q)
        BY <3>0, <2>2, <1>3
      <4>3. /\ i + 1 + n \in Len(p) + 1 .. Len(p) + Len(q) + 1
            /\ (i + 1 + n) - Len(p) = k + 1 + n
            /\ n \in 0 .. Len(s) - i
        BY <4>2
      <4>4. H[i + 1 + n] = G[(i + 1 + n) - Len(p)]
        BY <4>3, <1>5
      <4>5. QED BY <4>1, <4>3, <4>4
    <3>4. QED BY <3>1, <3>2, <3>3
  <2>3. QED BY <2>1, <2>2, <1>3
<1>9. Typing(s, cx, H)
  BY <1>3, <1>8 DEF Typing
<1>10. Weaker(H[1], a)
  <2>1. 1 \in 1 .. Len(p) + 1
    BY <1>3
  <2>2. QED BY <2>1, <1>1, <1>7, WeakerOrder
<1>11. Weaker(c, H[Len(s) + 1])
  <2>1. Len(s) + 1 \in Len(p) + 1 .. Len(p) + Len(q) + 1 /\ (Len(s) + 1) - Len(p) = Len(q) + 1
    BY <1>3
  <2>2. H[Len(s) + 1] = G[Len(q) + 1]
    BY <2>1, <1>5
  <2>3. QED BY <2>2, <1>2
<1>12. QED BY <1>9, <1>10, <1>11 DEF Typed, s

-----------------------------------------------------------------------------
LEMMA Skipping ==
  ASSUME NEW i, NEW n, NEW cx, NEW a, Permitted(i, cx, a)
  PROVE  /\ [i EXCEPT !.skip = n].skip = n
         /\ Permitted([i EXCEPT !.skip = n], cx, a)
         /\ Succeeds([i EXCEPT !.skip = n], cx, a) = Succeeds(i, cx, a)
         /\ Fails([i EXCEPT !.skip = n], cx, a) = Fails(i, cx, a)
<1> DEFINE u == [i EXCEPT !.skip = n]
<1>1. i = [f \in InstructionFields |-> i[f]]
  BY DEF Permitted
<1>2. /\ u = [f \in InstructionFields |-> u[f]] /\ u.skip = n
      /\ u.do = i.do /\ u.on = i.on /\ u.key = i.key /\ u.n = i.n
  BY <1>1 DEF InstructionFields
<1> HIDE DEF u
<1>3. Writes(u) = Writes(i) /\ Reads(u) = Reads(i) /\ Names(u, cx) = Names(i, cx)
  BY <1>2 DEF Writes, Reads, Names
<1>4. Succeeds(u, cx, a) = Succeeds(i, cx, a)
  BY <1>2, <1>3 DEF Succeeds
<1>5. Fails(u, cx, a) = Fails(i, cx, a)
  BY <1>2, <1>4 DEF Fails
<1>6. Permitted(u, cx, a)
  BY <1>2, <1>3 DEF Permitted
<1>7. QED BY <1>2, <1>4, <1>5, <1>6 DEF u

(* At its end, a program is sure of no more than it needs to be.           *)
LEMMA ExactEnd ==
  ASSUME NEW p, NEW cx, NEW a, NEW b, Typed(p, cx, a, b)
  PROVE  \E H : Typing(p, cx, H) /\ Weaker(H[1], a) /\ H[Len(p) + 1] = b
<1>1. PICK F : Typing(p, cx, F) /\ Weaker(F[1], a) /\ Weaker(b, F[Len(p) + 1])
  BY DEF Typed
<1> DEFINE H == [i \in 1 .. Len(p) + 1 |-> IF i <= Len(p) THEN F[i] ELSE b]
<1>2. Len(p) \in Nat
  BY <1>1, SeqFacts DEF Typing
<1>3. /\ \A i \in 1 .. Len(p) : H[i] = F[i]
      /\ H[Len(p) + 1] = b
  BY <1>2
<1> HIDE DEF H
<1>4. \A i \in 1 .. Len(p) + 1 : Weaker(H[i], F[i])
  <2>1. \A i \in 1 .. Len(p) : Weaker(H[i], F[i])
    BY <1>3, WeakerOrder
  <2>2. Weaker(H[Len(p) + 1], F[Len(p) + 1])
    BY <1>1, <1>3
  <2>3. QED BY <1>2, <2>1, <2>2
<1>5. ASSUME NEW i \in 1 .. Len(p)
      PROVE  /\ Permitted(p[i], cx, H[i])
             /\ p[i].skip \in 0 .. Len(p) - i
             /\ Weaker(H[i + 1], Fails(p[i], cx, H[i]))
             /\ Weaker(H[i + 1 + p[i].skip], Succeeds(p[i], cx, H[i]))
  <2>1. /\ Permitted(p[i], cx, F[i])
        /\ p[i].skip \in 0 .. Len(p) - i
        /\ Weaker(F[i + 1], Fails(p[i], cx, F[i]))
        /\ Weaker(F[i + 1 + p[i].skip], Succeeds(p[i], cx, F[i]))
    BY <1>1 DEF Typing
  <2>2. H[i] = F[i] /\ i + 1 \in 1 .. Len(p) + 1 /\ i + 1 + p[i].skip \in 1 .. Len(p) + 1
    BY <1>2, <1>3, <2>1
  <2>3. QED BY <2>1, <2>2, <1>4, WeakerOrder
<1>6. Typing(p, cx, H)
  BY <1>1, <1>5 DEF Typing
<1>7. Weaker(H[1], a)
  <2>1. 1 \in 1 .. Len(p) + 1
    BY <1>2
  <2>2. QED BY <2>1, <1>1, <1>4, WeakerOrder
<1>8. QED BY <1>3, <1>6, <1>7

(* A test, what is done if it fails, and what is done if it succeeds.      *)
LEMMA TypedIfElse ==
  ASSUME NEW t, NEW body, NEW other, NEW cx, NEW a, NEW f, NEW s, NEW d, NEW c,
         Permitted(t, cx, a), Weaker(f, Fails(t, cx, a)), Weaker(s, Succeeds(t, cx, a)),
         other # <<>>, Typed(other, cx, f, d), Typed(body, cx, s, c),
         Weaker(s, d), Weaker(c, d)
  PROVE  Typed(IfElse(t, body, other), cx, a, c)
<1>1. PICK F : Typing(other, cx, F) /\ Weaker(F[1], f) /\ F[Len(other) + 1] = d
  BY ExactEnd
<1>2. PICK G : Typing(body, cx, G) /\ Weaker(G[1], s) /\ G[Len(body) + 1] = c
  BY ExactEnd
<1> DEFINE n == Len(other)
           m == Len(body)
           o == [other EXCEPT ![Len(other)].skip = Len(body)]
           u == [t EXCEPT !.skip = Len(o)]
           p == IfElse(t, body, other)
           H == [i \in 1 .. n + m + 2 |-> IF i = 1 THEN a ELSE IF i <= n + 1 THEN F[i - 1] ELSE G[i - n - 1]]
<1>3. n \in Nat \ {0} /\ m \in Nat /\ DOMAIN other = 1 .. n /\ IsSeq(other) /\ IsSeq(body)
  <2>1. IsSeq(other) /\ IsSeq(body)
    BY <1>1, <1>2 DEF Typing
  <2>2. other \in Seq({other[i] : i \in DOMAIN other})
    BY <2>1 DEF IsSeq
  <2>3. Len(other) # 0
    BY <2>2
  <2>4. QED BY <2>1, <2>3, SeqFacts
<1>4. /\ IsSeq(o) /\ Len(o) = n
      /\ \A i \in 1 .. n - 1 : o[i] = other[i]
      /\ o[n] = [other[n] EXCEPT !.skip = m]
  <2> DEFINE e == [other[n] EXCEPT !.skip = m]
             E == {other[i] : i \in 1 .. n} \cup {e}
  <2>1. o = [other EXCEPT ![n] = e]
    OBVIOUS
  <2> HIDE DEF e
  <2>2. other \in Seq(E) /\ e \in E /\ n \in 1 .. Len(other)
    BY <1>3, SeqFacts
  <2> HIDE DEF E, o
  <2>3. /\ o \in Seq(E) /\ Len(o) = n
        /\ \A i \in 1 .. n : o[i] = IF i = n THEN e ELSE other[i]
    BY <2>1, <2>2, ExceptSeq
  <2>4. QED BY <1>3, <2>3, SeqIntro DEF e
<1> HIDE DEF o
<1>5. /\ IsSeq(p) /\ Len(p) = n + m + 1
      /\ p[1] = u
      /\ \A i \in 2 .. n + 1 : p[i] = o[i - 1]
      /\ \A i \in n + 2 .. n + m + 1 : p[i] = body[i - n - 1]
  <2> DEFINE q == <<u>> \o o
  <2>1. p = q \o body
    BY DEF IfElse, IfNot, o
  <2>2. IsSeq(<<u>>) /\ Len(<<u>>) = 1 /\ <<u>>[1] = u
    BY SmallSeqs
  <2> HIDE DEF u
  <2>3. /\ IsSeq(q) /\ Len(q) = n + 1
        /\ \A i \in 1 .. n + 1 : q[i] = IF i <= 1 THEN u ELSE o[i - 1]
    <3>1. /\ IsSeq(q) /\ Len(q) = 1 + n
          /\ \A i \in 1 .. 1 + n : q[i] = IF i <= 1 THEN <<u>>[i] ELSE o[i - 1]
      BY <2>2, <1>4, ConcatFacts
    <3>2. QED BY <3>1, <2>2, <1>3
  <2> HIDE DEF q, p
  <2>4. /\ IsSeq(p) /\ Len(p) = (n + 1) + m
        /\ \A i \in 1 .. (n + 1) + m : p[i] = IF i <= n + 1 THEN q[i] ELSE body[i - (n + 1)]
    <3>1. /\ IsSeq(q \o body) /\ Len(q \o body) = Len(q) + m
          /\ \A i \in 1 .. Len(q) + m : (q \o body)[i] = IF i <= Len(q) THEN q[i] ELSE body[i - Len(q)]
      BY <2>3, <1>3, ConcatFacts
    <3>2. QED BY <3>1, <2>1, <2>3
  <2>5. QED BY <2>3, <2>4, <1>3
<1>6. /\ H[1] = a
      /\ \A i \in 1 .. n : H[i + 1] = F[i]
      /\ \A i \in 1 .. m + 1 : H[i + n + 1] = G[i]
  BY <1>3
<1> HIDE DEF H, p, u
<1>7. Weaker(H[n + 2], s)
  <2>1. 1 \in 1 .. m + 1 /\ 1 + n + 1 = n + 2
    BY <1>3
  <2>2. QED BY <2>1, <1>2, <1>6
<1>8. H[n + m + 2] = c
  <2>1. m + 1 \in 1 .. m + 1 /\ (m + 1) + n + 1 = n + m + 2
    BY <1>3
  <2>2. QED BY <2>1, <1>2, <1>6
<1>9. \A i \in 1 .. n + 1 : Weaker(H[i + 1], F[i])
  <2>1. Weaker(H[(n + 1) + 1], F[n + 1])
    BY <1>1, <1>3, <1>7, WeakerOrder
  <2>2. QED BY <2>1, <1>3, <1>6, WeakerOrder
<1>10. /\ Permitted(p[1], cx, H[1])
       /\ p[1].skip \in 0 .. Len(p) - 1
       /\ Weaker(H[2], Fails(p[1], cx, H[1]))
       /\ Weaker(H[2 + p[1].skip], Succeeds(p[1], cx, H[1]))
  <2>1. /\ u.skip = n /\ Permitted(u, cx, a)
        /\ Succeeds(u, cx, a) = Succeeds(t, cx, a) /\ Fails(u, cx, a) = Fails(t, cx, a)
    <3>1. u = [t EXCEPT !.skip = n]
      BY <1>4 DEF u
    <3> HIDE DEF n
    <3>2. QED BY <3>1, Skipping
  <2>2. Weaker(H[2], f)
    BY <1>1, <1>3, <1>9, WeakerOrder
  <2>3. n \in 0 .. Len(p) - 1 /\ 2 + n = n + 2
    BY <1>3, <1>5
  <2>4. QED BY <2>1, <2>2, <2>3, <1>5, <1>6, <1>7, WeakerOrder
<1>11. ASSUME NEW i \in 1 .. n
       PROVE  /\ Permitted(p[i + 1], cx, H[i + 1])
              /\ p[i + 1].skip \in 0 .. Len(p) - (i + 1)
              /\ Weaker(H[i + 1 + 1], Fails(p[i + 1], cx, H[i + 1]))
              /\ Weaker(H[i + 1 + 1 + p[i + 1].skip], Succeeds(p[i + 1], cx, H[i + 1]))
  <2>1. /\ Permitted(other[i], cx, F[i])
        /\ other[i].skip \in 0 .. n - i
        /\ Weaker(F[i + 1], Fails(other[i], cx, F[i]))
        /\ Weaker(F[i + 1 + other[i].skip], Succeeds(other[i], cx, F[i]))
    BY <1>1 DEF Typing
  <2>2. p[i + 1] = o[i] /\ H[i + 1] = F[i]
    BY <1>3, <1>5, <1>6
  <2>3. i + 1 \in 1 .. n + 1 /\ i + 1 + other[i].skip \in 1 .. n + 1
    BY <2>1, <1>3
  <2>4. CASE i # n
    <3>1. o[i] = other[i]
      BY <2>4, <1>3, <1>4
    <3>2. other[i].skip \in 0 .. Len(p) - (i + 1)
      BY <2>1, <1>3, <1>5
    <3>3. H[i + 1 + 1 + other[i].skip] = H[(i + 1 + other[i].skip) + 1]
      BY <2>1, <1>3
    <3>4. QED BY <2>1, <2>2, <2>3, <3>1, <3>2, <3>3, <1>9, WeakerOrder
  <2>5. CASE i = n
    <3>1. /\ o[n].skip = m /\ Permitted(o[n], cx, F[n])
          /\ Succeeds(o[n], cx, F[n]) = Succeeds(other[n], cx, F[n])
          /\ Fails(o[n], cx, F[n]) = Fails(other[n], cx, F[n])
      BY <2>1, <2>5, <1>4, Skipping
    <3>2. other[n].skip = 0 /\ n + 1 + other[n].skip = n + 1
      BY <2>1, <2>5, <1>3
    <3>3. Weaker(d, Succeeds(other[n], cx, F[n]))
      BY <2>1, <2>5, <3>2, <1>1
    <3>4. Weaker(H[n + 1 + 1], Fails(other[n], cx, F[n]))
      BY <2>1, <2>3, <2>5, <1>9, WeakerOrder
    <3>5. Weaker(H[n + 1 + 1 + m], Succeeds(other[n], cx, F[n]))
      <4>1. n + 1 + 1 + m = n + m + 2
        BY <1>3
      <4>2. QED BY <4>1, <3>3, <1>8, WeakerOrder
    <3>6. m \in 0 .. Len(p) - (n + 1)
      BY <1>3, <1>5
    <3>7. QED BY <2>2, <2>5, <3>1, <3>4, <3>5, <3>6
  <2>6. QED BY <2>4, <2>5
<1>12. ASSUME NEW i \in 1 .. m
       PROVE  /\ Permitted(p[i + n + 1], cx, H[i + n + 1])
              /\ p[i + n + 1].skip \in 0 .. Len(p) - (i + n + 1)
              /\ Weaker(H[i + n + 1 + 1], Fails(p[i + n + 1], cx, H[i + n + 1]))
              /\ Weaker(H[i + n + 1 + 1 + p[i + n + 1].skip], Succeeds(p[i + n + 1], cx, H[i + n + 1]))
  <2>1. /\ Permitted(body[i], cx, G[i])
        /\ body[i].skip \in 0 .. m - i
        /\ Weaker(G[i + 1], Fails(body[i], cx, G[i]))
        /\ Weaker(G[i + 1 + body[i].skip], Succeeds(body[i], cx, G[i]))
    BY <1>2 DEF Typing
  <2>2. p[i + n + 1] = body[i]
    <3>1. i + n + 1 \in n + 2 .. n + m + 1 /\ (i + n + 1) - n - 1 = i
      BY <1>3
    <3>2. QED BY <3>1, <1>5
  <2>3. H[i + n + 1] = G[i]
    BY <1>3, <1>6
  <2>4. H[i + n + 1 + 1] = G[i + 1]
    <3>1. i + 1 \in 1 .. m + 1 /\ (i + 1) + n + 1 = i + n + 1 + 1
      BY <1>3
    <3>2. QED BY <3>1, <1>6
  <2>5. H[i + n + 1 + 1 + body[i].skip] = G[i + 1 + body[i].skip]
    <3>1. PICK k \in 0 .. m - i : k = body[i].skip
      BY <2>1
    <3>2. i + 1 + k \in 1 .. m + 1 /\ (i + 1 + k) + n + 1 = i + n + 1 + 1 + k
      BY <1>3, <3>1
    <3>3. QED BY <3>1, <3>2, <1>6
  <2>6. body[i].skip \in 0 .. Len(p) - (i + n + 1)
    BY <2>1, <1>3, <1>5
  <2>7. QED BY <2>1, <2>2, <2>3, <2>4, <2>5, <2>6
<1>13. ASSUME NEW j \in 1 .. Len(p)
       PROVE  j = 1 \/ (\E i \in 1 .. n : j = i + 1) \/ (\E i \in 1 .. m : j = i + n + 1)
  <2>1. CASE j \in 2 .. n + 1
    <3>1. j - 1 \in 1 .. n /\ j = (j - 1) + 1
      BY <2>1, <1>3
    <3>2. QED BY <3>1
  <2>2. CASE j \in n + 2 .. n + m + 1
    <3>1. j - n - 1 \in 1 .. m /\ j = (j - n - 1) + n + 1
      BY <2>2, <1>3
    <3>2. QED BY <3>1
  <2>3. QED BY <2>1, <2>2, <1>3, <1>5
<1>14. ASSUME NEW j \in 1 .. Len(p)
       PROVE  /\ Permitted(p[j], cx, H[j])
              /\ p[j].skip \in 0 .. Len(p) - j
              /\ Weaker(H[j + 1], Fails(p[j], cx, H[j]))
              /\ Weaker(H[j + 1 + p[j].skip], Succeeds(p[j], cx, H[j]))
  <2>1. CASE j = 1
    BY <2>1, <1>10
  <2>2. CASE \E i \in 1 .. n : j = i + 1
    BY <2>2, <1>11
  <2>3. CASE \E i \in 1 .. m : j = i + n + 1
    BY <2>3, <1>12
  <2>4. QED BY <2>1, <2>2, <2>3, <1>13
<1>15. Typing(p, cx, H)
  BY <1>5, <1>14 DEF Typing
<1>16. Weaker(H[1], a) /\ Weaker(c, H[Len(p) + 1])
  <2>1. Len(p) + 1 = n + m + 2
    BY <1>3, <1>5
  <2>2. QED BY <2>1, <1>6, <1>8, WeakerOrder
<1>17. QED BY <1>15, <1>16 DEF Typed, p
(* A test, and what is done if it fails.                                   *)
LEMMA TypedIfNot ==
  ASSUME NEW t, NEW other, NEW cx, NEW a, NEW f, NEW d,
         Permitted(t, cx, a), Weaker(f, Fails(t, cx, a)), Weaker(d, Succeeds(t, cx, a)),
         Typed(other, cx, f, d)
  PROVE  Typed(IfNot(t, other), cx, a, d)
<1>0. CASE other = <<>>
  <2> DEFINE u == [t EXCEPT !.skip = 0]
  <2>1. IfNot(t, other) = <<u>> \o <<>> /\ <<u>> \o <<>> = <<u>>
    BY <1>0, SmallSeqs DEF IfNot
  <2>2. Weaker(d, f)
    BY <1>0, SmallSeqs, WeakerOrder DEF Typed
  <2>3. /\ u.skip = 0 /\ Permitted(u, cx, a)
        /\ Succeeds(u, cx, a) = Succeeds(t, cx, a) /\ Fails(u, cx, a) = Fails(t, cx, a)
    BY Skipping
  <2> HIDE DEF u
  <2>4. Typed(<<u>>, cx, a, d)
    BY <2>2, <2>3, TypedOne, WeakerOrder
  <2>5. QED BY <2>1, <2>4
<1> SUFFICES ASSUME other # <<>> PROVE Typed(IfNot(t, other), cx, a, d)
  BY <1>0
<1> DEFINE n == Len(other)
<1>1. PICK F : Typing(other, cx, F)
  BY DEF Typed
<1>2. n \in Nat \ {0} /\ DOMAIN other = 1 .. n /\ other \in Seq({other[i] : i \in DOMAIN other})
  <2>1. IsSeq(other)
    BY <1>1 DEF Typing
  <2>2. other \in Seq({other[i] : i \in DOMAIN other})
    BY <2>1 DEF IsSeq
  <2>3. Len(other) # 0
    BY <2>2
  <2>4. QED BY <2>1, <2>2, <2>3, SeqFacts
<1>3. other[n].skip = 0 /\ other[n] = [f1 \in InstructionFields |-> other[n][f1]]
  <2>1. n \in 1 .. n
    BY <1>2
  <2>2. Permitted(other[n], cx, F[n]) /\ other[n].skip \in 0 .. n - n
    BY <1>1, <2>1 DEF Typing
  <2>3. other[n].skip = 0
    BY <1>2, <2>2
  <2>4. other[n] = [f1 \in InstructionFields |-> other[n][f1]]
    BY <2>2 DEF Permitted
  <2>5. QED BY <2>3, <2>4
<1>4. [other EXCEPT ![Len(other)].skip = 0] = other
  <2>1. [other[n] EXCEPT !.skip = 0] = other[n]
    BY <1>3 DEF InstructionFields
  <2>2. other = [i \in 1 .. n |-> other[i]]
    BY <1>2
  <2>3. [other EXCEPT ![n] = other[n]] = other
    BY <2>2
  <2>4. QED BY <2>1, <2>3
<1>5. IfElse(t, <<>>, other) = IfNot(t, other) \o <<>>
  BY <1>4 DEF IfElse
<1>6. IfNot(t, other) \o <<>> = IfNot(t, other)
  <2>1. IsSeq(<<[t EXCEPT !.skip = n]>> \o other)
    BY <1>1, SmallSeqs, ConcatFacts DEF Typing
  <2>2. QED BY <2>1, ConcatEmptySeq DEF IsSeq, IfNot
<1>7. Typed(IfElse(t, <<>>, other), cx, a, d)
  BY TypedIfElse, TypedNothing, WeakerOrder
<1>8. QED BY <1>5, <1>6, <1>7

-----------------------------------------------------------------------------
(* Instructions.                                                           *)
Sure(r, w, a, g) == [read |-> r, write |-> w, absent |-> a, right |-> g]
Free(g)       == Sure({}, {}, {}, g)
ToRead(s, g)  == Sure({s}, {}, {}, g)
ToWrite(s, g) == Sure({s}, {s}, {}, g)

IsInstruction(i, do, s, key, n) ==
  /\ i = [f \in InstructionFields |-> i[f]]
  /\ i.do = do /\ i.on = s /\ i.key = key /\ i.n = n /\ i.skip = 0

LEMMA Instructions ==
  ASSUME NEW do, NEW s, NEW key, NEW n
  PROVE  IsInstruction(Instruction(do, s, key, n), do, s, key, n)
  BY DEF Instruction, InstructionFields, IsInstruction

LEMMA Locking ==
  ASSUME NEW cx, NEW s \in cx.systems, NEW R, NEW W, NEW A, NEW g
  PROVE  /\ Typed(<<ReadLock(s)>>, cx, Sure(R, W, A, g), Sure(R \cup {s}, W, A, g))
         /\ Typed(<<WriteLock(s)>>, cx, Sure(R, W, A, g), Sure(R \cup {s}, W \cup {s}, A, g))
         /\ Typed(<<Unlock(s)>>, cx, Sure(R, W, A, g), Sure(R \ {s}, W \ {s}, Away(A, s), g))
<1> DEFINE x == Sure(R, W, A, g)
<1> USE DEF Sure
<1>1. Typed(<<ReadLock(s)>>, cx, x, Sure(R \cup {s}, W, A, g))
  <2> DEFINE i == ReadLock(s)
  <2>1. IsInstruction(i, "read lock", s, NoKey, 0)
    BY Instructions DEF ReadLock
  <2> HIDE DEF i
  <2>2. Permitted(i, cx, x)
    BY <2>1 DEF Permitted, Reads, Writes, IsInstruction
  <2>3. Fails(i, cx, x) = Succeeds(i, cx, x) /\ Weaker(Sure(R \cup {s}, W, A, g), Succeeds(i, cx, x))
    BY <2>1 DEF Fails, Succeeds, Writes, Answering, Pushing, Weaker, IsInstruction
  <2> HIDE DEF x, Sure
  <2>4. QED BY <2>1, <2>2, <2>3, TypedOne DEF i, IsInstruction
<1>2. Typed(<<WriteLock(s)>>, cx, x, Sure(R \cup {s}, W \cup {s}, A, g))
  <2> DEFINE i == WriteLock(s)
  <2>1. IsInstruction(i, "write lock", s, NoKey, 0)
    BY Instructions DEF WriteLock
  <2> HIDE DEF i
  <2>2. Permitted(i, cx, x)
    BY <2>1 DEF Permitted, Reads, Writes, IsInstruction
  <2>3. Fails(i, cx, x) = Succeeds(i, cx, x) /\ Weaker(Sure(R \cup {s}, W \cup {s}, A, g), Succeeds(i, cx, x))
    BY <2>1 DEF Fails, Succeeds, Writes, Answering, Pushing, Weaker, IsInstruction
  <2> HIDE DEF x, Sure
  <2>4. QED BY <2>1, <2>2, <2>3, TypedOne DEF i, IsInstruction
<1>3. Typed(<<Unlock(s)>>, cx, x, Sure(R \ {s}, W \ {s}, Away(A, s), g))
  <2> DEFINE i == Unlock(s)
  <2>1. IsInstruction(i, "unlock", s, NoKey, 0)
    BY Instructions DEF Unlock
  <2> HIDE DEF i
  <2>2. Permitted(i, cx, x)
    BY <2>1 DEF Permitted, Reads, Writes, IsInstruction
  <2>3. Fails(i, cx, x) = Succeeds(i, cx, x)
        /\ Weaker(Sure(R \ {s}, W \ {s}, Away(A, s), g), Succeeds(i, cx, x))
    BY <2>1 DEF Fails, Succeeds, Writes, Answering, Pushing, Weaker, IsInstruction
  <2> HIDE DEF x, Sure
  <2>4. QED BY <2>1, <2>2, <2>3, TypedOne DEF i, IsInstruction
<1>4. QED BY <1>1, <1>2, <1>3

(* Instructions that read, and leave the answer as it is.                  *)
Observing == {"look", "peek", "store", "need key", "need book", "need symbols", "need words"}

LEMMA Observe ==
  ASSUME NEW cx, NEW s \in cx.systems, NEW R, NEW W, NEW A, NEW g, NEW do \in Observing, NEW key, NEW n,
         s \in R \/ do = "peek"
  PROVE  Typed(<<Instruction(do, s, key, n)>>, cx, Sure(R, W, A, g), Sure(R, W, A, g))
<1> DEFINE i == Instruction(do, s, key, n)  x == Sure(R, W, A, g)
<1>1. IsInstruction(i, do, s, key, n)
  BY Instructions
<1> HIDE DEF i
<1>2. Permitted(i, cx, x)
  BY <1>1 DEF Permitted, Reads, Writes, Observing, Sure, IsInstruction
<1>3. Fails(i, cx, x) = Succeeds(i, cx, x) /\ Weaker(x, Succeeds(i, cx, x))
  BY <1>1 DEF Fails, Succeeds, Writes, Answering, Pushing, Weaker, Observing, Sure, IsInstruction
<1> HIDE DEF x
<1>4. Typed(<<i>>, cx, x, x)
  BY <1>1, <1>2, <1>3, TypedOne DEF IsInstruction
<1>5. QED BY <1>4 DEF i, x

(* Instructions that answer with a matrix that is there, or a tensor.      *)
LEMMA Answer ==
  ASSUME NEW cx, NEW s \in cx.systems, NEW R, NEW W, NEW A, NEW g,
         NEW do \in {"need matrix", "need tensor", "peek made"}, NEW key, NEW n,
         s \in R \/ do = "peek made",
         Unnamed(cx) \/ (do = "peek made" /\ s = cx.on /\ key = cx.key)
  PROVE  Typed(<<Instruction(do, s, key, n)>>, cx, Sure(R, W, A, g), Sure(R, W, A, TRUE))
<1> DEFINE i == Instruction(do, s, key, n)  x == Sure(R, W, A, g)  y == Sure(R, W, A, TRUE)
<1>1. IsInstruction(i, do, s, key, n)
  BY Instructions
<1> HIDE DEF i
<1>2. Permitted(i, cx, x)
  BY <1>1 DEF Permitted, Reads, Writes, Sure, IsInstruction
<1>3. Names(i, cx)
  BY <1>1 DEF Names, Answering, IsInstruction
<1>4. Fails(i, cx, x) = Succeeds(i, cx, x) /\ Weaker(y, Succeeds(i, cx, x))
  BY <1>1, <1>3 DEF Fails, Succeeds, Writes, Answering, Pushing, Weaker, Sure, IsInstruction
<1> HIDE DEF x, y
<1>5. Typed(<<i>>, cx, x, y)
  BY <1>1, <1>2, <1>4, TypedOne DEF IsInstruction
<1>6. QED BY <1>5 DEF i, x, y

(* An answer that may not be the one asked for.                            *)
LEMMA AnswerMaybe ==
  ASSUME NEW cx, NEW s \in cx.systems, NEW R, NEW W, NEW A, NEW g, NEW n, s \in R
  PROVE  Typed(<<NeedMatrix(s, n)>>, cx, Sure(R, W, A, g), Sure(R, W, A, FALSE))
<1> DEFINE i == NeedMatrix(s, n)  x == Sure(R, W, A, g)  y == Sure(R, W, A, FALSE)
<1>1. IsInstruction(i, "need matrix", s, NoKey, n)
  BY Instructions DEF NeedMatrix
<1> HIDE DEF i
<1>2. Permitted(i, cx, x)
  BY <1>1 DEF Permitted, Reads, Writes, Sure, IsInstruction
<1>3. Fails(i, cx, x) = Succeeds(i, cx, x) /\ Weaker(y, Succeeds(i, cx, x))
  BY <1>1 DEF Fails, Succeeds, Writes, Answering, Pushing, Weaker, Sure, IsInstruction
<1> HIDE DEF x, y
<1>4. Typed(<<i>>, cx, x, y)
  BY <1>1, <1>2, <1>3, TypedOne DEF IsInstruction
<1>5. QED BY <1>4 DEF i, x, y

(* Instructions that write and do not answer.                              *)
LEMMA Write ==
  ASSUME NEW cx, NEW s \in cx.systems, NEW R, NEW W, NEW A, NEW g,
         NEW do \in {"register", "create symbols", "add book", "merge book", "make", "fill"}, NEW key, NEW n,
         s \in W, s \in R,
         do = "create symbols" => n \in cx.largest,
         do \in {"make", "fill"} => key[1] \in {"cg", "fc", "pt"}
  PROVE  Typed(<<Instruction(do, s, key, n)>>, cx, Sure(R, W, A, g), Sure(R, W, A, g))
<1> DEFINE i == Instruction(do, s, key, n)  x == Sure(R, W, A, g)
<1>1. IsInstruction(i, do, s, key, n)
  BY Instructions
<1> HIDE DEF i
<1>2. Permitted(i, cx, x)
  BY <1>1 DEF Permitted, Reads, Writes, Sure, IsInstruction
<1>3. Fails(i, cx, x) = Succeeds(i, cx, x) /\ Weaker(x, Succeeds(i, cx, x))
  BY <1>1 DEF Fails, Succeeds, Writes, Answering, Pushing, Weaker, Sure, IsInstruction
<1> HIDE DEF x
<1>4. Typed(<<i>>, cx, x, x)
  BY <1>1, <1>2, <1>3, TypedOne DEF IsInstruction
<1>5. QED BY <1>4 DEF i, x

(* Instructions that make matrices.                                        *)
LEMMA MakeOne ==
  ASSUME NEW cx, NEW s \in cx.systems, NEW R, NEW W, NEW A, NEW g, NEW h \in BOOLEAN,
         NEW do \in {"create", "append", "push", "import", "push polynomial"}, NEW key, NEW n,
         s \in W, do \in {"create", "append", "push polynomial"} => key # Raw,
         do = "append" => <<s, key>> \in A,
         h => s = cx.on /\ (do \in Pushing \/ key = cx.key)
  PROVE  Typed(<<Instruction(do, s, key, n)>>, cx, Sure(R, W, A, g), Sure(R, W, Away(A, s), h))
<1> DEFINE i == Instruction(do, s, key, n)  x == Sure(R, W, A, g)  y == Sure(R, W, Away(A, s), h)
<1>1. IsInstruction(i, do, s, key, n)
  BY Instructions
<1> HIDE DEF i
<1>2. Permitted(i, cx, x)
  BY <1>1 DEF Permitted, Reads, Writes, Sure, IsInstruction
<1>3. h => Names(i, cx)
  BY <1>1 DEF Names, Answering, Pushing, IsInstruction
<1>4. "matrices" \in Writes(i)
  BY <1>1 DEF Writes, IsInstruction
<1>5. Fails(i, cx, x) = Succeeds(i, cx, x) /\ Weaker(y, Succeeds(i, cx, x))
  BY <1>1, <1>3, <1>4 DEF Fails, Succeeds, Answering, Pushing, Weaker, Sure, IsInstruction
<1> HIDE DEF x, y
<1>6. Typed(<<i>>, cx, x, y)
  BY <1>1, <1>2, <1>5, TypedOne DEF IsInstruction
<1>7. QED BY <1>6 DEF i, x, y

-----------------------------------------------------------------------------
(* Sequences of a few instructions.                                        *)
LEMMA SameSeq ==
  ASSUME NEW S, NEW p \in Seq(S), NEW q \in Seq(S), Len(p) = Len(q), \A i \in 1 .. Len(p) : p[i] = q[i]
  PROVE  p = q
  OBVIOUS

LEMMA TwoConcat == \A v, w : <<v, w>> = <<v>> \o <<w>>
<1> SUFFICES ASSUME NEW v, NEW w PROVE <<v, w>> = <<v>> \o <<w>>
  OBVIOUS
<1> DEFINE S == {v, w}
<1>1. <<v, w>> \in Seq(S) /\ Len(<<v, w>>) = 2 /\ <<v, w>>[1] = v /\ <<v, w>>[2] = w
  OBVIOUS
<1>2. /\ <<v>> \in Seq(S) /\ Len(<<v>>) = 1 /\ <<v>>[1] = v
      /\ <<w>> \in Seq(S) /\ Len(<<w>>) = 1 /\ <<w>>[1] = w
  OBVIOUS
<1> DEFINE p == <<v>>  q == <<w>>  r == <<v, w>>
<1> HIDE DEF S, p, q, r
<1>3. p \o q \in Seq(S) /\ Len(p \o q) = 2 /\ (p \o q)[1] = v /\ (p \o q)[2] = w
  BY <1>2, ConcatProperties DEF p, q
<1>4. r \in Seq(S) /\ Len(r) = 2 /\ r[1] = v /\ r[2] = w
  BY <1>1 DEF r
<1>5. r = p \o q
  BY <1>3, <1>4, SameSeq
<1>6. QED BY <1>5 DEF p, q, r

LEMMA ThreeConcat == \A v, w, x : <<v, w, x>> = <<v>> \o <<w, x>>
  OBVIOUS

LEMMA FourConcat == \A v, w, x, y : <<v, w, x, y>> = <<v>> \o <<w, x, y>>
  OBVIOUS

LEMMA FiveConcat == \A v, w, x, y, z : <<v, w, x, y, z>> = <<v>> \o <<w, x, y, z>>
  OBVIOUS

LEMMA TypedTwo ==
  ASSUME NEW cx, NEW a, NEW b, NEW c, NEW v, NEW w,
         Typed(<<v>>, cx, a, b), Typed(<<w>>, cx, b, c)
  PROVE  Typed(<<v, w>>, cx, a, c)
<1>1. Typed(<<v>> \o <<w>>, cx, a, c)
  BY TypedConcat
<1>2. QED BY <1>1, TwoConcat

LEMMA TypedThree ==
  ASSUME NEW cx, NEW a, NEW b, NEW c, NEW d, NEW v, NEW w, NEW x,
         Typed(<<v>>, cx, a, b), Typed(<<w>>, cx, b, c), Typed(<<x>>, cx, c, d)
  PROVE  Typed(<<v, w, x>>, cx, a, d)
<1>1. Typed(<<w, x>>, cx, b, d)
  BY TypedTwo
<1>2. Typed(<<v>> \o <<w, x>>, cx, a, d)
  BY <1>1, TypedConcat
<1>3. QED BY <1>2, ThreeConcat

LEMMA TypedFour ==
  ASSUME NEW cx, NEW a, NEW b, NEW c, NEW d, NEW e, NEW v, NEW w, NEW x, NEW y,
         Typed(<<v>>, cx, a, b), Typed(<<w>>, cx, b, c), Typed(<<x>>, cx, c, d), Typed(<<y>>, cx, d, e)
  PROVE  Typed(<<v, w, x, y>>, cx, a, e)
<1>1. Typed(<<w, x, y>>, cx, b, e)
  BY TypedThree
<1>2. Typed(<<v>> \o <<w, x, y>>, cx, a, e)
  BY <1>1, TypedConcat
<1>3. QED BY <1>2, FourConcat

(* Locks, for a client that has none, or one.                              *)
LEMMA Shapes ==
  ASSUME NEW cx, NEW s \in cx.systems, NEW g
  PROVE  /\ Typed(<<ReadLock(s)>>, cx, Free(g), ToRead(s, g))
         /\ Typed(<<WriteLock(s)>>, cx, Free(g), ToWrite(s, g))
         /\ Typed(<<ReadLock(s)>>, cx, ToRead(s, g), ToRead(s, g))
         /\ Typed(<<Unlock(s)>>, cx, ToRead(s, g), Free(g))
         /\ Typed(<<Unlock(s)>>, cx, ToWrite(s, g), Free(g))
         /\ Typed(<<Unlock(s)>>, cx, Free(g), Free(g))
<1>1. /\ {} \cup {s} = {s} /\ {s} \cup {s} = {s} /\ {s} \ {s} = {} /\ {} \ {s} = {}
      /\ Away({}, s) = {}
  BY DEF Away
<1>2. Typed(<<ReadLock(s)>>, cx, Sure({}, {}, {}, g), Sure({} \cup {s}, {}, {}, g))
  BY Locking
<1>3. Typed(<<WriteLock(s)>>, cx, Sure({}, {}, {}, g), Sure({} \cup {s}, {} \cup {s}, {}, g))
  BY Locking
<1>4. Typed(<<ReadLock(s)>>, cx, Sure({s}, {}, {}, g), Sure({s} \cup {s}, {}, {}, g))
  BY Locking
<1>5. \A R, W, A : Typed(<<Unlock(s)>>, cx, Sure(R, W, A, g), Sure(R \ {s}, W \ {s}, Away(A, s), g))
  BY Locking
<1>6. QED BY <1>1, <1>2, <1>3, <1>4, <1>5 DEF Free, ToRead, ToWrite

LEMMA Orders ==
  ASSUME NEW s, NEW g
  PROVE  /\ Weaker(Free(g), ToRead(s, g)) /\ Weaker(Free(g), ToWrite(s, g))
         /\ Weaker(ToRead(s, g), ToWrite(s, g))
         /\ Weaker(Free(FALSE), Free(g)) /\ Weaker(ToRead(s, FALSE), ToRead(s, g))
         /\ Weaker(Free(g), Free(TRUE)) /\ Weaker(ToRead(s, g), ToRead(s, TRUE))
         /\ Weaker(ToWrite(s, g), ToWrite(s, TRUE))
         /\ Weaker(Free(g), Free(g)) /\ Weaker(ToRead(s, g), ToRead(s, g))
  BY DEF Weaker, Free, ToRead, ToWrite, Sure

LEMMA TypedReading ==
  ASSUME NEW cx, NEW s \in cx.systems, NEW i, NEW g, NEW h,
         Typed(<<i>>, cx, ToRead(s, g), ToRead(s, h))
  PROVE  Typed(Reading(s, i), cx, Free(g), Free(h))
  BY Shapes, TypedThree DEF Reading

LEMMA TypedWriting ==
  ASSUME NEW cx, NEW s \in cx.systems, NEW i, NEW g, NEW h,
         Typed(<<i>>, cx, ToWrite(s, g), ToWrite(s, h))
  PROVE  Typed(Writing(s, i), cx, Free(g), Free(h))
  BY Shapes, TypedThree DEF Writing

LEMMA TypedUpgraded ==
  ASSUME NEW cx, NEW s \in cx.systems, NEW i, NEW g,
         Typed(<<i>>, cx, ToWrite(s, g), ToWrite(s, g))
  PROVE  Typed(Upgraded(s, i), cx, ToRead(s, g), ToRead(s, g))
<1>1. Typed(<<WriteLock(s), i, Unlock(s), ReadLock(s)>>, cx, Free(g), ToRead(s, g))
  BY Shapes, TypedFour
<1>2. Typed(<<Unlock(s)>> \o <<WriteLock(s), i, Unlock(s), ReadLock(s)>>, cx, ToRead(s, g), ToRead(s, g))
  BY <1>1, Shapes, TypedConcat
<1>3. Upgraded(s, i) = <<Unlock(s)>> \o <<WriteLock(s), i, Unlock(s), ReadLock(s)>>
  BY FiveConcat DEF Upgraded
<1>4. QED BY <1>2, <1>3

-----------------------------------------------------------------------------
(* Programs that make matrices.                                            *)
Around(cx, o, b) == o = cx.on /\ o \in cx.systems /\ b \in cx.systems /\ b # o

(* Nothing is sure of what is absent.                                      *)
LEMMA MakeAny ==
  ASSUME NEW cx, NEW s \in cx.systems, NEW g, NEW h \in BOOLEAN,
         NEW do \in {"create", "push", "import", "push polynomial"}, NEW key, NEW n,
         do \in {"create", "push polynomial"} => key # Raw,
         h => s = cx.on /\ (do \in Pushing \/ key = cx.key)
  PROVE  Typed(<<Instruction(do, s, key, n)>>, cx, ToWrite(s, g), ToWrite(s, h))
<1> DEFINE W == {s}  A == {}
<1>1. s \in W /\ Away(A, s) = {}
  BY DEF Away
<1>2. /\ do \in {"create", "append", "push", "import", "push polynomial"} /\ do # "append"
      /\ do \in {"create", "append", "push polynomial"} => key # Raw
  OBVIOUS
<1> HIDE DEF W, A
<1>3. Typed(<<Instruction(do, s, key, n)>>, cx, Sure(W, W, A, g), Sure(W, W, Away(A, s), h))
  BY <1>1, <1>2, MakeOne
<1>4. QED BY <1>1, <1>3 DEF ToWrite, W, A

LEMMA TypedCreate ==
  ASSUME NEW cx, NEW s \in cx.systems, NEW key, key # Raw, NEW g, NEW h \in BOOLEAN,
         h => s = cx.on /\ key = cx.key
  PROVE  Typed(<<Create(s, key)>>, cx, ToWrite(s, g), ToWrite(s, h))
  BY MakeAny DEF Create

LEMMA TypedPush ==
  ASSUME NEW cx, NEW s \in cx.systems, s = cx.on, NEW g, NEW key, key # Raw, NEW n
  PROVE  /\ Typed(<<Push(s)>>, cx, ToWrite(s, g), ToWrite(s, TRUE))
         /\ Typed(<<PushPolynomial(s, key)>>, cx, ToWrite(s, g), ToWrite(s, TRUE))
         /\ Typed(<<Import(s, n)>>, cx, ToWrite(s, g), ToWrite(s, TRUE))
<1>1. Typed(<<Instruction("push", s, Raw, 0)>>, cx, ToWrite(s, g), ToWrite(s, TRUE))
  BY MakeAny DEF Pushing
<1>2. Typed(<<Instruction("push polynomial", s, key, 0)>>, cx, ToWrite(s, g), ToWrite(s, TRUE))
  BY MakeAny DEF Pushing
<1>3. Typed(<<Instruction("import", s, Raw, n)>>, cx, ToWrite(s, g), ToWrite(s, TRUE))
  BY MakeAny DEF Pushing
<1>4. QED BY <1>1, <1>2, <1>3 DEF Push, PushPolynomial, Import

LEMMA Filter == 
  ASSUME NEW o, NEW b, b # o, NEW key
  PROVE  Away({<<o, key>>}, b) = {<<o, key>>} /\ Away({<<o, key>>}, o) = {}
  BY DEF Away

(* MakeMatrix of a derived system: that the matrix is not made stays sure  *)
(* while the client looks for it in the source, and makes it there.        *)
LEMMA TypedMakeMatrix ==
  ASSUME NEW cx, NEW o, NEW b, Around(cx, o, b), cx.key # Raw, NEW g \in BOOLEAN
  PROVE  Typed(MakeMatrix(cx.key, o, b), cx, Free(g), Free(TRUE))
<1> DEFINE key == cx.key  K == {<<o, key>>}
<1>1. o = cx.on /\ o \in cx.systems /\ b \in cx.systems /\ b # o
  BY DEF Around
<1>2. CASE b = NoSource
  BY <1>1, <1>2, TypedCreate, TypedWriting DEF MakeMatrix
<1>3. CASE b # NoSource
  <2> DEFINE test   == Made(o, key)
             source == Source(b, key)
             inner  == <<Unlock(b), WriteLock(b), Create(b, key)>>
             degree == If(key[1] = "polynomial", <<Peek(b)>>)
             outer  == degree \o <<ReadLock(b)>> \o IfNot(source, inner) \o <<Unlock(b), Append1(o, key), OnNewMatrix(b)>>
             have(s, h)  == Sure({o} \cup s, {o}, K, h)
             both   == Sure({o} \cup {b}, {o} \cup {b}, K, g)
  <2>1. Away(K, b) = K /\ Away(K, o) = {}
    BY <1>1, Filter
  <2>2. Typed(<<ReadLock(b)>>, cx, Sure({o}, {o}, K, g), Sure({o} \cup {b}, {o}, K, g))
    BY <1>1, Locking
  <2>3. Typed(IfNot(source, inner), cx, Sure({o} \cup {b}, {o}, K, g), Sure({o} \cup {b}, {o}, K, FALSE))
    <3> DEFINE x == Sure({o} \cup {b}, {o}, K, g)  y == Sure({o} \cup {b}, {o}, K, FALSE)
    <3>1. IsInstruction(source, "source", b, key, 0)
      BY Instructions DEF Source
    <3> HIDE DEF source
    <3>2. Permitted(source, cx, x)
      BY <3>1, <1>1 DEF Permitted, Reads, Writes, Sure, IsInstruction
    <3>3. Fails(source, cx, x) = Succeeds(source, cx, x) /\ Weaker(x, Succeeds(source, cx, x))
      BY <3>1 DEF Fails, Succeeds, Writes, Answering, Pushing, Weaker, Sure, IsInstruction
    <3>4. Typed(inner, cx, x, y)
      <4>1. Typed(<<Unlock(b)>>, cx, Sure({o} \cup {b}, {o}, K, g),
                                     Sure(({o} \cup {b}) \ {b}, {o} \ {b}, Away(K, b), g))
        BY <1>1, Locking
      <4>2. ({o} \cup {b}) \ {b} = {o} /\ {o} \ {b} = {o}
        BY <1>1
      <4>3. Typed(<<Unlock(b)>>, cx, x, Sure({o}, {o}, K, g))
        BY <4>1, <4>2, <2>1
      <4>4. Typed(<<WriteLock(b)>>, cx, Sure({o}, {o}, K, g), both)
        BY <1>1, Locking
      <4>5. Typed(<<Create(b, key)>>, cx, both, Sure({o} \cup {b}, {o} \cup {b}, K, FALSE))
        <5>1. Typed(<<Instruction("create", b, key, 0)>>, cx, both,
                    Sure({o} \cup {b}, {o} \cup {b}, Away(K, b), FALSE))
          BY <1>1, MakeOne
        <5>2. QED BY <5>1, <2>1 DEF Create
      <4>6. Typed(inner, cx, x, Sure({o} \cup {b}, {o} \cup {b}, K, FALSE))
        <5> DEFINE y1 == Sure({o}, {o}, K, g)  y2 == Sure({o} \cup {b}, {o} \cup {b}, K, FALSE)
        <5>1. /\ Typed(<<Unlock(b)>>, cx, x, y1) /\ Typed(<<WriteLock(b)>>, cx, y1, both)
              /\ Typed(<<Create(b, key)>>, cx, both, y2)
          BY <4>3, <4>4, <4>5
        <5> HIDE DEF x, both, y1, y2
        <5>2. Typed(<<Unlock(b), WriteLock(b), Create(b, key)>>, cx, x, y2)
          BY <5>1, TypedThree
        <5>3. QED BY <5>2 DEF y2
      <4>7. Weaker(y, Sure({o} \cup {b}, {o} \cup {b}, K, FALSE))
        BY DEF Weaker, Sure
      <4> HIDE DEF inner, x, y
      <4>8. QED BY <4>6, <4>7, TypedWeaker, WeakerOrder
    <3>5. Weaker(y, x)
      BY DEF Weaker, Sure
    <3> HIDE DEF x, y, inner
    <3>6. Weaker(x, Fails(source, cx, x)) /\ Weaker(y, Succeeds(source, cx, x))
      BY <3>3, <3>5, WeakerOrder
    <3>7. Typed(IfNot(source, inner), cx, x, y)
      BY <3>2, <3>4, <3>6, TypedIfNot
    <3>8. QED BY <3>7 DEF x, y
  <2>4. \A A, h : Typed(<<Peek(b)>>, cx, Sure({o}, {o}, A, h), Sure({o}, {o}, A, h))
    <3>1. "peek" \in Observing
      BY DEF Observing
    <3> DEFINE W == {o}
    <3> HIDE DEF W
    <3>2. \A A, h : Typed(<<Instruction("peek", b, NoKey, 0)>>, cx, Sure(W, W, A, h), Sure(W, W, A, h))
      BY <1>1, <3>1, Observe
    <3>3. QED BY <3>2 DEF Peek, W
  <2>5. Typed(degree, cx, Sure({o}, {o}, K, g), Sure({o}, {o}, K, g))
    BY <2>4, TypedNothing DEF If
  <2>6. Typed(<<Unlock(b), Append1(o, key), OnNewMatrix(b)>>, cx, Sure({o} \cup {b}, {o}, K, FALSE), ToWrite(o, TRUE))
    <3>1. Typed(<<Unlock(b)>>, cx, Sure({o} \cup {b}, {o}, K, FALSE),
                                   Sure(({o} \cup {b}) \ {b}, {o} \ {b}, Away(K, b), FALSE))
      BY <1>1, Locking
    <3>2. ({o} \cup {b}) \ {b} = {o} /\ {o} \ {b} = {o}
      BY <1>1
    <3>3. Typed(<<Unlock(b)>>, cx, Sure({o} \cup {b}, {o}, K, FALSE), Sure({o}, {o}, K, FALSE))
      BY <3>1, <3>2, <2>1
    <3>4. Typed(<<Instruction("append", o, key, 0)>>, cx, Sure({o}, {o}, K, FALSE), Sure({o}, {o}, Away(K, o), TRUE))
      <4> DEFINE W == {o}
      <4>1. o \in W /\ <<o, key>> \in K
        OBVIOUS
      <4> HIDE DEF W, K
      <4>2. Typed(<<Instruction("append", o, key, 0)>>, cx, Sure(W, W, K, FALSE), Sure(W, W, Away(K, o), TRUE))
        BY <1>1, <4>1, MakeOne
      <4>3. QED BY <4>2 DEF W
    <3>5. Typed(<<Append1(o, key)>>, cx, Sure({o}, {o}, K, FALSE), ToWrite(o, TRUE))
      BY <3>4, <2>1 DEF Append1, ToWrite
    <3>6. Typed(<<OnNewMatrix(b)>>, cx, ToWrite(o, TRUE), ToWrite(o, TRUE))
      BY <2>4 DEF ToWrite, OnNewMatrix
    <3>7. QED BY <3>3, <3>5, <3>6, TypedThree
  <2>7. Typed(outer, cx, Sure({o}, {o}, K, g), ToWrite(o, TRUE))
    <3> HIDE DEF degree, K
    <3>1. Typed(degree \o <<ReadLock(b)>>, cx, Sure({o}, {o}, K, g), Sure({o} \cup {b}, {o}, K, g))
      BY <2>2, <2>5, TypedConcat
    <3>2. QED BY <3>1, <2>3, <2>6, TypedConcat
  <2>8. Typed(IfNot(test, outer), cx, ToWrite(o, g), ToWrite(o, TRUE))
    <3> DEFINE x == ToWrite(o, g)  y == ToWrite(o, TRUE)  z == Sure({o}, {o}, K, g)
    <3>1. IsInstruction(test, "made", o, key, 0)
      BY Instructions DEF Made
    <3> HIDE DEF test
    <3>2. Permitted(test, cx, x)
      BY <3>1, <1>1 DEF Permitted, Reads, Writes, Sure, ToWrite, IsInstruction
    <3>3. Weaker(z, Fails(test, cx, x))
      BY <3>1 DEF Fails, Weaker, Sure, ToWrite, IsInstruction
    <3>4. Weaker(y, Succeeds(test, cx, x))
      <4>1. Names(test, cx)
        BY <3>1, <1>1 DEF Names, Answering, IsInstruction
      <4>2. QED BY <3>1, <4>1 DEF Succeeds, Writes, Answering, Pushing, Weaker, Sure, ToWrite, IsInstruction
    <3> HIDE DEF x, y, z, outer
    <3>5. Typed(IfNot(test, outer), cx, x, y)
      BY <3>2, <3>3, <3>4, <2>7, TypedIfNot DEF z, y
    <3>6. QED BY <3>5 DEF x, y
  <2>9. MakeMatrix(key, o, b) = <<WriteLock(o)>> \o IfNot(test, outer) \o <<Unlock(o)>>
    BY <1>3 DEF MakeMatrix, MakeFromSource
  <2> HIDE DEF test, outer
  <2>10. QED BY <1>1, <2>8, <2>9, Shapes, TypedConcat
<1>4. QED BY <1>2, <1>3

-----------------------------------------------------------------------------
LEMMA TypedExport ==
  ASSUME NEW cx, NEW o \in cx.systems, NEW given
  PROVE  Typed(ExportMatrix(given, o), cx, Free(TRUE), Free(TRUE))
<1>1. Typed(If("masks" \in given, <<ReadLock(o)>>), cx, ToRead(o, TRUE), ToRead(o, TRUE))
  <2>1. Typed(<<ReadLock(o)>>, cx, ToRead(o, TRUE), ToRead(o, TRUE))
    BY Shapes
  <2>2. QED BY <2>1, TypedNothing DEF If
<1>2. Typed(<<Look(o)>>, cx, ToRead(o, TRUE), ToRead(o, TRUE))
  <2>1. Typed(<<Instruction("look", o, NoKey, 0)>>, cx, Sure({o}, {}, {}, TRUE), Sure({o}, {}, {}, TRUE))
    <3> DEFINE R == {o}
    <3>1. o \in R /\ "look" \in Observing
      BY DEF Observing
    <3> HIDE DEF R
    <3>2. Typed(<<Instruction("look", o, NoKey, 0)>>, cx, Sure(R, {}, {}, TRUE), Sure(R, {}, {}, TRUE))
      BY <3>1, Observe
    <3>3. QED BY <3>2 DEF R
  <2>2. QED BY <2>1 DEF ToRead, Look
<1>3. Typed(<<ReadLock(o)>> \o If("masks" \in given, <<ReadLock(o)>>), cx, Free(TRUE), ToRead(o, TRUE))
  BY <1>1, Shapes, TypedConcat
<1>4. Typed(ExportMatrix(given, o), cx, Free(TRUE), ToRead(o, TRUE))
  BY <1>2, <1>3, TypedConcat DEF ExportMatrix
<1>5. QED BY <1>4, Orders, TypedWeaker, WeakerOrder

(* What a client does under one read lock or one write lock.               *)
LEMMA ObserveOne ==
  ASSUME NEW cx, NEW s \in cx.systems, NEW g, NEW do \in Observing, NEW key, NEW n
  PROVE  /\ Typed(<<Instruction(do, s, key, n)>>, cx, ToRead(s, g), ToRead(s, g))
         /\ do = "peek" => Typed(<<Instruction(do, s, key, n)>>, cx, Free(g), Free(g))
<1> DEFINE R == {s}
<1>1. s \in R
  OBVIOUS
<1> HIDE DEF R
<1>2. Typed(<<Instruction(do, s, key, n)>>, cx, Sure(R, {}, {}, g), Sure(R, {}, {}, g))
  BY <1>1, Observe
<1>3. do = "peek" => Typed(<<Instruction(do, s, key, n)>>, cx, Sure({}, {}, {}, g), Sure({}, {}, {}, g))
  BY Observe
<1>4. QED BY <1>2, <1>3 DEF ToRead, Free, R

LEMMA WriteOne ==
  ASSUME NEW cx, NEW s \in cx.systems, NEW g,
         NEW do \in {"register", "create symbols", "add book", "merge book", "make", "fill"}, NEW key, NEW n,
         do = "create symbols" => n \in cx.largest,
         do \in {"make", "fill"} => key[1] \in {"cg", "fc", "pt"}
  PROVE  Typed(<<Instruction(do, s, key, n)>>, cx, ToWrite(s, g), ToWrite(s, g))
<1> DEFINE R == {s}
<1>1. s \in R
  OBVIOUS
<1> HIDE DEF R
<1>2. Typed(<<Instruction(do, s, key, n)>>, cx, Sure(R, R, {}, g), Sure(R, R, {}, g))
  BY <1>1, Write
<1>3. QED BY <1>2 DEF ToWrite, R

LEMMA AnswerOne ==
  ASSUME NEW cx, NEW s \in cx.systems, NEW g, NEW do \in {"need matrix", "need tensor"}, NEW key, NEW n,
         Unnamed(cx)
  PROVE  Typed(<<Instruction(do, s, key, n)>>, cx, ToRead(s, g), ToRead(s, TRUE))
<1> DEFINE R == {s}
<1>1. s \in R /\ do \in {"need matrix", "need tensor", "peek made"}
  OBVIOUS
<1> HIDE DEF R
<1>2. Typed(<<Instruction(do, s, key, n)>>, cx, Sure(R, {}, {}, g), Sure(R, {}, {}, TRUE))
  BY <1>1, Answer
<1>3. QED BY <1>2 DEF ToRead, R

LEMMA FindOne ==
  ASSUME NEW cx, NEW o, NEW b, Around(cx, o, b), NEW g \in BOOLEAN,
         NEW p, Typed(p, cx, ToRead(o, g), Free(TRUE))
  PROVE  Typed(IfNot(Find(o, cx.key), p), cx, ToRead(o, g), Free(TRUE))
<1> DEFINE i == Find(o, cx.key)  x == ToRead(o, g)  y == Free(TRUE)
<1>1. IsInstruction(i, "find", o, cx.key, 0)
  BY Instructions DEF Find
<1> HIDE DEF i
<1>2. Permitted(i, cx, x)
  BY <1>1 DEF Permitted, Reads, Writes, Sure, ToRead, IsInstruction, Around
<1>3. Weaker(x, Fails(i, cx, x))
  BY <1>1 DEF Fails, Weaker, Sure, ToRead, IsInstruction
<1>4. Weaker(y, Succeeds(i, cx, x))
  <2>1. Names(i, cx)
    BY <1>1 DEF Names, Answering, IsInstruction, Around
  <2>2. QED BY <1>1, <2>1 DEF Succeeds, Writes, Answering, Pushing, Weaker, Sure, Free, IsInstruction
<1>5. Typed(p, cx, x, y)
  OBVIOUS
<1> HIDE DEF x, y
<1>6. Typed(IfNot(i, p), cx, x, y)
  BY <1>2, <1>3, <1>4, <1>5, TypedIfNot
<1>7. QED BY <1>6 DEF i, x, y

LEMMA TypedFindOrMake ==
  ASSUME NEW cx, NEW o, NEW b, Around(cx, o, b), cx.key # Raw, NEW g \in BOOLEAN
  PROVE  Typed(FindOrMake(cx.key, o, b), cx, ToRead(o, g), Free(TRUE))
<1>1. o \in cx.systems
  BY DEF Around
<1>2. Typed(<<Unlock(o)>> \o MakeMatrix(cx.key, o, b), cx, ToRead(o, g), Free(TRUE))
  BY <1>1, Shapes, TypedMakeMatrix, TypedConcat
<1>3. Typed(IfNot(Find(o, cx.key), <<Unlock(o)>> \o MakeMatrix(cx.key, o, b)), cx, ToRead(o, g), Free(TRUE))
  BY <1>2, FindOne
<1>4. QED BY <1>1, <1>3, Shapes, TypedConcat DEF FindOrMake

LEMMA TypedMonomialLocalizing ==
  ASSUME NEW cx, NEW o, NEW b, Around(cx, o, b), cx.key # Raw, NEW g \in BOOLEAN
  PROVE  Typed(MonomialLocalizing(cx.key, o, b), cx, Free(g), Free(TRUE))
<1>1. o \in cx.systems
  BY DEF Around
<1>2. QED BY <1>1, Shapes, TypedFindOrMake, TypedConcat DEF MonomialLocalizing

LEMMA TypedExistingSymbols ==
  ASSUME NEW cx, NEW o, NEW b, Around(cx, o, b), cx.key # Raw, NEW g \in BOOLEAN
  PROVE  Typed(ExistingSymbols(cx.key, o, b), cx, ToRead(SymbolsOf(o, b), g), Free(TRUE))
<1>1. o \in cx.systems /\ b \in cx.systems /\ b # o
  BY DEF Around
<1>2. CASE b = NoSource
  <2>1. Typed(<<>>, cx, ToRead(o, g), ToRead(o, g))
    BY TypedNothing
  <2>2. ExistingSymbols(cx.key, o, b) = <<>> \o FindOrMake(cx.key, o, b) /\ SymbolsOf(o, b) = o
    BY <1>2 DEF ExistingSymbols, If, SymbolsOf
  <2>3. QED BY <2>1, <2>2, TypedFindOrMake, TypedConcat
<1>3. CASE b # NoSource
  <2>1. Typed(<<ReadLock(o)>>, cx, Sure({b}, {}, {}, g), Sure({b} \cup {o}, {}, {}, g))
    BY <1>1, Locking
  <2>2. Typed(<<Unlock(b)>>, cx, Sure({b} \cup {o}, {}, {}, g), ToRead(o, g))
    <3>1. \A R, W, A : Typed(<<Unlock(b)>>, cx, Sure(R, W, A, g), Sure(R \ {b}, W \ {b}, Away(A, b), g))
      BY <1>1, Locking
    <3>2. ({b} \cup {o}) \ {b} = {o} /\ {} \ {b} = {} /\ Away({}, b) = {}
      BY <1>1 DEF Away
    <3>3. QED BY <3>1, <3>2 DEF ToRead
  <2>3. Typed(<<ReadLock(o), Unlock(b)>>, cx, ToRead(b, g), ToRead(o, g))
    BY <2>1, <2>2, TypedTwo DEF ToRead
  <2>4. /\ ExistingSymbols(cx.key, o, b) = <<ReadLock(o), Unlock(b)>> \o FindOrMake(cx.key, o, b)
        /\ SymbolsOf(o, b) = b
    BY <1>3 DEF ExistingSymbols, If, SymbolsOf
  <2>5. QED BY <2>3, <2>4, TypedFindOrMake, TypedConcat
<1>4. QED BY <1>2, <1>3

LEMMA TypedSymbolCell ==
  ASSUME NEW cx, NEW o, NEW b, Around(cx, o, b), cx.key # Raw, NEW g \in BOOLEAN
  PROVE  Typed(SymbolCellLocalizing(cx.key, o, b), cx, Free(g), Free(TRUE))
<1> DEFINE s == SymbolsOf(o, b)
<1>1. s \in cx.systems
  BY DEF Around, SymbolsOf
<1>2. Typed(ExistingSymbols(cx.key, o, b), cx, ToRead(s, g), Free(TRUE))
  BY TypedExistingSymbols
<1> HIDE DEF s
<1>3. Typed(<<Look(s)>>, cx, ToRead(s, g), ToRead(s, g))
  BY <1>1, ObserveOne DEF Look, Observing
<1>4. Typed(<<ReadLock(s), Look(s)>>, cx, Free(g), ToRead(s, g))
  BY <1>1, <1>3, Shapes, TypedTwo
<1>5. QED BY <1>2, <1>4, TypedConcat DEF SymbolCellLocalizing, s

LEMMA TypedNewSymbols ==
  ASSUME NEW cx, NEW o, NEW b, Around(cx, o, b), cx.key # Raw, NEW g \in BOOLEAN
  PROVE  Typed(WithNewSymbols(cx.key, o, b), cx, ToRead(SymbolsOf(o, b), g), ToWrite(SymbolsOf(o, b), TRUE))
<1> DEFINE s == SymbolsOf(o, b)
           more == IF b = NoSource THEN <<Create(o, cx.key)>>
                                   ELSE <<Unlock(s), WriteLock(s), PeekMade(o, cx.key)>>
<1>1. s \in cx.systems /\ o \in cx.systems /\ o = cx.on
  BY DEF Around, SymbolsOf
<1>2. WithNewSymbols(cx.key, o, b) = <<Unlock(s), WriteLock(s), Register(s, cx.key)>> \o more
  BY DEF WithNewSymbols
<1>3. b = NoSource => s = o
  BY DEF SymbolsOf
<1> HIDE DEF s
<1>4. Typed(<<Register(s, cx.key)>>, cx, ToWrite(s, g), ToWrite(s, g))
  BY <1>1, WriteOne DEF Register
<1>5. Typed(<<Unlock(s), WriteLock(s), Register(s, cx.key)>>, cx, ToRead(s, g), ToWrite(s, g))
  <2>1. /\ Typed(<<Unlock(s)>>, cx, ToRead(s, g), Free(g))
        /\ Typed(<<WriteLock(s)>>, cx, Free(g), ToWrite(s, g))
    BY <1>1, Shapes
  <2>2. QED BY <1>4, <2>1, TypedThree
<1>6. Typed(more, cx, ToWrite(s, g), ToWrite(s, TRUE))
  <2>1. CASE b = NoSource
    BY <1>1, <1>3, <2>1, TypedCreate
  <2>2. CASE b # NoSource
    <3>1. Typed(<<PeekMade(o, cx.key)>>, cx, ToWrite(s, g), ToWrite(s, TRUE))
      <4>1. Typed(<<Instruction("peek made", o, cx.key, 0)>>, cx, Sure({s}, {s}, {}, g), Sure({s}, {s}, {}, TRUE))
        BY <1>1, Answer
      <4>2. QED BY <4>1 DEF PeekMade, ToWrite
    <3>2. /\ Typed(<<Unlock(s)>>, cx, ToWrite(s, g), Free(g))
          /\ Typed(<<WriteLock(s)>>, cx, Free(g), ToWrite(s, g))
      BY <1>1, Shapes
    <3>3. Typed(<<Unlock(s), WriteLock(s), PeekMade(o, cx.key)>>, cx, ToWrite(s, g), ToWrite(s, TRUE))
      <4>1. Typed(<<WriteLock(s), PeekMade(o, cx.key)>>, cx, Free(g), ToWrite(s, TRUE))
        BY <3>1, <3>2, TypedTwo
      <4>2. QED BY <3>2, <4>1, TypedConcat, ThreeConcat
    <3>4. QED BY <2>2, <3>3
  <2>3. QED BY <2>1, <2>2
<1> HIDE DEF more
<1>7. QED BY <1>2, <1>5, <1>6, TypedConcat DEF s

LEMMA TypedOperatorCell ==
  ASSUME NEW cx, NEW o, NEW b, Around(cx, o, b), cx.key # Raw, NEW g \in BOOLEAN
  PROVE  Typed(OperatorCellLocalizing(cx.key, o, b), cx, Free(g), Free(TRUE))
<1> DEFINE s == SymbolsOf(o, b)
           t == Knows(s, cx.key)
           body == ExistingSymbols(cx.key, o, b)
           other == WithNewSymbols(cx.key, o, b)
           x == ToRead(s, g)  d == ToWrite(s, TRUE)  c == Free(TRUE)
<1>1. s \in cx.systems /\ o \in cx.systems
  BY DEF Around, SymbolsOf
<1>2. Typed(body, cx, x, c) /\ Typed(other, cx, x, d)
  BY TypedExistingSymbols, TypedNewSymbols
<1>3. other # <<>>
  <2> DEFINE more == IF b = NoSource THEN <<Create(o, cx.key)>>
                                     ELSE <<Unlock(s), WriteLock(s), PeekMade(o, cx.key)>>
             start == <<Unlock(s), WriteLock(s), Register(s, cx.key)>>
  <2>1. other = start \o more
    BY DEF WithNewSymbols
  <2>2. /\ start \in Seq({Unlock(s), WriteLock(s), Register(s, cx.key)}) /\ Len(start) = 3
    OBVIOUS
  <2>3. more \in Seq({Create(o, cx.key), Unlock(s), WriteLock(s), PeekMade(o, cx.key)})
    <3>1. <<Create(o, cx.key)>> \in Seq({Create(o, cx.key), Unlock(s), WriteLock(s), PeekMade(o, cx.key)})
      OBVIOUS
    <3>2. <<Unlock(s), WriteLock(s), PeekMade(o, cx.key)>>
             \in Seq({Create(o, cx.key), Unlock(s), WriteLock(s), PeekMade(o, cx.key)})
      OBVIOUS
    <3>3. QED BY <3>1, <3>2
  <2> HIDE DEF start, more
  <2>4. IsSeq(start) /\ IsSeq(more)
    BY <2>2, <2>3, SeqIntro
  <2>5. Len(start \o more) = 3 + Len(more) /\ Len(more) \in Nat
    BY <2>2, <2>4, ConcatFacts, SeqFacts
  <2> HIDE DEF other
  <2>6. QED BY <2>1, <2>5, SmallSeqs
<1> HIDE DEF body, other, s
<1>4. IsInstruction(t, "knows", s, cx.key, 0)
  BY Instructions DEF Knows
<1> HIDE DEF t
<1>5. Permitted(t, cx, x)
  BY <1>1, <1>4 DEF Permitted, Reads, Writes, Sure, ToRead, IsInstruction
<1>6. Weaker(x, Fails(t, cx, x)) /\ Weaker(x, Succeeds(t, cx, x))
  BY <1>4 DEF Fails, Succeeds, Writes, Answering, Pushing, Weaker, Sure, ToRead, IsInstruction
<1>7. Weaker(x, d) /\ Weaker(c, d)
  BY DEF Weaker, Sure, ToRead, ToWrite, Free
<1> HIDE DEF x, d, c
<1>8. Typed(IfElse(t, body, other), cx, x, c)
  BY <1>2, <1>3, <1>5, <1>6, <1>7, TypedIfElse
<1>9. Typed(<<ReadLock(s)>>, cx, Free(g), x)
  BY <1>1, Shapes DEF x
<1>10. Typed(<<Unlock(o), Unlock(s)>>, cx, c, c)
  BY <1>1, Shapes, TypedTwo DEF c
<1>11. Typed(<<ReadLock(s)>> \o IfElse(t, body, other) \o <<Unlock(o), Unlock(s)>>, cx, Free(g), c)
  BY <1>8, <1>9, <1>10, TypedConcat
<1>12. QED BY <1>11 DEF OperatorCellLocalizing, s, t, body, other, c

LEMMA TypedAliased ==
  ASSUME NEW cx, NEW o, NEW b, Around(cx, o, b), cx.key # Raw, NEW g \in BOOLEAN
  PROVE  Typed(AliasedLocalizing(cx.key, o, b), cx, Free(g), Free(TRUE))
<1>1. SymbolsOf(o, b) \in cx.systems /\ o \in cx.systems /\ o = cx.on
  BY DEF Around, SymbolsOf
<1>2. Typed(Reading(SymbolsOf(o, b), Look(SymbolsOf(o, b))), cx, Free(g), Free(g))
  BY <1>1, ObserveOne, TypedReading DEF Look, Observing
<1>3. Typed(Writing(o, PushPolynomial(o, cx.key)), cx, Free(g), Free(TRUE))
  BY <1>1, TypedPush, TypedWriting
<1>4. QED BY <1>2, <1>3, TypedConcat DEF AliasedLocalizing

LEMMA TypedLocalizing ==
  ASSUME NEW cx, NEW o, NEW b, Around(cx, o, b), cx.key # Raw, NEW g \in BOOLEAN,
         NEW r, r.key = cx.key, NEW given, NEW aliases
  PROVE  Typed(LocalizingMatrix(r, given, o, b, aliases), cx, Free(g), Free(TRUE))
<1>1. /\ Typed(MonomialLocalizing(cx.key, o, b), cx, Free(g), Free(TRUE))
      /\ Typed(SymbolCellLocalizing(cx.key, o, b), cx, Free(g), Free(TRUE))
      /\ Typed(AliasedLocalizing(cx.key, o, b), cx, Free(g), Free(TRUE))
      /\ Typed(OperatorCellLocalizing(cx.key, o, b), cx, Free(g), Free(TRUE))
  BY TypedMonomialLocalizing, TypedSymbolCell, TypedAliased, TypedOperatorCell
<1>2. QED BY <1>1 DEF LocalizingMatrix, PolynomialLocalizing

-----------------------------------------------------------------------------
LEMMA TypedObserving ==
  ASSUME NEW cx, NEW o \in cx.systems, NEW g, NEW n, NEW key
  PROVE  /\ Typed(<<Look(o)>>, cx, ToRead(o, g), ToRead(o, g))
         /\ Typed(<<Peek(o)>>, cx, Free(g), Free(g))
         /\ Typed(<<NeedKey(o, key)>>, cx, ToRead(o, g), ToRead(o, g))
         /\ Typed(<<NeedBook(o, n)>>, cx, ToRead(o, g), ToRead(o, g))
         /\ Typed(<<NeedSymbols(o, n)>>, cx, ToRead(o, g), ToRead(o, g))
         /\ Typed(<<NeedWords(o, key)>>, cx, ToRead(o, g), ToRead(o, g))
         /\ Typed(<<StoreDerived(o, n)>>, cx, ToRead(o, g), ToRead(o, g))
<1>1. /\ Typed(<<Look(o)>>, cx, ToRead(o, g), ToRead(o, g))
      /\ Typed(<<Peek(o)>>, cx, Free(g), Free(g))
  BY ObserveOne DEF Observing, Look, Peek
<1>2. /\ Typed(<<NeedKey(o, key)>>, cx, ToRead(o, g), ToRead(o, g))
      /\ Typed(<<NeedBook(o, n)>>, cx, ToRead(o, g), ToRead(o, g))
      /\ Typed(<<NeedSymbols(o, n)>>, cx, ToRead(o, g), ToRead(o, g))
  BY ObserveOne DEF Observing, NeedKey, NeedBook, NeedSymbols
<1>3. /\ Typed(<<NeedWords(o, key)>>, cx, ToRead(o, g), ToRead(o, g))
      /\ Typed(<<StoreDerived(o, n)>>, cx, ToRead(o, g), ToRead(o, g))
  BY ObserveOne DEF Observing, NeedWords, StoreDerived
<1>4. QED BY <1>1, <1>2, <1>3

LEMMA TypedNeeding ==
  ASSUME NEW cx, NEW o \in cx.systems, NEW g \in BOOLEAN, NEW n
  PROVE  /\ Typed(<<NeedMatrix(o, n)>>, cx, ToRead(o, g), ToRead(o, FALSE))
         /\ Unnamed(cx) => Typed(<<NeedMatrix(o, n)>>, cx, ToRead(o, g), ToRead(o, TRUE))
<1>1. Unnamed(cx) => Typed(<<NeedMatrix(o, n)>>, cx, ToRead(o, g), ToRead(o, TRUE))
  BY AnswerOne DEF NeedMatrix
<1>2. Typed(<<NeedMatrix(o, n)>>, cx, ToRead(o, g), ToRead(o, FALSE))
  <2> DEFINE R == {o}
  <2>1. o \in R
    OBVIOUS
  <2> HIDE DEF R
  <2>2. Typed(<<NeedMatrix(o, n)>>, cx, Sure(R, {}, {}, g), Sure(R, {}, {}, FALSE))
    BY <2>1, AnswerMaybe
  <2>3. QED BY <2>2 DEF R, ToRead
<1>3. QED BY <1>1, <1>2

LEMMA TypedLooking ==
  ASSUME NEW cx, NEW o \in cx.systems
  PROVE  Typed(Reading(o, Look(o)), cx, Free(TRUE), Free(TRUE))
  BY TypedObserving, TypedReading

LEMMA TypedExtended ==
  ASSUME NEW cx, NEW o \in cx.systems, o = cx.on, cx.key # Raw, NEW r, r.key = cx.key, NEW given
  PROVE  Typed(ExtendedMatrix(r, given, o), cx, Free(TRUE), Free(TRUE))
<1> DEFINE more == IF "extensions" \in given THEN <<Peek(o)>> ELSE Reading(o, Look(o))
<1>1. <<"moment", r.n>> # Raw
  BY DEF Raw
<1>2. Typed(<<Create(o, <<"moment", r.n>>)>>, cx, ToWrite(o, TRUE), ToWrite(o, FALSE))
  BY <1>1, TypedCreate
<1>3. Typed(<<Create(o, r.key)>>, cx, ToWrite(o, FALSE), ToWrite(o, TRUE))
  BY TypedCreate
<1>4. Typed(more, cx, Free(FALSE), Free(FALSE))
  BY TypedObserving, TypedReading
<1> HIDE DEF more
<1>5. Typed(Writing(o, Create(o, <<"moment", r.n>>)) \o more, cx, Free(TRUE), Free(FALSE))
  BY <1>2, <1>4, TypedWriting, TypedConcat
<1>6. QED BY <1>3, <1>5, TypedWriting, TypedConcat DEF ExtendedMatrix, more

LEMMA TypedTransform ==
  ASSUME NEW cx, NEW o \in cx.systems, NEW b \in cx.systems, Unnamed(cx), NEW r
  PROVE  Typed(TransformMatrix(r, o, b), cx, Free(TRUE), Free(TRUE))
<1>1. Typed(<<NeedMatrix(b, r.n)>>, cx, ToRead(b, TRUE), ToRead(b, TRUE))
  BY TypedNeeding
<1>2. Typed(<<WriteLock(o)>>, cx, ToRead(b, TRUE), Sure({b} \cup {o}, {} \cup {o}, {}, TRUE))
  BY Locking DEF ToRead
<1>3. Weaker(Free(TRUE), Sure({b} \cup {o}, {} \cup {o}, {}, TRUE)) /\ Weaker(ToRead(b, TRUE), ToRead(b, TRUE))
  BY DEF Weaker, Free, Sure, ToRead
<1> DEFINE x == ToRead(b, TRUE)  y == Sure({b} \cup {o}, {} \cup {o}, {}, TRUE)  z == Free(TRUE)
<1>4. Typed(<<ReadLock(b)>>, cx, z, x)
  BY Shapes
<1> HIDE DEF x, y, z
<1>5. Typed(<<WriteLock(o)>>, cx, x, z)
  BY <1>2, <1>3, TypedWeaker DEF x, y, z
<1>6. Typed(<<NeedMatrix(b, r.n)>>, cx, x, x)
  BY <1>1 DEF x
<1>7. QED BY <1>4, <1>5, <1>6, TypedThree DEF TransformMatrix, z

LEMMA TypedTransformSymbols ==
  ASSUME NEW cx, NEW o \in cx.systems, NEW b \in cx.systems
  PROVE  Typed(TransformSymbols(o, b), cx, Free(TRUE), Free(TRUE))
<1> DEFINE R == {o} \cup {b}  x == Sure(R, {}, {}, TRUE)  y == ToRead(o, TRUE)  z == Free(TRUE)
<1>1. Typed(<<ReadLock(o)>>, cx, z, y)
  BY Shapes
<1>2. Typed(<<ReadLock(b)>>, cx, y, x)
  BY Locking DEF ToRead
<1>3. o \in R /\ b \in R /\ Weaker(z, x)
  BY DEF Weaker, Free, Sure
<1> HIDE DEF R
<1>4. Typed(<<Look(b)>>, cx, x, x) /\ Typed(<<Look(o)>>, cx, x, x)
  BY <1>3, Observe DEF Look, Observing
<1> HIDE DEF x, y, z
<1>5. Typed(<<Look(o)>>, cx, x, z)
  BY <1>3, <1>4, TypedWeaker, WeakerOrder
<1>6. QED BY <1>1, <1>2, <1>4, <1>5, TypedFour DEF TransformSymbols, z

LEMMA TypedWordList ==
  ASSUME NEW cx, NEW o \in cx.systems, NEW r, NEW given
  PROVE  Typed(WordList(r, given, o), cx, Free(TRUE), Free(TRUE))
<1>1. Typed(<<Register(o, r.key)>>, cx, ToWrite(o, TRUE), ToWrite(o, TRUE))
  BY WriteOne DEF Register
<1>2. Typed(If("register_symbols" \in given, Writing(o, Register(o, r.key))), cx, Free(TRUE), Free(TRUE))
  BY <1>1, TypedWriting, TypedNothing DEF If
<1>3. QED BY <1>2, TypedLooking, TypedConcat DEF WordList

LEMMA TypedImportPolynomial ==
  ASSUME NEW cx, NEW o \in cx.systems, NEW r, r.n \in cx.largest, NEW given
  PROVE  Typed(ImportPolynomial(r, given, o), cx, Free(TRUE), Free(TRUE))
<1> DEFINE x == ToRead(o, TRUE)  t == HasSymbols(o, r.n)
           up == Upgraded(o, CreateSymbols(o, r.n))
<1>1. Typed(<<CreateSymbols(o, r.n)>>, cx, ToWrite(o, TRUE), ToWrite(o, TRUE))
  BY WriteOne DEF CreateSymbols
<1>2. Typed(up, cx, x, x)
  BY <1>1, TypedUpgraded
<1>3. IsInstruction(t, "has symbols", o, NoKey, r.n)
  BY Instructions DEF HasSymbols
<1> HIDE DEF t
<1>4. Permitted(t, cx, x)
  BY <1>3 DEF Permitted, Reads, Writes, Sure, ToRead, IsInstruction
<1>5. Weaker(x, Fails(t, cx, x)) /\ Weaker(x, Succeeds(t, cx, x))
  BY <1>3 DEF Fails, Succeeds, Writes, Answering, Pushing, Weaker, Sure, ToRead, IsInstruction
<1>6. Typed(<<ReadLock(o)>>, cx, Free(TRUE), x) /\ Typed(<<NeedSymbols(o, r.n)>>, cx, x, x) /\ Weaker(Free(TRUE), x)
  BY Shapes, TypedObserving, Orders
<1> HIDE DEF x, up
<1>7. Typed(IfNot(t, up), cx, x, x)
  BY <1>2, <1>4, <1>5, TypedIfNot
<1>8. Typed(If("register" \in given, IfNot(t, up)), cx, x, x)
  BY <1>7, TypedNothing DEF If
<1>9. Typed(<<ReadLock(o)>> \o If("register" \in given, IfNot(t, up)) \o <<NeedSymbols(o, r.n)>>, cx, Free(TRUE), x)
  BY <1>6, <1>8, TypedConcat
<1>10. Typed(ImportPolynomial(r, given, o), cx, Free(TRUE), x)
  BY <1>9 DEF ImportPolynomial, up, t, Upgraded
<1>11. QED BY <1>6, <1>10, TypedWeaker, WeakerOrder

LEMMA TypedBinary ==
  ASSUME NEW cx, NEW o \in cx.systems, o = cx.on, NEW r
  PROVE  Typed(BinaryOperation(r, o), cx, Free(TRUE), Free(TRUE))
<1>1. Typed(Reading(o, NeedMatrix(o, r.n)), cx, Free(TRUE), Free(FALSE))
  BY TypedNeeding, TypedReading
<1>2. Typed(Writing(o, Push(o)), cx, Free(FALSE), Free(TRUE))
  <2>1. NoKey # Raw
    BY DEF NoKey, Raw
  <2>2. Typed(<<Push(o)>>, cx, ToWrite(o, FALSE), ToWrite(o, TRUE))
    BY <2>1, TypedPush
  <2>3. QED BY <2>2, TypedWriting
<1>3. Typed(<<Peek(o)>>, cx, Free(TRUE), Free(TRUE))
  BY TypedObserving
<1>4. QED BY <1>1, <1>2, <1>3, TypedConcat DEF BinaryOperation

LEMMA TypedRules ==
  ASSUME NEW cx, NEW o \in cx.systems, NEW r, NEW given
  PROVE  /\ Typed(CreateMomentRules(r, given, o), cx, Free(TRUE), Free(TRUE))
         /\ Typed(ApplyMomentRules(r, o), cx, Free(TRUE), Free(TRUE))
         /\ Typed(MomentRules(r, o), cx, Free(TRUE), Free(TRUE))
         /\ Typed(MomentRuleSuperset(r, o), cx, Free(TRUE), Free(TRUE))
<1> DEFINE x == ToRead(o, TRUE)  f == Free(TRUE)
           book == IF "rulebook" \in given THEN MergeBook(o, r.n) ELSE AddBook(o)
           first == IF "info" \in given THEN <<Peek(o)>> ELSE NewRulebook(r, given, o) \o Writing(o, book)
<1>1. /\ Typed(<<Look(o)>>, cx, x, x) /\ Typed(<<Peek(o)>>, cx, f, f)
      /\ Typed(<<NeedBook(o, r.n)>>, cx, x, x) /\ Typed(<<NeedBook(o, 0)>>, cx, x, x)
      /\ Typed(<<NeedSymbols(o, r.n)>>, cx, x, x) /\ Typed(<<NeedWords(o, r.key)>>, cx, x, x)
  <2>1. Typed(<<NeedBook(o, 0)>>, cx, x, x)
    BY TypedObserving
  <2>2. Typed(<<NeedBook(o, r.n)>>, cx, x, x) /\ Typed(<<NeedSymbols(o, r.n)>>, cx, x, x)
    BY TypedObserving
  <2>3. Typed(<<NeedWords(o, r.key)>>, cx, x, x)
    BY TypedObserving
  <2>4. QED BY <2>1, <2>2, <2>3, TypedObserving
<1>2. Typed(<<ReadLock(o)>>, cx, f, x) /\ Weaker(f, x)
  BY Shapes, Orders
<1>3. /\ Typed(<<Register(o, r.key)>>, cx, ToWrite(o, TRUE), ToWrite(o, TRUE))
      /\ Typed(<<book>>, cx, ToWrite(o, TRUE), ToWrite(o, TRUE))
  <2>1. Typed(<<Register(o, r.key)>>, cx, ToWrite(o, TRUE), ToWrite(o, TRUE))
    BY WriteOne DEF Register
  <2>2. Typed(<<MergeBook(o, r.n)>>, cx, ToWrite(o, TRUE), ToWrite(o, TRUE))
    BY WriteOne DEF MergeBook
  <2>3. Typed(<<AddBook(o)>>, cx, ToWrite(o, TRUE), ToWrite(o, TRUE))
    BY WriteOne DEF AddBook
  <2>4. QED BY <2>1, <2>2, <2>3
<1>4. Typed(NewRulebook(r, given, o), cx, f, f)
  BY <1>1, <1>3, TypedReading, TypedWriting DEF NewRulebook
<1>5. Typed(Writing(o, book), cx, f, f)
  BY <1>3, TypedWriting
<1>6. Typed(first, cx, f, f)
  BY <1>1, <1>4, <1>5, TypedConcat
<1>7. CreateMomentRules(r, given, o) = first \o <<ReadLock(o), Look(o)>>
  BY DEF CreateMomentRules
<1>8. Typed(MomentRules(r, o), cx, f, f)
  BY <1>1, TypedReading DEF MomentRules
<1> HIDE DEF x, f, first, book
<1>9. /\ Typed(<<ReadLock(o), Look(o)>>, cx, f, x)
      /\ Typed(ApplyMomentRules(r, o), cx, f, x)
      /\ Typed(MomentRuleSuperset(r, o), cx, f, x)
  BY <1>1, <1>2, TypedTwo, TypedThree DEF ApplyMomentRules, MomentRuleSuperset
<1>10. Typed(CreateMomentRules(r, given, o), cx, f, x)
  BY <1>6, <1>7, <1>9, TypedConcat
<1>11. QED BY <1>2, <1>8, <1>9, <1>10, TypedWeaker, WeakerOrder DEF f

LEMMA TypedSymmetrized ==
  ASSUME NEW cx, NEW o \in cx.systems, NEW r
  PROVE  Typed(SymmetrizedMatrixSystem(r, o), cx, Free(TRUE), Free(TRUE))
<1> DEFINE x == ToRead(o, TRUE)  f == Free(TRUE)  up == Upgraded(o, Register(o, <<"words", r.n>>))
<1>1. Typed(<<Register(o, <<"words", r.n>>)>>, cx, ToWrite(o, TRUE), ToWrite(o, TRUE))
  BY WriteOne DEF Register
<1>2. Typed(up, cx, x, x)
  BY <1>1, TypedUpgraded
<1>3. /\ Typed(<<ReadLock(o)>>, cx, f, x) /\ Typed(<<ReadLock(o)>>, cx, x, x) /\ Weaker(f, x)
      /\ Typed(<<StoreDerived(o, r.n)>>, cx, x, x)
  BY Shapes, Orders, TypedObserving
<1> HIDE DEF x, f, up
<1>4. Typed(If(r.n > 0, up), cx, x, x)
  BY <1>2, TypedNothing DEF If
<1>5. Typed(<<ReadLock(o), StoreDerived(o, r.n)>>, cx, x, x)
  BY <1>3, TypedTwo
<1>6. Typed(<<ReadLock(o)>> \o If(r.n > 0, up) \o <<ReadLock(o), StoreDerived(o, r.n)>>, cx, f, x)
  BY <1>3, <1>4, <1>5, TypedConcat
<1>7. Typed(SymmetrizedMatrixSystem(r, o), cx, f, x)
  BY <1>6 DEF SymmetrizedMatrixSystem, up, Upgraded
<1>8. QED BY <1>3, <1>7, TypedWeaker, WeakerOrder DEF f

(* Tensors.                                                                *)
LEMMA TypedRefresh ==
  ASSUME NEW cx, NEW o \in cx.systems, NEW tensor \in {"cg", "fc", "pt"}
  PROVE  Typed(Refresh(tensor, o), cx, ToRead(o, TRUE), ToRead(o, TRUE))
<1> DEFINE x == ToRead(o, TRUE)
           has == Has(o, tensor)  complete == Complete(o, tensor)
           fill == Upgraded(o, FillTensor(o, tensor))  make == Upgraded(o, MakeTensor(o, tensor))
<1>1. <<tensor>>[1] \in {"cg", "fc", "pt"}
  OBVIOUS
<1>2. /\ Typed(<<FillTensor(o, tensor)>>, cx, ToWrite(o, TRUE), ToWrite(o, TRUE))
      /\ Typed(<<MakeTensor(o, tensor)>>, cx, ToWrite(o, TRUE), ToWrite(o, TRUE))
  BY <1>1, WriteOne DEF FillTensor, MakeTensor
<1>3. Typed(fill, cx, x, x) /\ Typed(make, cx, x, x)
  BY <1>2, TypedUpgraded
<1>4. make # <<>>
  <2> DEFINE i == MakeTensor(o, tensor)
  <2>1. <<Unlock(o), WriteLock(o), i, Unlock(o), ReadLock(o)>> # <<>>
    OBVIOUS
  <2>2. QED BY <2>1 DEF Upgraded
<1>5. IsInstruction(has, "has", o, <<tensor>>, 0) /\ IsInstruction(complete, "complete", o, <<tensor>>, 0)
  BY Instructions DEF Has, Complete
<1> HIDE DEF has, complete, fill, make
<1>6. Permitted(has, cx, x) /\ Permitted(complete, cx, x)
  BY <1>5 DEF Permitted, Reads, Writes, Sure, ToRead, IsInstruction
<1>7. /\ Weaker(x, Fails(has, cx, x)) /\ Weaker(x, Succeeds(has, cx, x))
      /\ Weaker(x, Fails(complete, cx, x)) /\ Weaker(x, Succeeds(complete, cx, x))
  BY <1>5 DEF Fails, Succeeds, Writes, Answering, Pushing, Weaker, Sure, ToRead, IsInstruction
<1> HIDE DEF x
<1>8. Typed(IfNot(complete, fill), cx, x, x)
  BY <1>3, <1>6, <1>7, TypedIfNot
<1>9. Typed(IfElse(has, IfNot(complete, fill), make), cx, x, x)
  BY <1>3, <1>4, <1>6, <1>7, <1>8, TypedIfElse, WeakerOrder
<1>10. QED BY <1>9 DEF Refresh, x, has, complete, fill, make

LEMMA TypedTensors ==
  ASSUME NEW cx, NEW o \in cx.systems, Unnamed(cx), NEW r
  PROVE  /\ Typed(CollinsGisin(o), cx, Free(TRUE), Free(TRUE))
         /\ Typed(FullCorrelator(r, o), cx, Free(TRUE), Free(TRUE))
         /\ Typed(ProbabilityTable(o), cx, Free(TRUE), Free(TRUE))
         /\ Typed(MakeExplicit(o), cx, Free(TRUE), Free(TRUE))
<1> DEFINE x == ToRead(o, TRUE)  f == Free(TRUE)
<1>1. /\ Typed(Refresh("cg", o), cx, x, x) /\ Typed(Refresh("fc", o), cx, x, x) /\ Typed(Refresh("pt", o), cx, x, x)
  BY TypedRefresh
<1>2. /\ Typed(<<NeedTensor(o, "cg")>>, cx, x, x) /\ Typed(<<NeedTensor(o, "fc")>>, cx, x, x)
      /\ Typed(<<NeedTensor(o, "pt")>>, cx, x, x)
  BY AnswerOne DEF NeedTensor
<1>3. Typed(<<ReadLock(o)>>, cx, f, x) /\ Weaker(f, x)
  BY Shapes, Orders
<1> HIDE DEF x, f
<1>4. /\ Typed(RefreshCollinsGisin(o), cx, x, x)
      /\ Typed(RefreshFullCorrelator(o), cx, x, x)
      /\ Typed(RefreshProbabilityTensor(o), cx, x, x)
  BY <1>1, TypedConcat DEF RefreshCollinsGisin, RefreshFullCorrelator, RefreshProbabilityTensor
<1>5. Typed(CollinsGisin(o), cx, f, x)
  BY <1>2, <1>3, <1>4, TypedConcat DEF CollinsGisin
<1>6. Typed(ProbabilityTable(o), cx, f, x)
  BY <1>2, <1>3, <1>4, TypedConcat DEF ProbabilityTable
<1>7. Typed(FullCorrelator(r, o), cx, f, x)
  <2> DEFINE more == IF r.n = 0 THEN RefreshFullCorrelator(o) ELSE RefreshProbabilityTensor(o)
  <2>1. Typed(more, cx, x, x)
    BY <1>4
  <2> HIDE DEF more
  <2>2. QED BY <2>1, <1>2, <1>3, TypedConcat DEF FullCorrelator, more
<1>8. QED BY <1>3, <1>5, <1>6, <1>7, TypedWeaker, WeakerOrder DEF f, MakeExplicit

-----------------------------------------------------------------------------
(* Functions that begin with a call of a system, and run a program on it.  *)
WithProgram == DOMAIN FunctionTable \ (DOMAIN SystemKinds \cup WithoutSystem \cup {"list", "release"})

LEMMA ProgramFunctions ==
  WithProgram \subseteq
    {"make_representation", "lattice_symmetrize", "operator_matrix", "value_matrix", "moment_matrix",
     "substituted_matrix", "localizing_matrix", "commutator_matrix", "extended_matrix", "import_matrix",
     "transform_matrix", "suggest_extensions", "generate_basis", "symbol_table", "word_list",
     "import_polynomial", "transform_symbols", "conjugate", "simplify", "echo_operand", "multiply", "plus",
     "commutator", "create_moment_rules", "apply_moment_rules", "moment_rules", "moment_rule_superset",
     "operator_rules", "collins_gisin", "full_correlator", "probability_table", "make_explicit",
     "symmetrized_matrix_system"}
<1> DEFINE fn == DOMAIN FunctionTable
<1>1. DOMAIN FunctionTable \subseteq
    {"algebraic_matrix_system", "alphabetic_name", "apply_moment_rules", "collins_gisin", "convert_tensor",
     "commutator", "commutator_matrix", "complete", "conjugate", "echo_matrix", "create_moment_rules",
     "echo_operand", "extended_matrix", "flatten_indices", "full_correlator", "generate_basis", "list",
     "import_matrix", "import_polynomial", "logging", "imported_matrix_system", "make_explicit",
     "inflation_matrix_system", "moment_rules", "lattice_symmetrize", "moment_matrix", "localizing_matrix",
     "multiply", "locality_matrix_system", "operator_matrix", "make_representation", "operator_rules",
     "moment_rule_superset", "plus", "pauli_matrix_system", "release", "probability_table", "settings",
     "simplify", "symbol_table", "substituted_matrix", "transform_matrix", "suggest_extensions",
     "value_matrix", "symmetrized_matrix_system", "version", "transform_symbols", "word_list"}
  BY DEF FunctionTable
<1>2. DOMAIN SystemKinds = {"locality_matrix_system", "algebraic_matrix_system", "imported_matrix_system",
                            "inflation_matrix_system", "pauli_matrix_system"}
  BY DEF SystemKinds
<1>3. QED BY <1>1, <1>2 DEF WithProgram, WithoutSystem

LEMMA TypedMatrices ==
  ASSUME NEW cx, NEW o \in cx.systems, o = cx.on, NEW r, NEW given
  PROVE  /\ Typed(ValueMatrix(o), cx, Free(TRUE), Free(TRUE))
         /\ Typed(ImportMatrix(r, o), cx, Free(TRUE), Free(TRUE))
         /\ r.key = cx.key /\ cx.key # Raw => Typed(SubstitutedMatrix(r, o), cx, Free(TRUE), Free(TRUE))
         /\ Unnamed(cx) => Typed(OperatorMatrix(r, o), cx, Free(TRUE), Free(TRUE))
         /\ Unnamed(cx) => Typed(GenerateBasis(r, o), cx, Free(TRUE), Free(TRUE))
         /\ Typed(SuggestExtensions(r, o), cx, Free(TRUE), Free(TRUE))
         /\ Typed(EchoOperand(o), cx, Free(TRUE), Free(TRUE))
<1>1. NoKey # Raw
  BY DEF NoKey, Raw
<1>2. Typed(<<Push(o)>>, cx, ToWrite(o, TRUE), ToWrite(o, TRUE)) /\ Typed(<<Import(o, r.n)>>, cx, ToWrite(o, TRUE), ToWrite(o, TRUE))
  <2>1. Typed(<<Import(o, r.n)>>, cx, ToWrite(o, TRUE), ToWrite(o, TRUE))
    BY <1>1, TypedPush
  <2>2. QED BY <1>1, <2>1, TypedPush
<1>3. Typed(Writing(o, Push(o)), cx, Free(TRUE), Free(TRUE)) /\ Typed(Writing(o, Import(o, r.n)), cx, Free(TRUE), Free(TRUE))
  BY <1>2, TypedWriting
<1>4. Typed(ValueMatrix(o), cx, Free(TRUE), Free(TRUE))
  BY <1>3, TypedLooking, TypedConcat DEF ValueMatrix
<1>5. Typed(<<Peek(o)>>, cx, Free(TRUE), Free(TRUE))
  BY TypedObserving
<1>6. Typed(ImportMatrix(r, o), cx, Free(TRUE), Free(TRUE))
  BY <1>3, <1>5, TypedConcat DEF ImportMatrix
<1>7. ASSUME r.key = cx.key, cx.key # Raw
      PROVE  Typed(SubstitutedMatrix(r, o), cx, Free(TRUE), Free(TRUE))
  BY <1>7, TypedCreate, TypedWriting DEF SubstitutedMatrix
<1>8. ASSUME Unnamed(cx)
      PROVE  Typed(Reading(o, NeedMatrix(o, r.n)), cx, Free(TRUE), Free(TRUE))
  BY <1>8, TypedNeeding, TypedReading
<1>9. Typed(<<NeedKey(o, r.key)>>, cx, ToRead(o, TRUE), ToRead(o, TRUE))
  BY TypedObserving
<1>10. Typed(SuggestExtensions(r, o), cx, Free(TRUE), Free(TRUE))
  BY <1>9, TypedReading DEF SuggestExtensions
<1>11. QED BY <1>4, <1>5, <1>6, <1>7, <1>8, <1>10 DEF OperatorMatrix, GenerateBasis, EchoOperand

(* Every program has its locks for what it does, and answers for what it   *)
(* was asked.                                                              *)
LEMMA ProgramTyped ==
  ASSUME NEW cx, NEW o, NEW b, Around(cx, o, b), Around(cx, o, NoSource),
         NEW r, r.fn \in WithProgram, KeySuits(r), cx.key = r.key,
         r.fn = "import_polynomial" => r.n \in cx.largest,
         NEW given, NEW kind
  PROVE  Typed(Program(r, given, o, b, kind), cx, Free(TRUE), Free(TRUE))
<1> DEFINE f == Free(TRUE)  export == ExportMatrix(given, o)
<1>1. o = cx.on /\ o \in cx.systems /\ b \in cx.systems
  BY DEF Around
<1>2. Typed(export, cx, f, f) /\ Typed(<<>>, cx, f, f) /\ Typed(Reading(o, Look(o)), cx, f, f)
  BY <1>1, TypedExport, TypedNothing, TypedLooking
<1>3. \A p : Typed(p, cx, f, f) => Typed(p \o export, cx, f, f)
  BY <1>2, TypedConcat
<1>4. CASE r.fn \in {"make_representation", "lattice_symmetrize"}
  <2>1. Typed(<<>>, cx, f, f)
    BY <1>4, <1>1, <1>2
  <2>2. Program(r, given, o, b, kind) = <<>>
    BY <1>4 DEF Program
  <2>3. QED BY <2>1, <2>2
<1>5. CASE r.fn = "operator_matrix"
  <2>1. Typed(OperatorMatrix(r, o), cx, f, f)
    BY <1>5, <1>1, <1>2, TypedMatrices DEF KeySuits, Unnamed
  <2>2. Program(r, given, o, b, kind) = OperatorMatrix(r, o) \o export
    BY <1>5 DEF Program
  <2> HIDE DEF f, export
  <2>3. QED BY <2>1, <2>2, <1>3 DEF f
<1>6. CASE r.fn = "value_matrix"
  <2>1. Typed(ValueMatrix(o), cx, f, f)
    BY <1>6, <1>1, <1>2, TypedMatrices
  <2>2. Program(r, given, o, b, kind) = ValueMatrix(o) \o export
    BY <1>6 DEF Program
  <2> HIDE DEF f, export
  <2>3. QED BY <2>1, <2>2, <1>3 DEF f
<1>7. CASE r.fn = "moment_matrix"
  <2>1. Typed(MomentMatrix(r, o, b), cx, f, f)
    BY <1>7, <1>1, <1>2, TypedMakeMatrix DEF KeySuits, MomentMatrix
  <2>2. Program(r, given, o, b, kind) = MomentMatrix(r, o, b) \o export
    BY <1>7 DEF Program
  <2> HIDE DEF f, export
  <2>3. QED BY <2>1, <2>2, <1>3 DEF f
<1>8. CASE r.fn = "substituted_matrix"
  <2>1. Typed(SubstitutedMatrix(r, o), cx, f, f)
    BY <1>8, <1>1, <1>2, TypedMatrices DEF KeySuits
  <2>2. Program(r, given, o, b, kind) = SubstitutedMatrix(r, o) \o export
    BY <1>8 DEF Program
  <2> HIDE DEF f, export
  <2>3. QED BY <2>1, <2>2, <1>3 DEF f
<1>9. CASE r.fn = "localizing_matrix"
  <2>1. Typed(LocalizingMatrix(r, given, o, b, kind = "lattice"), cx, f, f)
    BY <1>9, <1>1, <1>2, TypedLocalizing DEF KeySuits
  <2>2. Program(r, given, o, b, kind) = LocalizingMatrix(r, given, o, b, kind = "lattice") \o export
    BY <1>9 DEF Program
  <2> HIDE DEF f, export
  <2>3. QED BY <2>1, <2>2, <1>3 DEF f
<1>10. CASE r.fn = "commutator_matrix"
  <2>1. Typed(CommutatorMatrix(r, given, o, kind = "lattice"), cx, f, f)
    BY <1>10, <1>1, <1>2, TypedLocalizing DEF KeySuits, CommutatorMatrix
  <2>2. Program(r, given, o, b, kind) = CommutatorMatrix(r, given, o, kind = "lattice") \o export
    BY <1>10 DEF Program
  <2> HIDE DEF f, export
  <2>3. QED BY <2>1, <2>2, <1>3 DEF f
<1>11. CASE r.fn = "extended_matrix"
  <2>1. Typed(ExtendedMatrix(r, given, o), cx, f, f)
    BY <1>11, <1>1, <1>2, TypedExtended DEF KeySuits
  <2>2. Program(r, given, o, b, kind) = ExtendedMatrix(r, given, o) \o export
    BY <1>11 DEF Program
  <2> HIDE DEF f, export
  <2>3. QED BY <2>1, <2>2, <1>3 DEF f
<1>12. CASE r.fn = "import_matrix"
  <2>1. Typed(ImportMatrix(r, o), cx, f, f)
    BY <1>12, <1>1, <1>2, TypedMatrices
  <2>2. Program(r, given, o, b, kind) = ImportMatrix(r, o)
    BY <1>12 DEF Program
  <2>3. QED BY <2>1, <2>2
<1>13. CASE r.fn = "transform_matrix"
  <2>1. Typed(TransformMatrix(r, o, b), cx, f, f)
    BY <1>13, <1>1, <1>2, TypedTransform DEF KeySuits, Unnamed
  <2>2. Program(r, given, o, b, kind) = TransformMatrix(r, o, b)
    BY <1>13 DEF Program
  <2>3. QED BY <2>1, <2>2
<1>14. CASE r.fn = "suggest_extensions"
  <2>1. Typed(SuggestExtensions(r, o), cx, f, f)
    BY <1>14, <1>1, <1>2, TypedMatrices
  <2>2. Program(r, given, o, b, kind) = SuggestExtensions(r, o)
    BY <1>14 DEF Program
  <2>3. QED BY <2>1, <2>2
<1>15. CASE r.fn = "generate_basis"
  <2>1. Typed(GenerateBasis(r, o), cx, f, f)
    BY <1>15, <1>1, <1>2, TypedMatrices DEF KeySuits, Unnamed
  <2>2. Program(r, given, o, b, kind) = GenerateBasis(r, o)
    BY <1>15 DEF Program
  <2>3. QED BY <2>1, <2>2
<1>16. CASE r.fn = "symbol_table"
  <2>1. Typed(SymbolTable(o), cx, f, f)
    BY <1>16, <1>1, <1>2 DEF SymbolTable
  <2>2. Program(r, given, o, b, kind) = SymbolTable(o)
    BY <1>16 DEF Program
  <2>3. QED BY <2>1, <2>2
<1>17. CASE r.fn = "word_list"
  <2>1. Typed(WordList(r, given, o), cx, f, f)
    BY <1>17, <1>1, <1>2, TypedWordList
  <2>2. Program(r, given, o, b, kind) = WordList(r, given, o)
    BY <1>17 DEF Program
  <2>3. QED BY <2>1, <2>2
<1>18. CASE r.fn = "import_polynomial"
  <2>1. Typed(ImportPolynomial(r, given, o), cx, f, f)
    BY <1>18, <1>1, <1>2, TypedImportPolynomial
  <2>2. Program(r, given, o, b, kind) = ImportPolynomial(r, given, o)
    BY <1>18 DEF Program
  <2>3. QED BY <2>1, <2>2
<1>19. CASE r.fn = "transform_symbols"
  <2>1. Typed(TransformSymbols(o, b), cx, f, f)
    BY <1>19, <1>1, <1>2, TypedTransformSymbols
  <2>2. Program(r, given, o, b, kind) = TransformSymbols(o, b)
    BY <1>19 DEF Program
  <2>3. QED BY <2>1, <2>2
<1>20. CASE r.fn = "conjugate"
  <2>1. Typed(Conjugate(o), cx, f, f)
    BY <1>20, <1>1, <1>2 DEF Conjugate
  <2>2. Program(r, given, o, b, kind) = Conjugate(o)
    BY <1>20 DEF Program
  <2>3. QED BY <2>1, <2>2
<1>21. CASE r.fn = "simplify"
  <2>1. Typed(Simplify(o), cx, f, f)
    BY <1>21, <1>1, <1>2 DEF Simplify
  <2>2. Program(r, given, o, b, kind) = Simplify(o)
    BY <1>21 DEF Program
  <2>3. QED BY <2>1, <2>2
<1>22. CASE r.fn = "echo_operand"
  <2>1. Typed(EchoOperand(o), cx, f, f)
    BY <1>22, <1>1, <1>2, TypedMatrices
  <2>2. Program(r, given, o, b, kind) = EchoOperand(o)
    BY <1>22 DEF Program
  <2>3. QED BY <2>1, <2>2
<1>23. CASE r.fn = "create_moment_rules"
  <2>1. Typed(CreateMomentRules(r, given, o), cx, f, f)
    BY <1>23, <1>1, <1>2, TypedRules
  <2>2. Program(r, given, o, b, kind) = CreateMomentRules(r, given, o)
    BY <1>23 DEF Program
  <2>3. QED BY <2>1, <2>2
<1>24. CASE r.fn = "apply_moment_rules"
  <2>1. Typed(ApplyMomentRules(r, o), cx, f, f)
    BY <1>24, <1>1, <1>2, TypedRules
  <2>2. Program(r, given, o, b, kind) = ApplyMomentRules(r, o)
    BY <1>24 DEF Program
  <2>3. QED BY <2>1, <2>2
<1>25. CASE r.fn = "moment_rules"
  <2>1. Typed(MomentRules(r, o), cx, f, f)
    BY <1>25, <1>1, <1>2, TypedRules
  <2>2. Program(r, given, o, b, kind) = MomentRules(r, o)
    BY <1>25 DEF Program
  <2>3. QED BY <2>1, <2>2
<1>26. CASE r.fn = "moment_rule_superset"
  <2>1. Typed(MomentRuleSuperset(r, o), cx, f, f)
    BY <1>26, <1>1, <1>2, TypedRules
  <2>2. Program(r, given, o, b, kind) = MomentRuleSuperset(r, o)
    BY <1>26 DEF Program
  <2>3. QED BY <2>1, <2>2
<1>27. CASE r.fn = "operator_rules"
  <2>1. Typed(OperatorRules(o), cx, f, f)
    BY <1>27, <1>1, <1>2 DEF OperatorRules
  <2>2. Program(r, given, o, b, kind) = OperatorRules(o)
    BY <1>27 DEF Program
  <2>3. QED BY <2>1, <2>2
<1>28. CASE r.fn = "collins_gisin"
  <2>1. Typed(CollinsGisin(o), cx, f, f)
    BY <1>28, <1>1, <1>2, TypedTensors DEF KeySuits, Unnamed
  <2>2. Program(r, given, o, b, kind) = CollinsGisin(o)
    BY <1>28 DEF Program
  <2>3. QED BY <2>1, <2>2
<1>29. CASE r.fn = "full_correlator"
  <2>1. Typed(FullCorrelator(r, o), cx, f, f)
    BY <1>29, <1>1, <1>2, TypedTensors DEF KeySuits, Unnamed
  <2>2. Program(r, given, o, b, kind) = FullCorrelator(r, o)
    BY <1>29 DEF Program
  <2>3. QED BY <2>1, <2>2
<1>30. CASE r.fn = "probability_table"
  <2>1. Typed(ProbabilityTable(o), cx, f, f)
    BY <1>30, <1>1, <1>2, TypedTensors DEF KeySuits, Unnamed
  <2>2. Program(r, given, o, b, kind) = ProbabilityTable(o)
    BY <1>30 DEF Program
  <2>3. QED BY <2>1, <2>2
<1>31. CASE r.fn = "make_explicit"
  <2>1. Typed(MakeExplicit(o), cx, f, f)
    BY <1>31, <1>1, <1>2, TypedTensors DEF KeySuits, Unnamed
  <2>2. Program(r, given, o, b, kind) = MakeExplicit(o)
    BY <1>31 DEF Program
  <2>3. QED BY <2>1, <2>2
<1>32. CASE r.fn = "symmetrized_matrix_system"
  <2>1. Typed(SymmetrizedMatrixSystem(r, o), cx, f, f)
    BY <1>32, <1>1, <1>2, TypedSymmetrized
  <2>2. Program(r, given, o, b, kind) = SymmetrizedMatrixSystem(r, o)
    BY <1>32 DEF Program
  <2>3. QED BY <2>1, <2>2
<1>33. CASE r.fn \in {"multiply", "plus", "commutator"}
  <2>1. Typed(BinaryOperation(r, o), cx, f, f)
    BY <1>33, <1>1, <1>2, TypedBinary
  <2>2. Program(r, given, o, b, kind) = BinaryOperation(r, o)
    BY <1>33 DEF Program
  <2>3. QED BY <2>1, <2>2
<1>34. QED BY <1>4, <1>5, <1>6, <1>7, <1>8, <1>9, <1>10, <1>11, <1>12, <1>13, <1>14, <1>15, <1>16, <1>17, <1>18, <1>19, <1>20, <1>21, <1>22, <1>23, <1>24, <1>25, <1>26, <1>27, <1>28, <1>29, <1>30, <1>31, <1>32, <1>33, ProgramFunctions

-----------------------------------------------------------------------------
(* The bank on its own: what any client may do to it.                      *)
StorageNext ==
  \/ Store
  \/ \E i \in Keys : Release(i)
  \/ Clear
  \/ \E w \in Walkers : First(w) \/ NextItem(w) \/ EndWalk(w)

StorageType ==
  /\ stored \in Nat /\ nextID \in Nat
  /\ objects \subseteq Nat \X (1 .. stored)
  /\ \A p, q \in objects : p[1] = q[1] => p = q

(* What a walker is due to see and has not seen is still ahead of it.      *)
IsAhead(at, d) == \E p \in objects : p[1] > at /\ p[2] = d

WalkInv(w) ==
  /\ walk[w] \in [state : {"idle", "walking", "done"}, at : Int, seen : SUBSET Nat, due : SUBSET Nat]
  /\ walk[w].state = "walking" => \A d \in walk[w].due \ walk[w].seen : IsAhead(walk[w].at, d)
  /\ walk[w].state = "done" => walk[w].due \subseteq walk[w].seen

StorageInv == StorageType /\ walk = [w \in Walkers |-> walk[w]] /\ \A w \in Walkers : WalkInv(w)

-----------------------------------------------------------------------------
LEMMA LeastNatural ==
  ASSUME NEW S \in SUBSET Nat, S # {}
  PROVE  Min(S) \in S /\ \A x \in S : Min(S) <= x
<1>1. \E x \in S : \A y \in S : ~(<<y, x>> \in OpToRel(<, Nat))
  BY WFMin, NatLessThanWellFounded
<1>2. ASSUME NEW x \in Nat, NEW y \in Nat, y < x
      PROVE  <<y, x>> \in OpToRel(<, Nat)
  BY <1>2 DEF OpToRel
<1>3. \E x \in S : \A y \in S : x <= y
  <2>1. PICK x \in S : \A y \in S : ~(<<y, x>> \in OpToRel(<, Nat))
    BY <1>1
  <2>2. \A y \in S : ~(y < x)
    BY <1>2, <2>1
  <2>3. QED BY <2>2
<1>4. QED BY <1>3 DEF Min

(* The entry that first() and next() find.                                 *)
LEMMA UpperFact ==
  ASSUME StorageType, NEW at \in Int
  PROVE  \/ /\ \A p \in objects : ~(p[1] > at)
            /\ Upper(at) = <<EndIndex, NoObject>>
         \/ \E p \in objects : /\ p[1] > at /\ \A q \in objects : q[1] > at => p[1] <= q[1]
                               /\ Upper(at) = p /\ p[2] # NoObject
<1>1. CASE \A i \in Keys : ~(i > at)
  <2>1. \A p \in objects : p[1] \in Keys
    BY DEF Keys
  <2>2. QED BY <1>1, <2>1 DEF Upper
<1>2. CASE \E i \in Keys : i > at
  <2> DEFINE S == {k \in Keys : k > at}  i == Min(S)
  <2>1. S \in SUBSET Nat /\ S # {}
    BY <1>2 DEF Keys, StorageType
  <2>2. i \in S /\ \A k \in S : i <= k
    BY <2>1, LeastNatural
  <2> HIDE DEF S
  <2>3. i \in Keys /\ i > at /\ \A q \in objects : q[1] > at => i <= q[1]
    BY <2>2 DEF S, Keys
  <2>4. PICK p \in objects : p[1] = i
    BY <2>3 DEF Keys
  <2>5. ObjectAt(i) = p[2]
    BY <2>3, <2>4 DEF ObjectAt, StorageType
  <2>6. p = <<p[1], p[2]>> /\ p[2] \in 1 .. stored
    BY <2>4 DEF StorageType
  <2>7. Upper(at) = <<i, ObjectAt(i)>>
    BY <1>2 DEF Upper, S
  <2>8. QED BY <2>3, <2>4, <2>5, <2>6, <2>7 DEF NoObject, StorageType
<1>3. QED BY <1>1, <1>2

-----------------------------------------------------------------------------
LEMMA TypeKept ==
  ASSUME StorageType, StorageNext
  PROVE  StorageType'
<1> USE DEF StorageType
<1>1. CASE Store
  <2>1. nextID' \in Nat
    BY <1>1, PersistentStorageAssumption DEF Store
  <2>2. /\ stored' = stored + 1 /\ 1 .. stored \subseteq 1 .. stored' /\ stored' \in 1 .. stored'
    BY <1>1 DEF Store
  <2>3. CASE nextID \in Keys
    BY <1>1, <2>1, <2>2, <2>3 DEF Store
  <2>4. CASE nextID \notin Keys
    <3>1. objects' = objects \cup {<<nextID, stored'>>}
      BY <1>1, <2>4 DEF Store
    <3>2. \A p \in objects : p[1] # nextID
      BY <2>4 DEF Keys
    <3>3. QED BY <2>1, <2>2, <3>1, <3>2
  <2>5. QED BY <2>3, <2>4
<1>2. ASSUME NEW i \in Keys, Release(i)
      PROVE  StorageType'
  BY <1>2 DEF Release
<1>3. CASE Clear
  BY <1>3 DEF Clear
<1>4. ASSUME NEW w \in Walkers, First(w) \/ NextItem(w) \/ EndWalk(w)
      PROVE  StorageType'
  BY <1>4 DEF First, NextItem, EndWalk
<1>5. QED BY <1>1, <1>2, <1>3, <1>4 DEF StorageNext

(* Objects are added and taken away under a walker's feet.                 *)
LEMMA WalkKept ==
  ASSUME StorageInv, Store \/ (\E i \in Keys : Release(i)) \/ Clear
  PROVE  StorageInv'
<1> SUFFICES walk' = [w \in Walkers |-> walk'[w]] /\ \A w \in Walkers : WalkInv(w)'
  BY TypeKept DEF StorageInv, StorageNext
<1>1. CASE Store
  <2>1. objects \subseteq objects' /\ walk' = walk
    BY <1>1 DEF Store
  <2>2. QED BY <2>1 DEF StorageInv, WalkInv, IsAhead
<1>2. ASSUME NEW i \in Keys, Release(i)
      PROVE  walk' = [w \in Walkers |-> walk'[w]] /\ \A w \in Walkers : WalkInv(w)'
  <2>1. walk' = [w \in Walkers |-> [walk[w] EXCEPT !.due = @ \ {ObjectAt(i)}]]
    BY <1>2 DEF Release
  <2>2. ASSUME NEW w \in Walkers PROVE WalkInv(w)'
    <3>1. walk'[w] = [state |-> walk[w].state, at |-> walk[w].at, seen |-> walk[w].seen,
                      due |-> walk[w].due \ {ObjectAt(i)}]
      BY <2>1 DEF StorageInv, WalkInv
    <3>2. ASSUME NEW p \in objects, p[2] # ObjectAt(i)
          PROVE  p \in objects'
      <4>1. p[1] # i
        BY <1>2, <3>2 DEF ObjectAt, StorageInv, StorageType, Keys
      <4>2. QED BY <1>2, <4>1 DEF Release
    <3>3. QED BY <3>1, <3>2 DEF StorageInv, WalkInv, IsAhead
  <2>3. QED BY <2>1, <2>2
<1>3. CASE Clear
  <2>1. walk' = [w \in Walkers |-> [walk[w] EXCEPT !.due = {}]]
    BY <1>3 DEF Clear
  <2>2. ASSUME NEW w \in Walkers PROVE WalkInv(w)'
    <3>1. walk'[w] = [state |-> walk[w].state, at |-> walk[w].at, seen |-> walk[w].seen, due |-> {}]
      BY <2>1 DEF StorageInv, WalkInv
    <3>2. QED BY <3>1 DEF StorageInv, WalkInv
  <2>3. QED BY <2>1, <2>2
<1>4. QED BY <1>1, <1>2, <1>3

(* A walker moves on to the least entry above: it skips none that is due.  *)
LEMMA WalkMoves ==
  ASSUME StorageInv, NEW w \in Walkers, First(w) \/ NextItem(w) \/ EndWalk(w)
  PROVE  StorageInv'
<1>1. SUFFICES WalkInv(w)'
  BY TypeKept DEF StorageInv, StorageNext, WalkInv, IsAhead, First, NextItem, EndWalk
<1>2. CASE First(w) \/ NextItem(w)
  <2> DEFINE before == IF First(w) THEN -1 ELSE walk[w].at
             was    == IF First(w) THEN {} ELSE walk[w].seen
             wants  == IF First(w) THEN {p[2] : p \in objects} ELSE walk[w].due
             r      == Upper(before)
  <2>1. walk'[w] = [state |-> IF r[2] = NoObject THEN "done" ELSE "walking", at |-> r[1],
                    seen |-> was \cup ({r[2]} \ {NoObject}), due |-> wants]
    BY <1>2 DEF First, NextItem, StorageInv
  <2>2. before \in Int /\ \A d \in wants \ was : IsAhead(before, d)
    BY <1>2 DEF NextItem, StorageInv, StorageType, WalkInv, IsAhead
  <2>3. objects' = objects /\ objects \subseteq Nat \X (1 .. stored) /\ StorageType
    BY <1>2 DEF First, NextItem, StorageInv, StorageType
  <2>4. was \in SUBSET Nat /\ wants \in SUBSET Nat
    BY <1>2, <2>3 DEF StorageInv, StorageType, WalkInv
  <2> HIDE DEF before, was, wants
  <2>5. CASE /\ \A p \in objects : ~(p[1] > before)
             /\ r = <<EndIndex, NoObject>>
    <3>1. wants \subseteq was /\ EndIndex \in Int
      BY <2>2, <2>5, PersistentStorageAssumption DEF IsAhead, EndIndex
    <3>2. r[1] = EndIndex /\ r[2] = NoObject /\ was \cup ({r[2]} \ {NoObject}) = was
      BY <2>5
    <3>3. walk'[w] = [state |-> "done", at |-> EndIndex, seen |-> was, due |-> wants]
      BY <2>1, <3>2
    <3>4. QED BY <2>4, <3>1, <3>3 DEF WalkInv
  <2>6. CASE \E p \in objects : /\ p[1] > before /\ \A q \in objects : q[1] > before => p[1] <= q[1]
                                /\ r = p /\ p[2] # NoObject
    <3>1. PICK p \in objects : /\ p[1] > before /\ \A q \in objects : q[1] > before => p[1] <= q[1]
                               /\ r = p /\ p[2] # NoObject
      BY <2>6
    <3>2. ASSUME NEW d \in wants \ (was \cup {p[2]})
          PROVE  IsAhead(p[1], d)
      <4>1. PICK q \in objects : q[1] > before /\ q[2] = d
        BY <2>2, <3>2 DEF IsAhead
      <4>2. p[1] <= q[1] /\ q[1] # p[1]
        BY <2>3, <3>1, <4>1, <3>2 DEF StorageType
      <4>3. p[1] \in Nat /\ q[1] \in Nat
        BY <2>3
      <4>4. q[1] > p[1]
        BY <4>2, <4>3
      <4>5. QED BY <4>1, <4>4 DEF IsAhead
    <3>3. p[1] \in Int /\ p[2] \in Nat
      BY <2>3
    <3>4. walk'[w] = [state |-> "walking", at |-> p[1], seen |-> was \cup {p[2]}, due |-> wants]
      BY <2>1, <3>1
    <3>5. \A d \in wants \ (was \cup {p[2]}) : \E q \in objects' : q[1] > p[1] /\ q[2] = d
      BY <2>3, <3>2 DEF IsAhead
    <3>6. walk'[w] \in [state : {"idle", "walking", "done"}, at : Int, seen : SUBSET Nat, due : SUBSET Nat]
      <4>1. was \cup {p[2]} \in SUBSET Nat
        BY <2>4, <3>3
      <4>2. QED BY <2>4, <3>3, <3>4, <4>1
    <3>7. QED BY <3>4, <3>5, <3>6 DEF WalkInv, IsAhead
  <2>7. QED BY <2>2, <2>3, <2>5, <2>6, UpperFact
<1>3. CASE EndWalk(w)
  BY <1>3 DEF EndWalk, WalkInv, StorageInv
<1>4. QED BY <1>2, <1>3

-----------------------------------------------------------------------------
(* Clients use the bank only through its operations.                       *)
LEMMA UsesTheBank ==
  ASSUME [SessionNext]_<<vars, sessionVars>>
  PROVE  StorageNext \/ UNCHANGED vars
<1> USE DEF StorageNext
<1>1. ASSUME NEW c \in Walkers, Step(c)
      PROVE  StorageNext \/ UNCHANGED vars
  <2>1. CASE TakeReadLock(c) \/ TakeWriteLock(c) \/ Throw(c) \/ Do(c)
    BY <2>1 DEF TakeReadLock, TakeWriteLock, Throw, Do
  <2>2. CASE StoreSymmetrized(c)
    BY <2>2 DEF StoreSymmetrized
  <2>3. CASE ListNext(c) \/ EndList(c)
    BY <2>3 DEF ListNext, EndList
  <2>4. QED BY <1>1, <2>1, <2>2, <2>3 DEF Step
<1>2. ASSUME NEW c \in Walkers, NEW r \in scenario.requests, Call(c, r)
      PROVE  StorageNext \/ UNCHANGED vars
  <2>1. CASE Refuse(c, r) \/ Begin(c, r)
    BY <2>1 DEF Refuse, Begin
  <2>2. CASE CreateSystem(c, r) \/ BeginList(c, r)
    BY <2>2 DEF CreateSystem, BeginList
  <2>3. CASE ReleaseSystem(c, r)
    BY <2>3 DEF ReleaseSystem, Release
  <2>4. QED BY <1>2, <2>1, <2>2, <2>3 DEF Call
<1>3. CASE ClearMtk
  BY <1>3 DEF ClearMtk
<1>4. CASE Stop \/ UNCHANGED <<vars, sessionVars>>
  BY <1>4 DEF Stop
<1>5. QED BY <1>1, <1>2, <1>3, <1>4 DEF SessionNext

LEMMA StorageInvariant == SessionSpec => []StorageInv
<1>1. SessionInit => StorageInv
  <2> SUFFICES ASSUME SessionInit PROVE StorageInv
    OBVIOUS
  <2>1. stored \in Nat /\ nextID = stored /\ objects = {<<i - 1, i>> : i \in 1 .. stored}
    BY ScenariosAssumption DEF SessionInit
  <2>2. StorageType
    BY <2>1 DEF StorageType
  <2>3. QED BY <2>2 DEF SessionInit, StorageInv, WalkInv
<1>2. StorageInv /\ [SessionNext]_<<vars, sessionVars>> => StorageInv'
  <2> SUFFICES ASSUME StorageInv, [SessionNext]_<<vars, sessionVars>> PROVE StorageInv'
    OBVIOUS
  <2>1. CASE StorageNext
    BY <2>1, WalkKept, WalkMoves DEF StorageNext
  <2>2. CASE UNCHANGED vars
    BY <2>2 DEF vars, StorageInv, StorageType, WalkInv, IsAhead
  <2>3. QED BY <2>1, <2>2, UsesTheBank
<1>3. QED BY <1>1, <1>2, PTL DEF SessionSpec

(* A walk through the bank misses nothing that stays there for its whole   *)
(* length, although the lock is released between its calls and others store *)
(* and release meanwhile.                                                  *)
THEOREM WalksAreComplete == SessionSpec => []WalkIsComplete
<1>1. StorageInv => WalkIsComplete
  BY DEF StorageInv, WalkInv, WalkIsComplete
<1>2. QED BY <1>1, StorageInvariant, PTL

-----------------------------------------------------------------------------
(* The state of a call, `p', and the systems that are stored, `S'.         *)
Cx(p, S) == [systems |-> 0 .. Len(S), on |-> p.on, key |-> p.r.key, largest |-> Largest]

(* The answer so far is none, or that of the matrix asked for, or of one   *)
(* that no index knows.                                                    *)
RightAnswer(p, S) ==
  \/ p.answer = -1
  \/ p.r.key \in {NoKey, <<"tensor">>}
  \/ /\ p.on \in DOMAIN S
     /\ p.answer \in 0 .. Len(S[p.on].matrices) - 1
     /\ S[p.on].matrices[p.answer + 1] \in {p.r.key, Raw}

IsAbsent(S, a) == a[1] \in DOMAIN S => ~IsMade(S[a[1]], a[2])

(* What is sure does hold.                                                 *)
Meets(read, write, right, S, h) ==
  /\ h.read \subseteq read \cup write
  /\ h.write \subseteq write
  /\ \A a \in h.absent : a[1] \in write /\ IsAbsent(S, a)
  /\ h.right => right

Sat(p, S, h) == Meets(p.read, p.write, RightAnswer(p, S), S, h)

CallInv(p, S) ==
  /\ p.r.key \in {NoKey, <<"tensor">>} \/ p.on \in DOMAIN S
  /\ \E H : Typing(p.todo, Cx(p, S), H) /\ Sat(p, S, H[1]) /\ H[Len(p.todo) + 1].right

-----------------------------------------------------------------------------
LEMMA WeakerSat ==
  ASSUME NEW p, NEW S, NEW a, NEW b, Weaker(a, b), Sat(p, S, b)
  PROVE  Sat(p, S, a)
  BY DEF Weaker, Sat, Meets

LEMMA PlaceInSuffix ==
  ASSUME NEW l \in Nat, NEW m \in 1 .. l + 1, NEW i \in 1 .. l + 1 - m
  PROVE  m + i - 1 \in 1 .. l
  OBVIOUS

LEMMA TypingSuffix ==
  ASSUME NEW q, NEW cx, NEW H, Typing(q, cx, H), NEW m \in 1 .. Len(q) + 1
  PROVE  \E G : /\ Typing(SubSeq(q, m, Len(q)), cx, G)
                /\ G[1] = H[m]
                /\ G[Len(SubSeq(q, m, Len(q))) + 1] = H[Len(q) + 1]
<1> DEFINE s == SubSeq(q, m, Len(q))
           G == [i \in 1 .. Len(q) + 2 - m |-> H[m + i - 1]]
<1>1. IsSeq(q) /\ Len(q) \in Nat
  BY SeqFacts DEF Typing
<1>2. /\ IsSeq(s) /\ Len(s) = Len(q) + 1 - m
      /\ \A i \in 1 .. Len(q) + 1 - m : s[i] = q[m + i - 1]
  BY <1>1, SubSeqFacts
<1>3. \A i \in 1 .. Len(q) + 2 - m : G[i] = H[m + i - 1]
  OBVIOUS
<1>4. G[1] = H[m]
  <2>1. 1 \in 1 .. Len(q) + 2 - m /\ m + 1 - 1 = m
    BY <1>1
  <2> HIDE DEF G
  <2>2. QED BY <2>1, <1>3
<1> HIDE DEF s, G
<1>5. G[Len(s) + 1] = H[Len(q) + 1]
  <2>1. Len(s) + 1 \in 1 .. Len(q) + 2 - m /\ m + (Len(s) + 1) - 1 = Len(q) + 1
    BY <1>1, <1>2
  <2>2. QED BY <2>1, <1>3
<1>6. ASSUME NEW i \in 1 .. Len(s)
      PROVE  /\ Permitted(s[i], cx, G[i])
             /\ s[i].skip \in 0 .. Len(s) - i
             /\ Weaker(G[i + 1], Fails(s[i], cx, G[i]))
             /\ Weaker(G[i + 1 + s[i].skip], Succeeds(s[i], cx, G[i]))
  <2>1. PICK k \in 1 .. Len(q) : k = m + i - 1
    <3>1. Len(q) \in Nat /\ i \in 1 .. Len(q) + 1 - m
      BY <1>1, <1>2
    <3>2. m + i - 1 \in 1 .. Len(q)
      BY <3>1, PlaceInSuffix
    <3>3. QED BY <3>2
  <2>2. s[i] = q[k] /\ G[i] = H[k]
    BY <1>1, <1>2, <1>3, <2>1
  <2>3. /\ Permitted(q[k], cx, H[k])
        /\ q[k].skip \in 0 .. Len(q) - k
        /\ Weaker(H[k + 1], Fails(q[k], cx, H[k]))
        /\ Weaker(H[k + 1 + q[k].skip], Succeeds(q[k], cx, H[k]))
    BY DEF Typing
  <2>4. ASSUME NEW n \in 0 .. Len(q) - k
        PROVE  G[i + 1 + n] = H[k + 1 + n] /\ n \in 0 .. Len(s) - i
    <3>1. /\ i + 1 + n \in 1 .. Len(q) + 2 - m /\ m + (i + 1 + n) - 1 = k + 1 + n
          /\ n \in 0 .. Len(s) - i
      BY <1>1, <1>2, <2>1
    <3>2. G[i + 1 + n] = H[m + (i + 1 + n) - 1]
      BY <3>1, <1>3
    <3>3. QED BY <3>1, <3>2
  <2>5. s[i].skip \in 0 .. Len(s) - i /\ G[i + 1 + s[i].skip] = H[k + 1 + q[k].skip] /\ G[i + 1] = H[k + 1]
    <3>1. 0 \in 0 .. Len(q) - k
      BY <1>1
    <3>2. G[i + 1 + 0] = H[k + 1 + 0]
      BY <2>4, <3>1
    <3>3. i + 1 + 0 = i + 1 /\ k + 1 + 0 = k + 1
      BY <1>1, <1>2, <2>1
    <3>4. q[k].skip \in 0 .. Len(q) - k
      BY <2>3
    <3>5. G[i + 1 + q[k].skip] = H[k + 1 + q[k].skip] /\ q[k].skip \in 0 .. Len(s) - i
      BY <2>4, <3>4
    <3>6. QED BY <2>2, <3>2, <3>3, <3>5
  <2>6. QED BY <2>2, <2>3, <2>5
<1>7. Typing(s, cx, G)
  BY <1>2, <1>6 DEF Typing
<1>8. QED BY <1>4, <1>5, <1>7 DEF s

(* There may be more systems.                                              *)
LEMMA TypingMore ==
  ASSUME NEW q, NEW cx, NEW dx, NEW H, Typing(q, cx, H),
         cx.systems \subseteq dx.systems, dx.on = cx.on, dx.key = cx.key, dx.largest = cx.largest
  PROVE  Typing(q, dx, H)
<1>1. \A i : Names(i, dx) = Names(i, cx)
  BY DEF Names, Unnamed
<1>2. ASSUME NEW i, NEW h
      PROVE  Succeeds(i, dx, h) = Succeeds(i, cx, h)
  BY <1>1 DEF Succeeds
<1>3. ASSUME NEW i, NEW h
      PROVE  Fails(i, dx, h) = Fails(i, cx, h)
  BY <1>2 DEF Fails
<1>4. ASSUME NEW i, NEW h, Permitted(i, cx, h)
      PROVE  Permitted(i, dx, h)
  BY <1>4 DEF Permitted
<1>5. QED BY <1>2, <1>3, <1>4 DEF Typing

LEMMA AheadFacts ==
  ASSUME NEW q, IsSeq(q)
  PROVE  \/ Ahead(q) = 0 /\ \A j \in 1 .. Len(q) : q[j].do = "unlock"
         \/ /\ Ahead(q) \in 1 .. Len(q)
            /\ \A j \in 1 .. Ahead(q) - 1 : q[j].do = "unlock"
<1> DEFINE I == {j \in 1 .. Len(q) : q[j].do # "unlock"}
<1>1. Ahead(q) = IF I # {} THEN Min(I) ELSE 0
  BY DEF Ahead, SelectInSeq
<1>2. Len(q) \in Nat
  BY SeqFacts
<1>3. CASE I = {}
  BY <1>1, <1>3
<1>4. CASE I # {}
  <2>1. I \in SUBSET Nat
    BY <1>2
  <2> HIDE DEF I
  <2>2. Min(I) \in I /\ \A x \in I : Min(I) <= x
    BY <1>4, <2>1, LeastNatural
  <2>3. Ahead(q) \in I /\ \A x \in I : Ahead(q) <= x
    BY <1>1, <1>4, <2>2
  <2>4. Ahead(q) \in 1 .. Len(q)
    BY <2>3 DEF I
  <2>5. ASSUME NEW j \in 1 .. Ahead(q) - 1
        PROVE  q[j].do = "unlock"
    <3>1. j \in 1 .. Len(q) /\ ~(Ahead(q) <= j)
      BY <1>2, <2>4
    <3>2. j \notin I
      BY <2>3, <3>1
    <3>3. QED BY <3>1, <3>2 DEF I
  <2>6. QED BY <2>4, <2>5
<1>5. QED BY <1>3, <1>4

-----------------------------------------------------------------------------
(* A call after an instruction.                                            *)
CallFields == DOMAIN Idle
IsCall(p)  == p = [f \in CallFields |-> p[f]]

Unlocked(q, m) == {q[j].on : j \in 1 .. m}

LEMMA UnlockOne ==
  ASSUME NEW i, i.do = "unlock", NEW cx, NEW h, NEW R, NEW W, NEW g, NEW S, Meets(R, W, g, S, h)
  PROVE  Meets(R \ {i.on}, W \ {i.on}, g, S, Fails(i, cx, h))
<1>1. "matrices" \notin Writes(i)
  BY DEF Writes
<1>2. /\ Fails(i, cx, h).read = h.read \ {i.on} /\ Fails(i, cx, h).write = h.write \ {i.on}
      /\ Fails(i, cx, h).absent = Away(h.absent, i.on)
      /\ Fails(i, cx, h).right = h.right
  BY <1>1 DEF Fails, Succeeds, Answering, Pushing
<1>3. QED BY <1>2 DEF Meets, Away

LEMMA UnlockSome ==
  ASSUME NEW q, NEW cx, NEW H, Typing(q, cx, H), NEW R, NEW W, NEW g, NEW S, Meets(R, W, g, S, H[1]),
         NEW n \in 0 .. Len(q), \A j \in 1 .. n : q[j].do = "unlock"
  PROVE  Meets(R \ Unlocked(q, n), W \ Unlocked(q, n), g, S, H[n + 1])
<1> DEFINE Good(m) == Meets(R \ Unlocked(q, m), W \ Unlocked(q, m), g, S, H[m + 1])
           B == {m \in 0 .. n : ~Good(m)}
<1>1. Len(q) \in Nat
  BY SeqFacts DEF Typing
<1>2. SUFFICES ASSUME B # {} PROVE FALSE
  <2>1. n \in 0 .. n
    BY <1>1
  <2>2. n \notin B => Good(n)
    BY <2>1
  <2> HIDE DEF B
  <2>3. QED BY <2>2
<1>3. B \in SUBSET Nat
  OBVIOUS
<1>4. PICK m \in B : \A x \in B : m <= x
  <2> HIDE DEF B
  <2>1. Min(B) \in B /\ \A x \in B : Min(B) <= x
    BY <1>2, <1>3, LeastNatural
  <2>2. QED BY <2>1
<1>5. m # 0
  <2>1. Unlocked(q, 0) = {}
    BY DEF Unlocked
  <2>2. R \ {} = R /\ W \ {} = W /\ 0 + 1 = 1
    OBVIOUS
  <2>3. Good(0)
    BY <2>1, <2>2
  <2>4. QED BY <2>3
<1>6. PICK k \in 0 .. n : k + 1 = m /\ k \notin B
  <2>1. m - 1 \in 0 .. n /\ (m - 1) + 1 = m /\ ~(m <= m - 1)
    BY <1>1, <1>5
  <2> HIDE DEF B
  <2>2. QED BY <2>1, <1>4
<1>7. Good(k)
  BY <1>6
<1>8. m \in 1 .. Len(q) /\ q[m].do = "unlock"
  BY <1>1, <1>5
<1>9. Weaker(H[m + 1], Fails(q[m], cx, H[m]))
  BY <1>8 DEF Typing
<1>10. Unlocked(q, m) = Unlocked(q, k) \cup {q[m].on}
  <2>1. 1 .. m = 1 .. k \cup {m}
    BY <1>6
  <2>2. QED BY <2>1 DEF Unlocked
<1>11. Meets((R \ Unlocked(q, k)) \ {q[m].on}, (W \ Unlocked(q, k)) \ {q[m].on}, g, S, Fails(q[m], cx, H[m]))
  BY <1>6, <1>7, <1>8, UnlockOne
<1>12. Meets(R \ Unlocked(q, m), W \ Unlocked(q, m), g, S, Fails(q[m], cx, H[m]))
  <2>1. \A X : (X \ Unlocked(q, k)) \ {q[m].on} = X \ Unlocked(q, m)
    BY <1>10
  <2>2. QED BY <2>1, <1>11
<1>13. Good(m)
  BY <1>9, <1>12 DEF Meets, Weaker
<1>14. QED BY <1>13

LEMMA TypingRest ==
  ASSUME NEW q, NEW cx, NEW H, Typing(q, cx, H), H[Len(q) + 1].right, NEW n, n \in 0 .. Len(q) - 1
  PROVE  \E G : /\ Typing(SubSeq(q, n + 2, Len(q)), cx, G) /\ G[1] = H[n + 2]
                /\ G[Len(SubSeq(q, n + 2, Len(q))) + 1].right
<1>1. Len(q) \in Nat
  BY SeqFacts DEF Typing
<1>2. PICK m \in 1 .. Len(q) + 1 : m = n + 2
  BY <1>1
<1>3. PICK G : /\ Typing(SubSeq(q, m, Len(q)), cx, G) /\ G[1] = H[m]
               /\ G[Len(SubSeq(q, m, Len(q))) + 1] = H[Len(q) + 1]
  BY TypingSuffix
<1>4. QED BY <1>2, <1>3

LEMMA ProceedFacts ==
  ASSUME NEW p, IsCall(p), NEW S, NEW cx, NEW H, Typing(p.todo, cx, H),
         H[Len(p.todo) + 1].right, NEW n, n \in 0 .. Len(p.todo) - 1, Sat(p, S, H[n + 2])
  PROVE  LET z == Proceed(p, n)
         IN  /\ IsCall(z)
             /\ z.read \subseteq p.read /\ z.write \subseteq p.write
             /\ z.answer = p.answer /\ z.r = p.r /\ z.on = p.on
             /\ \E G : Typing(z.todo, cx, G) /\ Sat(z, S, G[1]) /\ G[Len(z.todo) + 1].right
<1> DEFINE z == Proceed(p, n)  rest == SubSeq(p.todo, n + 2, Len(p.todo))  left == Left(rest)
           k == Ahead(rest)  g == RightAnswer(p, S)
<1>1. Len(p.todo) \in Nat /\ n + 2 \in 1 .. Len(p.todo) + 1
  BY SeqFacts DEF Typing
<1>2. PICK F : /\ Typing(rest, cx, F) /\ F[1] = H[n + 2] /\ F[Len(rest) + 1].right
  BY TypingRest
<1>3. z = [p EXCEPT !.todo = left, !.read = IF left = <<>> THEN {} ELSE @ \ Released(rest),
                    !.write = IF left = <<>> THEN {} ELSE @ \ Released(rest)]
  BY DEF Proceed
<1>4. {"todo", "read", "write", "answer", "r", "on"} \subseteq CallFields
  BY DEF CallFields, Idle
<1> HIDE DEF z, left, CallFields
<1>5. /\ IsCall(z)
      /\ z.answer = p.answer /\ z.r = p.r /\ z.on = p.on /\ z.todo = left
      /\ z.read = (IF left = <<>> THEN {} ELSE p.read \ Released(rest))
      /\ z.write = (IF left = <<>> THEN {} ELSE p.write \ Released(rest))
  BY <1>3, <1>4 DEF IsCall
<1>6. RightAnswer(z, S) <=> g
  BY <1>5 DEF RightAnswer
<1>7. Meets(p.read, p.write, g, S, F[1])
  BY <1>2 DEF Sat
<1>8. IsSeq(rest) /\ Len(rest) \in Nat
  BY <1>2, SeqFacts DEF Typing
<1> HIDE DEF rest, g
<1>9. CASE k = 0 /\ \A j \in 1 .. Len(rest) : rest[j].do = "unlock"
  <2>1. left = <<>>
    BY <1>9 DEF left, Left
  <2>2. Meets(p.read \ Unlocked(rest, Len(rest)), p.write \ Unlocked(rest, Len(rest)), g, S, F[Len(rest) + 1])
    <3>1. Len(rest) \in 0 .. Len(rest)
      BY <1>8
    <3>2. QED BY <3>1, <1>2, <1>7, <1>9, UnlockSome
  <2>3. g
    BY <2>2, <1>2 DEF Meets
  <2> DEFINE G == [i \in {1} |-> Free(TRUE)]
  <2>4. G[1] = Free(TRUE) /\ Len(<<>>) + 1 = 1 /\ Free(TRUE).right
    BY SmallSeqs DEF Free, Sure
  <2> HIDE DEF G
  <2>5. Typing(<<>>, cx, G)
    BY SmallSeqs DEF Typing
  <2>6. Sat(z, S, G[1])
    BY <2>3, <2>4, <1>6 DEF Sat, Meets, Free, Sure
  <2>7. /\ Typing(z.todo, cx, G) /\ Sat(z, S, G[1]) /\ G[Len(z.todo) + 1].right
        /\ z.read \subseteq p.read /\ z.write \subseteq p.write
    BY <2>1, <2>4, <2>5, <2>6, <1>5
  <2>8. QED BY <2>7, <1>5 DEF z
<1>10. CASE k \in 1 .. Len(rest) /\ \A j \in 1 .. k - 1 : rest[j].do = "unlock"
  <2>1. left = SubSeq(rest, k, Len(rest)) /\ k # 0
    BY <1>10 DEF left, Left
  <2>2. PICK G : Typing(left, cx, G) /\ G[1] = F[k] /\ G[Len(left) + 1].right
    <3>1. k \in 1 .. Len(rest) + 1
      BY <1>8, <1>10
    <3>2. QED BY <1>2, <2>1, <3>1, TypingSuffix
  <2>3. left # <<>>
    <3>1. Len(left) = Len(rest) + 1 - k /\ Len(rest) + 1 - k # 0
      <4>1. k \in 1 .. Len(rest) + 1
        BY <1>8, <1>10
      <4>2. QED BY <1>8, <1>10, <2>1, <4>1, SubSeqFacts
    <3>2. QED BY <3>1, SmallSeqs
  <2>4. Released(rest) = Unlocked(rest, k - 1)
    <3>1. {j \in DOMAIN rest : Ahead(rest) = 0 \/ j < Ahead(rest)} = 1 .. k - 1
      BY <1>8, <1>10, <2>1, SeqFacts
    <3>2. QED BY <3>1 DEF Released, Unlocked
  <2>5. Meets(p.read \ Unlocked(rest, k - 1), p.write \ Unlocked(rest, k - 1), g, S, F[k])
    <3>1. k - 1 \in 0 .. Len(rest) /\ (k - 1) + 1 = k
      BY <1>8, <1>10
    <3>2. Meets(p.read \ Unlocked(rest, k - 1), p.write \ Unlocked(rest, k - 1), g, S, F[(k - 1) + 1])
      BY <1>2, <1>7, <1>10, <3>1, UnlockSome
    <3>3. QED BY <3>1, <3>2
  <2>6. Sat(z, S, G[1])
    BY <2>2, <2>3, <2>4, <2>5, <1>5, <1>6 DEF Sat, Meets
  <2>7. z.read \subseteq p.read /\ z.write \subseteq p.write
    BY <1>5
  <2>8. QED BY <2>2, <2>6, <2>7, <1>5 DEF z
<1>11. QED BY <1>8, <1>9, <1>10, AheadFacts

-----------------------------------------------------------------------------
(* Matrices and their index.                                               *)
Filing(M, I) ==
  /\ IsSeq(M)
  /\ Raw \notin DOMAIN I
  /\ \A k \in DOMAIN I : I[k] \in 0 .. Len(M) - 1 /\ M[I[k] + 1] = k
  /\ \A i \in 1 .. Len(M) : M[i] = Raw \/ (M[i] \in DOMAIN I /\ I[M[i]] = i - 1)

LEMMA FileOne ==
  ASSUME NEW M, NEW I, Filing(M, I), NEW key, key # Raw, key \notin DOMAIN I
  PROVE  Filing(Append(M, key), Insert(I, key, Len(M)))
<1> DEFINE N == Append(M, key)  J == Insert(I, key, Len(M))
<1>1. IsSeq(M) /\ Len(M) \in Nat
  BY SeqFacts DEF Filing
<1>2. IsSeq(N) /\ Len(N) = Len(M) + 1 /\ (\A i \in 1 .. Len(M) : N[i] = M[i]) /\ N[Len(M) + 1] = key
  BY <1>1, AppendFacts
<1>3. /\ DOMAIN J = DOMAIN I \cup {key} /\ J[key] = Len(M)
      /\ \A k \in DOMAIN I : J[k] = I[k]
  BY DEF Insert
<1> HIDE DEF N, J
<1>4. ASSUME NEW k \in DOMAIN J
      PROVE  J[k] \in 0 .. Len(N) - 1 /\ N[J[k] + 1] = k
  <2>1. CASE k = key
    BY <2>1, <1>1, <1>2, <1>3
  <2>2. CASE k \in DOMAIN I
    <3>1. I[k] \in 0 .. Len(M) - 1 /\ M[I[k] + 1] = k /\ J[k] = I[k]
      BY <2>2, <1>3 DEF Filing
    <3>2. I[k] + 1 \in 1 .. Len(M)
      BY <3>1, <1>1
    <3>3. QED BY <3>1, <3>2, <1>1, <1>2
  <2>3. QED BY <2>1, <2>2, <1>3
<1>5. ASSUME NEW i \in 1 .. Len(N)
      PROVE  N[i] = Raw \/ (N[i] \in DOMAIN J /\ J[N[i]] = i - 1)
  <2>1. CASE i = Len(M) + 1
    BY <2>1, <1>1, <1>2, <1>3
  <2>2. CASE i \in 1 .. Len(M)
    BY <2>2, <1>2, <1>3 DEF Filing
  <2>3. QED BY <2>1, <2>2, <1>1, <1>2
<1>6. QED BY <1>2, <1>3, <1>4, <1>5 DEF Filing, N, J

LEMMA FileRaw ==
  ASSUME NEW M, NEW I, Filing(M, I)
  PROVE  Filing(Append(M, Raw), I)
<1> DEFINE N == Append(M, Raw)
<1>1. IsSeq(M) /\ Len(M) \in Nat
  BY SeqFacts DEF Filing
<1>2. IsSeq(N) /\ Len(N) = Len(M) + 1 /\ (\A i \in 1 .. Len(M) : N[i] = M[i]) /\ N[Len(M) + 1] = Raw
  BY <1>1, AppendFacts
<1> HIDE DEF N
<1>3. ASSUME NEW k \in DOMAIN I
      PROVE  I[k] \in 0 .. Len(N) - 1 /\ N[I[k] + 1] = k
  <2>1. I[k] \in 0 .. Len(M) - 1 /\ M[I[k] + 1] = k
    BY DEF Filing
  <2>2. I[k] + 1 \in 1 .. Len(M)
    BY <2>1, <1>1
  <2>3. QED BY <2>1, <2>2, <1>1, <1>2
<1>4. ASSUME NEW i \in 1 .. Len(N)
      PROVE  N[i] = Raw \/ (N[i] \in DOMAIN I /\ I[N[i]] = i - 1)
  <2>1. CASE i = Len(M) + 1
    BY <2>1, <1>1, <1>2
  <2>2. CASE i \in 1 .. Len(M)
    BY <2>2, <1>2 DEF Filing
  <2>3. QED BY <2>1, <2>2, <1>1, <1>2
<1>5. QED BY <1>2, <1>3, <1>4 DEF Filing, N

(* New keys, none of which the index has.                                  *)
Fresh(new, I) ==
  /\ IsSeq(new)
  /\ \A i, j \in 1 .. Len(new) : new[i] = new[j] => i = j
  /\ \A i \in 1 .. Len(new) : new[i] # Raw /\ new[i] \notin DOMAIN I

Offset(M, new, k) == Len(M) + (CHOOSE i \in DOMAIN new : new[i] = k) - 1

LEMMA FileMany ==
  ASSUME NEW M, NEW I, Filing(M, I), NEW new, Fresh(new, I)
  PROVE  Filing(M \o new,
                [k \in DOMAIN I \cup Range(new) |-> IF k \in DOMAIN I THEN I[k] ELSE Offset(M, new, k)])
<1> DEFINE N == M \o new
           J == [k \in DOMAIN I \cup Range(new) |-> IF k \in DOMAIN I THEN I[k] ELSE Offset(M, new, k)]
<1>1. IsSeq(M) /\ Len(M) \in Nat /\ IsSeq(new) /\ Len(new) \in Nat /\ DOMAIN new = 1 .. Len(new)
  BY SeqFacts DEF Filing, Fresh
<1>2. /\ IsSeq(N) /\ Len(N) = Len(M) + Len(new)
      /\ \A i \in 1 .. Len(M) : N[i] = M[i]
      /\ \A i \in 1 .. Len(new) : N[Len(M) + i] = new[i]
  <2>1. /\ IsSeq(N) /\ Len(N) = Len(M) + Len(new)
        /\ \A i \in 1 .. Len(M) + Len(new) : N[i] = IF i <= Len(M) THEN M[i] ELSE new[i - Len(M)]
    BY <1>1, ConcatFacts
  <2> HIDE DEF N
  <2>2. ASSUME NEW i \in 1 .. Len(new)
        PROVE  N[Len(M) + i] = new[i]
    <3>1. Len(M) + i \in 1 .. Len(M) + Len(new) /\ ~(Len(M) + i <= Len(M)) /\ (Len(M) + i) - Len(M) = i
      BY <1>1
    <3>2. N[Len(M) + i] = new[(Len(M) + i) - Len(M)]
      BY <2>1, <3>1
    <3>3. QED BY <3>1, <3>2
  <2>3. QED BY <1>1, <2>1, <2>2
<1>3. /\ DOMAIN J = DOMAIN I \cup Range(new)
      /\ \A k \in DOMAIN I : J[k] = I[k]
      /\ \A i \in 1 .. Len(new) : new[i] \in DOMAIN J /\ J[new[i]] = Len(M) + i - 1
  <2>1. ASSUME NEW i \in 1 .. Len(new)
        PROVE  new[i] \in Range(new) /\ new[i] \notin DOMAIN I /\ Offset(M, new, new[i]) = Len(M) + i - 1
    <3>1. (CHOOSE j \in DOMAIN new : new[j] = new[i]) = i
      BY <1>1 DEF Fresh
    <3>2. QED BY <1>1, <3>1 DEF Fresh, Offset, Range
  <2>2. QED BY <2>1
<1>4. ASSUME NEW k \in Range(new)
      PROVE  \E i \in 1 .. Len(new) : new[i] = k
  BY <1>1 DEF Range
<1>5. Raw \notin Range(new)
  BY <1>4 DEF Fresh
<1> HIDE DEF N, J
<1>6. ASSUME NEW k \in DOMAIN J
      PROVE  J[k] \in 0 .. Len(N) - 1 /\ N[J[k] + 1] = k
  <2>1. CASE k \in Range(new)
    <3>1. PICK i \in 1 .. Len(new) : new[i] = k
      BY <2>1, <1>4
    <3>2. J[k] = Len(M) + i - 1 /\ J[k] + 1 = Len(M) + i /\ N[Len(M) + i] = k
      BY <3>1, <1>1, <1>2, <1>3
    <3>3. QED BY <3>2, <1>1, <1>2
  <2>2. CASE k \in DOMAIN I
    <3>1. I[k] \in 0 .. Len(M) - 1 /\ M[I[k] + 1] = k /\ J[k] = I[k]
      BY <2>2, <1>3 DEF Filing
    <3>2. I[k] + 1 \in 1 .. Len(M)
      BY <3>1, <1>1
    <3>3. QED BY <3>1, <3>2, <1>1, <1>2
  <2>3. QED BY <2>1, <2>2, <1>3
<1>7. ASSUME NEW i \in 1 .. Len(N)
      PROVE  N[i] = Raw \/ (N[i] \in DOMAIN J /\ J[N[i]] = i - 1)
  <2>1. CASE i \in 1 .. Len(M)
    BY <2>1, <1>2, <1>3 DEF Filing
  <2>2. CASE i \notin 1 .. Len(M)
    <3>1. PICK j \in 1 .. Len(new) : i = Len(M) + j
      <4>1. i - Len(M) \in 1 .. Len(new) /\ i = Len(M) + (i - Len(M))
        BY <2>2, <1>1, <1>2
      <4>2. QED BY <4>1
    <3>2. QED BY <3>1, <1>1, <1>2, <1>3
  <2>3. QED BY <2>1, <2>2
<1>8. QED BY <1>2, <1>3, <1>5, <1>6, <1>7 DEF Filing, N, J

-----------------------------------------------------------------------------
(* A system: its matrices are those of its index, and an imported one has  *)
(* the symbols up to one that a call named.                                *)
SystemFields == DOMAIN NewSystem("locality", 0, {})

IsSystem(S) == S = [f \in SystemFields |-> S[f]]

SystemInv(S, o) ==
  /\ IsSystem(S)
  /\ S.source \in 0 .. o - 1
  /\ Filing(S.matrices, S.index)
  /\ S.kind = "imported" => S.known = {0} /\ S.unnamed \in Largest

SameSymbols(S, T) == T.known = S.known /\ T.unnamed = S.unnamed

(* What an instruction may do to a system: add matrices.                   *)
Grown(S, T) ==
  /\ IsSystem(T)
  /\ T.kind = S.kind /\ T.source = S.source
  /\ Len(S.matrices) <= Len(T.matrices)
  /\ \A i \in 1 .. Len(S.matrices) : T.matrices[i] = S.matrices[i]

Alike(S, T) ==
  /\ IsSystem(T)
  /\ T.kind = S.kind /\ T.source = S.source /\ T.matrices = S.matrices /\ T.index = S.index

LEMMA Fields ==
  {"kind", "source", "matrices", "index", "known", "unnamed", "books", "cg", "fc", "pt", "complete"} = SystemFields
  BY DEF SystemFields, NewSystem

LEMMA SameOrder == \A R, S, T : SameSymbols(S, S) /\ (SameSymbols(R, S) /\ SameSymbols(S, T) => SameSymbols(R, T))
  BY DEF SameSymbols

LEMMA AlikeFacts ==
  ASSUME NEW S, NEW o, SystemInv(S, o), NEW T, Alike(S, T), SameSymbols(S, T)
  PROVE  SystemInv(T, o) /\ Grown(S, T)
<1>1. Len(S.matrices) \in Nat
  BY SeqFacts DEF SystemInv, Filing
<1>2. QED BY <1>1 DEF SystemInv, Grown, Alike, SameSymbols

LEMMA FilledAlike ==
  ASSUME NEW S, IsSystem(S), NEW t
  PROVE  Alike(S, Filled(S, t)) /\ SameSymbols(S, Filled(S, t))
<1> DEFINE T == [S EXCEPT !.complete = @ \cup {t}]
<1>1. Alike(S, T) /\ SameSymbols(S, T)
  BY Fields DEF Alike, SameSymbols, IsSystem
<1>2. Alike(S, S) /\ SameSymbols(S, S)
  BY SameOrder DEF Alike
<1> HIDE DEF T
<1>3. Filled(S, t) \in {S, T}
  BY DEF Filled, T
<1>4. QED BY <1>1, <1>2, <1>3

LEMMA TensorAlike ==
  ASSUME NEW S, IsSystem(S), NEW t \in {"cg", "fc", "pt"}
  PROVE  Alike(S, WithTensor(S, t)) /\ SameSymbols(S, WithTensor(S, t))
<1> DEFINE U == [S EXCEPT !.cg = @ + 1, !.complete = @ \ {"cg"}]  V == [S EXCEPT ![t] = S.cg]
<1>1. Alike(S, U) /\ SameSymbols(S, U)
  BY Fields DEF Alike, SameSymbols, IsSystem
<1>2. ASSUME t # "cg"
      PROVE  Alike(S, V) /\ SameSymbols(S, V)
  <2>1. IsSystem(V) /\ \A f \in SystemFields \ {t} : V[f] = S[f]
    BY DEF IsSystem
  <2>2. {"kind", "source", "matrices", "index", "known", "unnamed"} \subseteq SystemFields \ {t}
    BY Fields
  <2> HIDE DEF V
  <2>3. QED BY <2>1, <2>2 DEF Alike, SameSymbols
<1> HIDE DEF U, V
<1>3. CASE t = "cg"
  <2>1. WithTensor(S, t) = Filled(U, "cg")
    BY <1>3 DEF WithTensor, U
  <2>2. Alike(U, Filled(U, "cg")) /\ SameSymbols(U, Filled(U, "cg"))
    BY <1>1, FilledAlike DEF Alike
  <2>3. QED BY <2>1, <2>2, <1>1, SameOrder DEF Alike
<1>4. CASE t # "cg"
  <2>1. WithTensor(S, t) \in {S, Filled(V, t)}
    BY <1>4 DEF WithTensor, V
  <2>2. Alike(V, Filled(V, t)) /\ SameSymbols(V, Filled(V, t))
    BY <1>2, <1>4, FilledAlike DEF Alike
  <2>3. Alike(S, S) /\ SameSymbols(S, S)
    BY SameOrder DEF Alike
  <2>4. QED BY <2>1, <2>2, <2>3, <1>2, <1>4, SameOrder DEF Alike
<1>5. QED BY <1>3, <1>4

(* The parts of a matrix that are missing.                                 *)
LEMMA MissingFacts ==
  ASSUME NEW S, NEW key
  PROVE  Fresh(Missing(S, key), S.index) /\ key \notin Range(Missing(S, key))
<1>1. Fresh(<<>>, S.index) /\ key \notin Range(<<>>)
  BY SmallSeqs DEF Fresh, Range
<1>2. CASE Parts(key) = <<>>
  BY <1>1, <1>2 DEF Missing
<1>3. CASE Parts(key) # <<>>
  <2> DEFINE k == <<"localizing", key[2], 0>>  l == <<"localizing", key[2], 1>>
  <2>1. Parts(key) = <<k, l>> /\ <<k, l>>[1] = k /\ <<k, l>>[2] = l
    BY <1>3 DEF Parts
  <2>2. k # l /\ k # Raw /\ l # Raw
    <3>1. k[3] = 0 /\ l[3] = 1 /\ k[1] = "localizing" /\ l[1] = "localizing" /\ Raw[1] = "raw"
      BY DEF Raw
    <3> HIDE DEF k, l
    <3>2. QED BY <3>1
  <2> HIDE DEF k, l
  <2>3. Missing(S, key) = Absent(S, k) \o Absent(S, l)
    BY <2>1, <1>3 DEF Missing
  <2> DEFINE u == Absent(S, k)  v == Absent(S, l)
  <2>4. /\ IsSeq(u) /\ Len(u) \in {0, 1}
        /\ \A i \in 1 .. Len(u) : i = 1 /\ u[i] = k /\ k \notin DOMAIN S.index
    BY SmallSeqs DEF Absent, IsMade
  <2>5. /\ IsSeq(v) /\ Len(v) \in {0, 1}
        /\ \A i \in 1 .. Len(v) : i = 1 /\ v[i] = l /\ l \notin DOMAIN S.index
    BY SmallSeqs DEF Absent, IsMade
  <2> HIDE DEF u, v
  <2>6. /\ IsSeq(u \o v) /\ Len(u \o v) = Len(u) + Len(v)
        /\ \A i \in 1 .. Len(u) + Len(v) : (u \o v)[i] = IF i <= Len(u) THEN u[i] ELSE v[i - Len(u)]
    BY <2>4, <2>5, ConcatFacts
  <2>7. ASSUME NEW i \in 1 .. Len(u \o v)
        PROVE  \/ i \in 1 .. Len(u) /\ i = 1 /\ (u \o v)[i] = k /\ k \notin DOMAIN S.index
               \/ i \notin 1 .. Len(u) /\ i = Len(u) + 1 /\ (u \o v)[i] = l /\ l \notin DOMAIN S.index
    <3>1. CASE i \in 1 .. Len(u)
      BY <3>1, <2>4, <2>6
    <3>2. CASE i \notin 1 .. Len(u)
      <4>1. i - Len(u) \in 1 .. Len(v) /\ ~(i <= Len(u))
        BY <3>2, <2>4, <2>5, <2>6
      <4>2. i - Len(u) = 1 /\ v[i - Len(u)] = l /\ l \notin DOMAIN S.index
        BY <4>1, <2>5
      <4>3. i = Len(u) + 1
        BY <4>2, <2>4, <2>6
      <4>4. QED BY <3>2, <4>1, <4>2, <4>3, <2>6
    <3>3. QED BY <3>1, <3>2
  <2> DEFINE w == u \o v
  <2>8. \A i, j \in 1 .. Len(w) : w[i] = w[j] => i = j
    BY <2>2, <2>7
  <2>9. \A i \in 1 .. Len(w) : w[i] # Raw /\ w[i] \notin DOMAIN S.index
    BY <2>2, <2>7
  <2>10. Fresh(w, S.index)
    BY <2>6, <2>8, <2>9 DEF Fresh
  <2>11. key \notin Range(w)
    <3>1. key[1] = "polynomial" /\ k[1] = "localizing" /\ l[1] = "localizing"
      BY <1>3 DEF Parts, k, l
    <3>2. DOMAIN w = 1 .. Len(w)
      BY <2>6, SeqFacts
    <3> HIDE DEF w
    <3>3. QED BY <2>7, <3>1, <3>2 DEF Range, w
  <2>12. QED BY <2>3, <2>10, <2>11 DEF u, v
<1>4. QED BY <1>2, <1>3

-----------------------------------------------------------------------------
LEMMA GrownFacts ==
  ASSUME NEW S, NEW o, SystemInv(S, o), NEW T, IsSystem(T),
         T.kind = S.kind, T.source = S.source, S.kind = "imported" => SameSymbols(S, T),
         NEW new, IsSeq(new),
         T.matrices = S.matrices \o new, Filing(T.matrices, T.index)
  PROVE  SystemInv(T, o) /\ Grown(S, T)
<1>1. IsSeq(S.matrices) /\ Len(S.matrices) \in Nat /\ Len(new) \in Nat
  BY SeqFacts DEF SystemInv, Filing
<1>2. /\ Len(T.matrices) = Len(S.matrices) + Len(new)
      /\ \A i \in 1 .. Len(S.matrices) + Len(new) :
           T.matrices[i] = IF i <= Len(S.matrices) THEN S.matrices[i] ELSE new[i - Len(S.matrices)]
  <2> DEFINE M == S.matrices
  <2>1. IsSeq(M) /\ T.matrices = M \o new
    BY <1>1
  <2> HIDE DEF M
  <2>2. /\ Len(M \o new) = Len(M) + Len(new)
        /\ \A i \in 1 .. Len(M) + Len(new) : (M \o new)[i] = IF i <= Len(M) THEN M[i] ELSE new[i - Len(M)]
    BY <2>1, ConcatFacts
  <2>3. QED BY <2>1, <2>2 DEF M
<1>3. Grown(S, T)
  <2>1. Len(S.matrices) <= Len(T.matrices) /\ 1 .. Len(S.matrices) \subseteq 1 .. Len(S.matrices) + Len(new)
    BY <1>1, <1>2
  <2>2. ASSUME NEW i \in 1 .. Len(S.matrices)
        PROVE  T.matrices[i] = S.matrices[i]
    <3>1. i <= Len(S.matrices) /\ i \in 1 .. Len(S.matrices) + Len(new)
      BY <1>1, <2>1
    <3>2. QED BY <3>1, <1>2
  <2>3. QED BY <2>1, <2>2 DEF Grown
<1>4. SystemInv(T, o)
  BY DEF SystemInv, SameSymbols
<1>5. QED BY <1>3, <1>4

LEMMA GrownOne ==
  ASSUME NEW S, NEW o, SystemInv(S, o), NEW T, IsSystem(T),
         T.kind = S.kind, T.source = S.source, S.kind = "imported" => SameSymbols(S, T),
         NEW key, T.matrices = Append(S.matrices, key), Filing(T.matrices, T.index)
  PROVE  /\ SystemInv(T, o) /\ Grown(S, T)
         /\ Len(S.matrices) \in Nat /\ Len(T.matrices) = Len(S.matrices) + 1
         /\ T.matrices[Len(T.matrices)] = key
<1> DEFINE M == S.matrices  N == T.matrices
<1>1. IsSeq(M) /\ Len(M) \in Nat /\ N = Append(M, key)
  BY SeqFacts DEF SystemInv, Filing
<1> HIDE DEF M, N
<1>2. Len(N) = Len(M) + 1 /\ (\A i \in 1 .. Len(M) : N[i] = M[i]) /\ N[Len(M) + 1] = key
  BY <1>1, AppendFacts
<1>3. Grown(S, T)
  <2>1. Len(M) <= Len(N)
    BY <1>1, <1>2
  <2>2. Len(S.matrices) <= Len(T.matrices) /\ \A i \in 1 .. Len(S.matrices) : T.matrices[i] = S.matrices[i]
    BY <2>1, <1>2 DEF M, N
  <2>3. QED BY <2>2 DEF Grown
<1>4. SystemInv(T, o)
  BY DEF SystemInv, SameSymbols
<1>5. QED BY <1>1, <1>2, <1>3, <1>4 DEF M, N

LEMMA GrownOrder ==
  ASSUME NEW R, NEW S, NEW T, Grown(R, S), Grown(S, T),
         Len(R.matrices) \in Nat, Len(S.matrices) \in Nat, Len(T.matrices) \in Nat
  PROVE  Grown(R, T)
<1>1. Len(R.matrices) <= Len(T.matrices)
  BY DEF Grown
<1>2. ASSUME NEW i \in 1 .. Len(R.matrices)
      PROVE  T.matrices[i] = R.matrices[i]
  <2>1. i \in 1 .. Len(S.matrices)
    BY DEF Grown
  <2>2. QED BY <2>1 DEF Grown
<1>3. QED BY <1>1, <1>2 DEF Grown

(* Matrices of no index.                                                   *)
LEMMA PushedFacts ==
  ASSUME NEW S, NEW o, SystemInv(S, o)
  PROVE  LET T == Pushed(S, Raw)
         IN  /\ SystemInv(T, o) /\ Grown(S, T)
             /\ Len(S.matrices) \in Nat /\ Len(T.matrices) = Len(S.matrices) + 1
             /\ T.matrices[Len(T.matrices)] = Raw
<1> DEFINE T == Pushed(S, Raw)
<1>1. /\ IsSystem(T)
      /\ T.kind = S.kind /\ T.source = S.source /\ SameSymbols(S, T) /\ T.index = S.index
      /\ T.matrices = Append(S.matrices, Raw)
  BY Fields DEF Pushed, SystemInv, IsSystem, SameSymbols
<1> HIDE DEF T
<1>2. Filing(T.matrices, T.index)
  BY <1>1, FileRaw DEF SystemInv
<1>3. /\ SystemInv(T, o) /\ Grown(S, T)
      /\ Len(S.matrices) \in Nat /\ Len(T.matrices) = Len(S.matrices) + 1
      /\ T.matrices[Len(T.matrices)] = Raw
  BY <1>1, <1>2, GrownOne
<1>4. QED BY <1>3 DEF T

(* T is S with one matrix more, that is in the index.                      *)
Filed(S, key, T) ==
  /\ IsSystem(T)
  /\ T.kind = S.kind /\ T.source = S.source
  /\ S.kind = "imported" => SameSymbols(S, T)
  /\ T.matrices = Append(S.matrices, key)
  /\ T.index = Insert(S.index, key, Len(S.matrices))

Added(S, key) == [Pushed(S, key) EXCEPT !.index = Insert(@, key, Len(S.matrices))]

LEMMA Filers ==
  ASSUME NEW S, IsSystem(S), NEW key
  PROVE  Filed(S, key, Indexed(S, key)) /\ Filed(S, key, Added(S, key))
<1>1. Filed(S, key, Indexed(S, key))
  BY Fields DEF Indexed, Filed, NewWords, IsSystem, SameSymbols
<1>2. Filed(S, key, Added(S, key))
  <2>1. /\ Pushed(S, key) = [f \in SystemFields |-> Pushed(S, key)[f]]
        /\ \A f \in SystemFields \ {"matrices"} : Pushed(S, key)[f] = S[f]
        /\ Pushed(S, key).matrices = Append(S.matrices, key)
    BY Fields DEF Pushed, IsSystem
  <2>2. QED BY <2>1, Fields DEF Filed, Added, IsSystem, SameSymbols
<1>3. QED BY <1>1, <1>2

LEMMA FiledFacts ==
  ASSUME NEW S, NEW o, SystemInv(S, o), NEW key, key # Raw, ~IsMade(S, key), NEW T, Filed(S, key, T)
  PROVE  /\ SystemInv(T, o) /\ Grown(S, T)
         /\ Len(S.matrices) \in Nat /\ Len(T.matrices) = Len(S.matrices) + 1
         /\ T.matrices[Len(T.matrices)] = key
         /\ IsMade(T, key)
<1>1. Filing(T.matrices, T.index)
  <2>1. Filing(S.matrices, S.index) /\ key \notin DOMAIN S.index
    BY DEF SystemInv, IsMade
  <2>2. Filing(Append(S.matrices, key), Insert(S.index, key, Len(S.matrices)))
    BY <2>1, FileOne
  <2>3. QED BY <2>2 DEF Filed
<1>2. IsMade(T, key)
  BY DEF IsMade, Insert, Filed
<1>3. /\ IsSystem(T) /\ T.kind = S.kind /\ T.source = S.source
      /\ S.kind = "imported" => SameSymbols(S, T)
      /\ T.matrices = Append(S.matrices, key)
  BY DEF Filed
<1>4. /\ SystemInv(T, o) /\ Grown(S, T)
      /\ Len(S.matrices) \in Nat /\ Len(T.matrices) = Len(S.matrices) + 1
      /\ T.matrices[Len(T.matrices)] = key
  BY <1>1, <1>3, GrownOne
<1>5. QED BY <1>2, <1>4

LEMMA WithPartsFacts ==
  ASSUME NEW S, NEW o, SystemInv(S, o), NEW key
  PROVE  LET T == WithParts(S, key)
         IN  SystemInv(T, o) /\ Grown(S, T)
<1> DEFINE new == Missing(S, key)  T == WithParts(S, key)
           index == [k \in DOMAIN S.index \cup Range(new) |->
                       IF k \in DOMAIN S.index THEN S.index[k] ELSE Offset(S.matrices, new, k)]
           words == UNION {NewWords(S, k) : k \in Range(new)}
<1>1. T = [S EXCEPT !.matrices = @ \o new, !.index = index, !.known = @ \cup words]
  BY DEF WithParts, Offset
<1>2. S.kind = "imported" => words = {}
  BY DEF NewWords
<1> HIDE DEF T, new, index, words
<1>3. /\ IsSystem(T)
      /\ T.kind = S.kind /\ T.source = S.source /\ T.known = S.known \cup words
      /\ T.unnamed = S.unnamed /\ T.index = index /\ T.matrices = S.matrices \o new
  BY <1>1, Fields DEF SystemInv, IsSystem
<1>4. Fresh(new, S.index)
  BY MissingFacts DEF new
<1>5. Filing(S.matrices \o new, index)
  <2> DEFINE M == S.matrices  I == S.index
  <2>1. Filing(M, I) /\ Fresh(new, I)
    BY <1>4 DEF SystemInv
  <2> HIDE DEF M, I
  <2>2. Filing(M \o new, [k \in DOMAIN I \cup Range(new) |-> IF k \in DOMAIN I THEN I[k] ELSE Offset(M, new, k)])
    BY <2>1, FileMany
  <2>3. QED BY <2>2 DEF M, I, index
<1>6. /\ S.kind = "imported" => SameSymbols(S, T)
      /\ Filing(T.matrices, T.index) /\ IsSeq(new)
  BY <1>2, <1>3, <1>4, <1>5 DEF Fresh, SameSymbols
<1>7. SystemInv(T, o) /\ Grown(S, T)
  BY <1>3, <1>6, GrownFacts
<1>8. QED BY <1>7 DEF T

LEMMA WithPartsMade ==
  ASSUME NEW S, IsSystem(S), NEW key, ~IsMade(S, key)
  PROVE  ~IsMade(WithParts(S, key), key)
<1>1. key \notin Range(Missing(S, key))
  BY MissingFacts
<1>2. DOMAIN WithParts(S, key).index = DOMAIN S.index \cup Range(Missing(S, key))
  BY Fields DEF WithParts, IsSystem
<1>3. QED BY <1>1, <1>2 DEF IsMade

LEMMA LenFacts ==
  ASSUME NEW S, NEW o, SystemInv(S, o)
  PROVE  Len(S.matrices) \in Nat /\ Grown(S, S)
<1>1. Len(S.matrices) \in Nat
  BY SeqFacts DEF SystemInv, Filing
<1>2. QED BY <1>1 DEF Grown, SystemInv

LEMMA WithMatrixFacts ==
  ASSUME NEW S, NEW o, SystemInv(S, o), NEW key, key # Raw
  PROVE  LET T == WithMatrix(S, key)
         IN  SystemInv(T, o) /\ Grown(S, T) /\ IsMade(T, key)
<1>1. CASE IsMade(S, key)
  BY <1>1, LenFacts DEF WithMatrix
<1>2. CASE ~IsMade(S, key)
  <2> DEFINE U == WithParts(S, key)  T == Indexed(U, key)
  <2>1. SystemInv(U, o) /\ Grown(S, U) /\ ~IsMade(U, key)
    BY <1>2, WithPartsFacts, WithPartsMade DEF SystemInv
  <2> HIDE DEF U
  <2>2. Filed(U, key, T)
    BY <2>1, Filers DEF SystemInv
  <2> HIDE DEF T
  <2>3. SystemInv(T, o) /\ Grown(U, T) /\ IsMade(T, key)
    BY <2>1, <2>2, FiledFacts
  <2>4. Grown(S, T)
    <3>1. Len(S.matrices) \in Nat /\ Len(U.matrices) \in Nat /\ Len(T.matrices) \in Nat
      BY <2>1, <2>3, LenFacts
    <3>2. QED BY <2>1, <2>3, <3>1, GrownOrder
  <2>5. WithMatrix(S, key) = T
    BY <1>2 DEF WithMatrix, T, U
  <2>6. QED BY <2>3, <2>4, <2>5
<1>3. QED BY <1>1, <1>2

-----------------------------------------------------------------------------
(* What an instruction needs to be of a system.                            *)
Suitable(i, S) ==
  /\ i.do \in {"create", "append", "push polynomial"} => i.key # Raw
  /\ i.do = "append" => ~IsMade(S, i.key)
  /\ i.do = "create symbols" => i.n \in Largest
  /\ i.do \in {"make", "fill"} => i.key[1] \in {"cg", "fc", "pt"}

Changing == {"create", "append", "push", "import", "push polynomial", "register", "create symbols",
             "add book", "make", "fill"}

LEMMA LargestFacts ==
  ASSUME scenario \in Scenarios
  PROVE  Largest \subseteq Nat /\ 1 \in Largest
  BY ScenariosAssumption DEF Largest

LEMMA SymbolsFacts ==
  ASSUME NEW S, NEW o, SystemInv(S, o), S.kind = "imported"
  PROVE  Symbols(S) = 1 + S.unnamed
<1>1. Cardinality({0}) = 1
  BY FS_Singleton
<1>2. QED BY <1>1 DEF Symbols, SystemInv

LEMMA Enough ==
  ASSUME NEW n \in Nat, NEW u \in Nat
  PROVE  u + (n + 1 - (1 + u)) = n
  OBVIOUS

(* Symbols are added up to `n', if they are fewer.                         *)
LEMMA WithSymbolsFacts ==
  ASSUME scenario \in Scenarios, NEW S, NEW o, SystemInv(S, o), NEW n \in Largest
  PROVE  SystemInv(WithSymbols(S, n), o) /\ Grown(S, WithSymbols(S, n)) /\ WithSymbols(S, n).index = S.index
<1> DEFINE more == S.unnamed + (n + 1 - Symbols(S))  T == WithSymbols(S, n)
<1>1. T = [S EXCEPT !.unnamed = IF n + 1 > Symbols(S) THEN more ELSE @]
  BY DEF WithSymbols
<1>2. S.kind = "imported" => more \in Largest
  <2> SUFFICES ASSUME S.kind = "imported" PROVE more \in Largest
    OBVIOUS
  <2>1. S.unnamed \in Nat /\ n \in Nat
    BY LargestFacts DEF SystemInv
  <2>2. Symbols(S) = 1 + S.unnamed
    BY SymbolsFacts
  <2>3. S.unnamed + (n + 1 - (1 + S.unnamed)) = n
    BY <2>1, Enough
  <2>4. QED BY <2>2, <2>3
<1> HIDE DEF T, more
<1>3. IsSystem(T) /\ Alike(S, T) /\ T.known = S.known /\ T.unnamed \in {S.unnamed, more}
  BY <1>1, Fields DEF Alike, SystemInv, IsSystem
<1>4. SystemInv(T, o)
  BY <1>2, <1>3 DEF SystemInv, Alike
<1>5. Grown(S, T)
  BY <1>3, LenFacts DEF Grown, Alike
<1>6. QED BY <1>3, <1>4, <1>5 DEF T, Alike

LEMMA AfterFacts ==
  ASSUME scenario \in Scenarios, NEW S, NEW o, SystemInv(S, o), NEW i, Suitable(i, S)
  PROVE  LET T == After(i, S)
         IN  /\ SystemInv(T, o) /\ Grown(S, T)
             /\ "matrices" \notin Writes(i) => T.index = S.index
<1> DEFINE T == After(i, S)
           Result(V) == /\ SystemInv(V, o) /\ Grown(S, V)
                        /\ "matrices" \notin Writes(i) => V.index = S.index
<1>1. IsSystem(S)
  BY DEF SystemInv
<1>2. ASSUME NEW V, Alike(S, V), SameSymbols(S, V)
      PROVE  Result(V)
  BY <1>2, AlikeFacts DEF Alike
<1>3. CASE i.do = "create"
  <2>1. T = WithMatrix(S, i.key) /\ "matrices" \in Writes(i) /\ i.key # Raw
    BY <1>3 DEF After, Writes, Suitable
  <2>2. QED BY <2>1, WithMatrixFacts
<1>4. CASE i.do = "append"
  <2>1. T = Added(S, i.key) /\ "matrices" \in Writes(i) /\ i.key # Raw /\ ~IsMade(S, i.key)
    BY <1>4 DEF After, Writes, Suitable, Added
  <2>2. Filed(S, i.key, T)
    BY <1>1, <2>1, Filers
  <2> HIDE DEF T
  <2>3. SystemInv(T, o) /\ Grown(S, T)
    BY <2>1, <2>2, FiledFacts
  <2>4. QED BY <2>1, <2>3 DEF T
<1>5. CASE i.do \in {"push", "import"}
  <2>1. T = Pushed(S, Raw) /\ "matrices" \in Writes(i)
    BY <1>5 DEF After, Writes
  <2>2. QED BY <2>1, PushedFacts
<1>6. CASE i.do = "push polynomial"
  <2> DEFINE U == WithParts(S, i.key)
  <2>1. T = Pushed(U, Raw) /\ "matrices" \in Writes(i)
    BY <1>6 DEF After, Writes
  <2>2. SystemInv(U, o) /\ Grown(S, U)
    BY WithPartsFacts
  <2> HIDE DEF U, T
  <2>3. SystemInv(T, o) /\ Grown(U, T)
    BY <2>1, <2>2, PushedFacts
  <2>4. Grown(S, T)
    <3>1. Len(S.matrices) \in Nat /\ Len(U.matrices) \in Nat /\ Len(T.matrices) \in Nat
      BY <2>2, <2>3, LenFacts
    <3>2. QED BY <2>2, <2>3, <3>1, GrownOrder
  <2>5. QED BY <2>1, <2>3, <2>4 DEF T
<1>7. CASE i.do = "register"
  <2>1. T = [S EXCEPT !.known = @ \cup NewWords(S, i.key)]
    BY <1>7 DEF After
  <2>2. Alike(S, T) /\ (S.kind = "imported" => SameSymbols(S, T))
    BY <2>1, <1>1, Fields DEF Alike, IsSystem, NewWords, SameSymbols
  <2> HIDE DEF T
  <2>3. SystemInv(T, o) /\ Grown(S, T)
    BY <2>2, LenFacts DEF Alike, SystemInv, Grown, SameSymbols
  <2>4. QED BY <2>2, <2>3 DEF T, Alike
<1>8. CASE i.do = "create symbols"
  <2>1. T = WithSymbols(S, i.n) /\ i.n \in Largest
    BY <1>8 DEF After, Suitable
  <2>2. QED BY <2>1, WithSymbolsFacts
<1>9. CASE i.do = "add book"
  <2>1. T = [S EXCEPT !.books = @ + 1]
    BY <1>9 DEF After
  <2>2. Alike(S, T) /\ SameSymbols(S, T)
    BY <2>1, <1>1, Fields DEF Alike, IsSystem, SameSymbols
  <2> HIDE DEF T
  <2>3. QED BY <2>2, <1>2 DEF T
<1>10. CASE i.do = "make"
  <2>1. T = WithTensor(S, i.key[1]) /\ i.key[1] \in {"cg", "fc", "pt"}
    BY <1>10 DEF After, Suitable
  <2>2. Alike(S, T) /\ SameSymbols(S, T)
    BY <2>1, <1>1, TensorAlike
  <2> HIDE DEF T
  <2>3. QED BY <2>2, <1>2 DEF T
<1>11. CASE i.do = "fill"
  <2>1. T = Filled(S, i.key[1])
    BY <1>11 DEF After
  <2>2. Alike(S, T) /\ SameSymbols(S, T)
    BY <2>1, <1>1, FilledAlike
  <2> HIDE DEF T
  <2>3. QED BY <2>2, <1>2 DEF T
<1>12. CASE i.do \notin Changing
  <2>1. T = S
    BY <1>12 DEF After, Changing
  <2>2. QED BY <2>1, LenFacts
<1>13. QED BY <1>3, <1>4, <1>5, <1>6, <1>7, <1>8, <1>9, <1>10, <1>11, <1>12 DEF Changing

(* The index that an instruction answers with, if it does.                 *)
LEMMA AnswerFacts ==
  ASSUME scenario \in Scenarios, NEW S, NEW o, SystemInv(S, o), NEW i, Suitable(i, S), i.do \in Answering \cup Pushing,
         ~Throws(i, S), i.do \in {"find", "made"} => Holds(i, S), NEW before
  PROVE  LET T == After(i, S)
             a == AnswerOf(i, T, before)
         IN  /\ a \in 0 .. Len(T.matrices) - 1
             /\ T.matrices[a + 1] \in (IF i.do \in Pushing THEN {Raw} ELSE {i.key})
<1> DEFINE T == After(i, S)  a == AnswerOf(i, T, before)
<1>1. SystemInv(T, o) /\ Len(T.matrices) \in Nat
  BY AfterFacts, LenFacts
<1>2. CASE i.do \in {"create", "find", "made", "peek made"}
  <2>1. IsMade(T, i.key)
    <3>1. CASE i.do = "create"
      <4>1. T = WithMatrix(S, i.key) /\ i.key # Raw
        BY <3>1 DEF After, Suitable
      <4>2. QED BY <4>1, WithMatrixFacts
    <3>2. CASE i.do \in {"find", "made", "peek made"}
      <4>1. T = S
        BY <3>2 DEF After
      <4>2. IsMade(S, i.key)
        BY <3>2 DEF Holds, Throws
      <4>3. QED BY <4>1, <4>2
    <3>3. QED BY <1>2, <3>1, <3>2
  <2>2. a = T.index[i.key] /\ i.do \notin Pushing
    BY <1>2, <2>1 DEF AnswerOf, Pushing
  <2> HIDE DEF T, a
  <2>3. T.index[i.key] \in 0 .. Len(T.matrices) - 1 /\ T.matrices[T.index[i.key] + 1] = i.key
    BY <1>1, <2>1 DEF SystemInv, Filing, IsMade
  <2>4. QED BY <2>2, <2>3 DEF T, a
<1>3. CASE i.do = "append"
  <2>1. T = Added(S, i.key) /\ i.key # Raw /\ ~IsMade(S, i.key) /\ IsSystem(S)
    BY <1>3 DEF After, Suitable, Added, SystemInv
  <2>2. Filed(S, i.key, T)
    BY <2>1, Filers
  <2>3. a = Len(T.matrices) - 1 /\ i.do \notin Pushing
    BY <1>3 DEF AnswerOf, Pushing
  <2> HIDE DEF T, a
  <2>4. Len(S.matrices) \in Nat /\ Len(T.matrices) = Len(S.matrices) + 1 /\ T.matrices[Len(T.matrices)] = i.key
    BY <2>1, <2>2, FiledFacts
  <2>5. a + 1 = Len(T.matrices) /\ a \in 0 .. Len(T.matrices) - 1
    BY <2>3, <2>4
  <2>6. QED BY <2>3, <2>4, <2>5 DEF T, a
<1>4. CASE i.do \in Pushing
  <2> DEFINE U == IF i.do = "push polynomial" THEN WithParts(S, i.key) ELSE S
  <2>1. SystemInv(U, o)
    BY WithPartsFacts
  <2>2. T = Pushed(U, Raw)
    BY <1>4 DEF After, Pushing
  <2>3. a = Len(T.matrices) - 1
    BY <1>4 DEF AnswerOf, Pushing
  <2> HIDE DEF T, U, a
  <2>4. Len(U.matrices) \in Nat /\ Len(T.matrices) = Len(U.matrices) + 1 /\ T.matrices[Len(T.matrices)] = Raw
    BY <2>1, <2>2, PushedFacts
  <2>5. a + 1 = Len(T.matrices) /\ a \in 0 .. Len(T.matrices) - 1
    BY <2>3, <2>4
  <2>6. QED BY <1>4, <2>4, <2>5 DEF T, a
<1>5. QED BY <1>2, <1>3, <1>4 DEF Answering

-----------------------------------------------------------------------------
(* The invariant of the session.                                           *)
LockInv ==
  /\ DOMAIN call = Walkers
  /\ \A c \in Walkers : IsCall(call[c])
  /\ \A c, d \in Walkers : c # d => call[c].write \cap (call[d].read \cup call[d].write) = {}

SystemsInv(S, n) ==
  /\ IsSeq(S) /\ Len(S) = n
  /\ \A o \in 1 .. n : SystemInv(S[o], o)

SessionInv ==
  /\ StorageInv
  /\ scenario \in Scenarios
  /\ SystemsInv(system, stored)
  /\ LockInv
  /\ \A c \in Walkers : CallInv(call[c], system)

(* There are more systems, and more matrices in them.                      *)
More(S, T) ==
  /\ DOMAIN S \subseteq DOMAIN T /\ Len(S) <= Len(T) /\ Len(S) \in Nat /\ Len(T) \in Nat
  /\ \A o \in DOMAIN S : Grown(S[o], T[o]) /\ Len(S[o].matrices) \in Nat /\ Len(T[o].matrices) \in Nat
  /\ \A o \in DOMAIN T \ DOMAIN S : DOMAIN T[o].index = {}

LEMMA AnswersStay ==
  ASSUME NEW S, NEW T, More(S, T), NEW p, RightAnswer(p, S)
  PROVE  RightAnswer(p, T)
<1>1. CASE p.answer = -1 \/ p.r.key \in {NoKey, <<"tensor">>}
  BY <1>1 DEF RightAnswer
<1>2. CASE /\ p.on \in DOMAIN S
           /\ p.answer \in 0 .. Len(S[p.on].matrices) - 1
           /\ S[p.on].matrices[p.answer + 1] \in {p.r.key, Raw}
  <2>1. p.on \in DOMAIN T /\ Len(S[p.on].matrices) <= Len(T[p.on].matrices)
    BY <1>2 DEF More, Grown
  <2>2. p.answer + 1 \in 1 .. Len(S[p.on].matrices) /\ p.answer \in 0 .. Len(T[p.on].matrices) - 1
    <3>1. Len(S[p.on].matrices) \in Nat /\ Len(T[p.on].matrices) \in Nat
      BY <1>2 DEF More
    <3>2. p.answer \in 0 .. Len(S[p.on].matrices) - 1
      BY <1>2
    <3>3. QED BY <2>1, <3>1, <3>2
  <2>3. T[p.on].matrices[p.answer + 1] = S[p.on].matrices[p.answer + 1]
    BY <1>2, <2>2 DEF More, Grown
  <2>4. QED BY <1>2, <2>1, <2>2, <2>3 DEF RightAnswer
<1>3. QED BY <1>1, <1>2 DEF RightAnswer

(* What a client is sure of stays so, if the matrices of systems that it   *)
(* may write stay as they are.                                             *)
LEMMA SureStays ==
  ASSUME NEW S, NEW T, More(S, T), NEW p, NEW h, Sat(p, S, h),
         \A o \in DOMAIN S : o \in p.write => T[o].index = S[o].index
  PROVE  Sat(p, T, h)
<1>1. h.right => RightAnswer(p, T)
  BY AnswersStay DEF Sat, Meets
<1>2. ASSUME NEW a \in h.absent
      PROVE  a[1] \in p.write /\ IsAbsent(T, a)
  <2>1. a[1] \in p.write /\ IsAbsent(S, a)
    BY DEF Sat, Meets
  <2>2. CASE a[1] \in DOMAIN S
    BY <2>1, <2>2 DEF IsAbsent, IsMade
  <2>3. CASE a[1] \in DOMAIN T \ DOMAIN S
    BY <2>1, <2>3 DEF IsAbsent, IsMade, More
  <2>4. QED BY <2>1, <2>2, <2>3 DEF IsAbsent
<1>3. QED BY <1>1, <1>2 DEF Sat, Meets

LEMMA CallStays ==
  ASSUME NEW S, NEW T, More(S, T), NEW p, CallInv(p, S),
         \A o \in DOMAIN S : o \in p.write => T[o].index = S[o].index
  PROVE  CallInv(p, T)
<1>1. PICK H : Typing(p.todo, Cx(p, S), H) /\ Sat(p, S, H[1]) /\ H[Len(p.todo) + 1].right
  BY DEF CallInv
<1>2. 0 .. Len(S) \subseteq 0 .. Len(T)
  BY DEF More
<1>3. Typing(p.todo, Cx(p, T), H)
  <2>1. /\ Cx(p, S).systems \subseteq Cx(p, T).systems /\ Cx(p, T).on = Cx(p, S).on
        /\ Cx(p, T).key = Cx(p, S).key /\ Cx(p, T).largest = Cx(p, S).largest
    BY <1>2 DEF Cx
  <2>2. QED BY <1>1, <2>1, TypingMore
<1>4. Sat(p, T, H[1])
  BY <1>1, SureStays
<1>5. p.r.key \in {NoKey, <<"tensor">>} \/ p.on \in DOMAIN T
  BY DEF CallInv, More
<1>6. QED BY <1>1, <1>3, <1>4, <1>5 DEF CallInv

-----------------------------------------------------------------------------
(* The names of imported symbols are those of the calls of the scenario.   *)
LEMMA SameLargest ==
  ASSUME scenario' = scenario, SystemsInv(system', stored'), StorageInv', scenario \in Scenarios,
         LockInv', \A c \in Walkers : CallInv(call'[c], system')
  PROVE  SessionInv'
<1>1. Largest' = Largest
  BY DEF Largest
<1>2. SystemsInv(system, stored)'
  BY <1>1 DEF SystemsInv, SystemInv
<1>3. \A c \in Walkers : CallInv(call[c], system)'
  BY <1>1 DEF CallInv, Cx
<1>4. QED BY <1>2, <1>3 DEF SessionInv

LEMMA MoreFacts ==
  ASSUME NEW S, NEW n, SystemsInv(S, n), n \in Nat
  PROVE  DOMAIN S = 1 .. n /\ More(S, S)
<1>1. DOMAIN S = 1 .. n
  BY SeqFacts DEF SystemsInv
<1>2. ASSUME NEW o \in 1 .. n
      PROVE  Grown(S[o], S[o]) /\ Len(S[o].matrices) \in Nat
  BY LenFacts DEF SystemsInv
<1>3. QED BY <1>1, <1>2 DEF More, SystemsInv

(* A step of one client.                                                   *)
LEMMA ClientSteps ==
  ASSUME SessionInv, StorageInv', scenario' = scenario,
         NEW c \in Walkers, NEW p, call' = [call EXCEPT ![c] = p], IsCall(p), CallInv(p, system'),
         \A o \in p.read \ call[c].read : \A d \in Walkers : o \notin call[d].write,
         \A o \in p.write \ call[c].write : \A d \in Walkers : o \notin call[d].write \cup call[d].read,
         SystemsInv(system', stored'), More(system, system'),
         \A o \in DOMAIN system : system'[o].index = system[o].index \/ o \in call[c].write
  PROVE  SessionInv'
<1>1. LockInv
  BY DEF SessionInv
<1>2. LockInv'
  <2>1. DOMAIN call' = Walkers /\ call'[c] = p /\ \A d \in Walkers \ {c} : call'[d] = call[d]
    BY <1>1 DEF LockInv
  <2>2. \A d \in Walkers : IsCall(call'[d])
    BY <2>1, <1>1 DEF LockInv
  <2>3. ASSUME NEW d \in Walkers, NEW e \in Walkers, d # e
        PROVE  call'[d].write \cap (call'[e].read \cup call'[e].write) = {}
    <3>1. CASE d = c
      <4>1. call'[d] = p /\ call'[e] = call[e] /\ call[c].write \cap (call[e].read \cup call[e].write) = {}
        BY <2>1, <2>3, <3>1, <1>1 DEF LockInv
      <4>2. QED BY <4>1
    <3>2. CASE e = c
      <4>1. call'[e] = p /\ call'[d] = call[d] /\ call[d].write \cap (call[c].read \cup call[c].write) = {}
        BY <2>1, <2>3, <3>2, <1>1 DEF LockInv
      <4>2. QED BY <4>1
    <3>3. CASE d # c /\ e # c
      BY <2>1, <2>3, <3>3, <1>1 DEF LockInv
    <3>4. QED BY <3>1, <3>2, <3>3
  <2>4. QED BY <2>1, <2>2, <2>3 DEF LockInv
<1>3. ASSUME NEW d \in Walkers
      PROVE  CallInv(call'[d], system')
  <2>1. CASE d = c
    BY <2>1, <1>1 DEF LockInv
  <2>2. CASE d # c
    <3>1. call'[d] = call[d] /\ CallInv(call[d], system)
      BY <2>2, <1>1 DEF LockInv, SessionInv
    <3>2. \A o \in DOMAIN system : o \in call[d].write => system'[o].index = system[o].index
      BY <2>2, <1>1 DEF LockInv
    <3>3. CallInv(call[d], system')
      BY <3>1, <3>2, CallStays
    <3>4. QED BY <3>1, <3>3
  <2>3. QED BY <2>1, <2>2
<1>4. QED BY <1>2, <1>3, SameLargest DEF SessionInv

(* A step in which no call moves.                                          *)
LEMMA BankSteps ==
  ASSUME SessionInv, StorageInv', scenario' = scenario, call' = call,
         SystemsInv(system', stored'), More(system, system'),
         \A o \in DOMAIN system : system'[o].index = system[o].index
  PROVE  SessionInv'
<1>1. LockInv'
  BY DEF SessionInv, LockInv
<1>2. ASSUME NEW d \in Walkers
      PROVE  CallInv(call'[d], system')
  BY CallStays DEF SessionInv
<1>3. QED BY <1>1, <1>2, SameLargest DEF SessionInv

-----------------------------------------------------------------------------
(* A call that has nothing to do, and no answer that is wrong.             *)
LEMMA DoneInv ==
  ASSUME NEW p, NEW S, p.todo = <<>>, p.read = {}, p.write = {}, p.answer = -1,
         p.r.key \in {NoKey, <<"tensor">>} \/ p.on \in DOMAIN S
  PROVE  CallInv(p, S)
<1> DEFINE H == [i \in {1} |-> Free(TRUE)]
<1>1. H[1] = Free(TRUE) /\ Len(<<>>) + 1 = 1 /\ Free(TRUE).right
  BY SmallSeqs DEF Free, Sure
<1> HIDE DEF H
<1>2. Typing(<<>>, Cx(p, S), H)
  BY SmallSeqs DEF Typing
<1>3. Sat(p, S, H[1])
  BY <1>1 DEF Sat, Meets, Free, Sure, RightAnswer
<1>4. QED BY <1>1, <1>2, <1>3 DEF CallInv

LEMMA IdleFacts ==
  /\ IsCall(Idle)
  /\ Idle.r.key = NoKey /\ Idle.todo = <<>> /\ Idle.read = {} /\ Idle.write = {} /\ Idle.answer = -1
  BY DEF Idle, IsCall, CallFields

LEMMA ReturnFacts ==
  ASSUME NEW p, IsCall(p)
  PROVE  /\ IsCall(Return(p)) /\ Return(p).r = p.r /\ Return(p).on = p.on
         /\ Return(p).todo = <<>> /\ Return(p).read = {} /\ Return(p).write = {} /\ Return(p).answer = -1
<1>1. {"todo", "read", "write", "answer", "r", "on"} \subseteq CallFields
  BY DEF CallFields, Idle
<1>2. QED BY <1>1 DEF Return, IsCall

(* Calls that throw, or are refused.                                       *)
LEMMA ReturnSteps ==
  ASSUME SessionInv, StorageInv', scenario' = scenario, system' = system, stored' = stored,
         NEW c \in Walkers, NEW p \in {Idle, Return(call[c])}, call' = [call EXCEPT ![c] = p]
  PROVE  SessionInv'
<1>1. IsCall(call[c]) /\ CallInv(call[c], system)
  BY DEF SessionInv, LockInv
<1>2. /\ IsCall(p) /\ p.todo = <<>> /\ p.read = {} /\ p.write = {} /\ p.answer = -1
      /\ p.r.key \in {NoKey, <<"tensor">>} \/ p.on \in DOMAIN system
  <2>1. CASE p = Idle
    BY <2>1, IdleFacts
  <2>2. CASE p = Return(call[c])
    BY <2>2, <1>1, ReturnFacts DEF CallInv
  <2>3. QED BY <2>1, <2>2
<1>3. CallInv(p, system')
  BY <1>2, DoneInv
<1>4. SystemsInv(system', stored') /\ More(system, system')
  BY MoreFacts DEF SessionInv, StorageInv, StorageType
<1>5. QED BY <1>2, <1>3, <1>4, ClientSteps

(* A system more.                                                          *)
LEMMA NewSystemFacts ==
  ASSUME NEW kind, NEW source, NEW words, NEW o \in Nat, source \in 0 .. o - 1,
         kind = "imported" => words = {0}
  PROVE  /\ SystemInv(NewSystem(kind, source, words), o)
         /\ DOMAIN NewSystem(kind, source, words).index = {}
<1> DEFINE S == NewSystem(kind, source, words)
<1>1. /\ IsSystem(S) /\ S.kind = kind /\ S.source = source /\ S.known = words
      /\ S.unnamed = 1 /\ S.matrices = <<>> /\ S.index = <<>>
  BY DEF NewSystem, IsSystem, SystemFields
<1>2. DOMAIN <<>> = {} /\ IsSeq(<<>>) /\ Len(<<>>) = 0
  BY SmallSeqs, SeqFacts
<1>3. Filing(<<>>, <<>>)
  BY <1>2 DEF Filing
<1> HIDE DEF S
<1>4. SystemInv(S, o) /\ DOMAIN S.index = {}
  BY <1>1, <1>2, <1>3 DEF SystemInv, Largest
<1>5. QED BY <1>4 DEF S

LEMMA AppendSystem ==
  ASSUME NEW S, NEW n \in Nat, SystemsInv(S, n), NEW x, SystemInv(x, n + 1), DOMAIN x.index = {}
  PROVE  /\ SystemsInv(Append(S, x), n + 1) /\ More(S, Append(S, x))
         /\ \A o \in DOMAIN S : Append(S, x)[o].index = S[o].index
<1> DEFINE T == Append(S, x)
<1>1. IsSeq(S) /\ Len(S) = n
  BY DEF SystemsInv
<1>2. IsSeq(T) /\ Len(T) = n + 1 /\ (\A i \in 1 .. n : T[i] = S[i]) /\ T[n + 1] = x
  BY <1>1, AppendFacts
<1> HIDE DEF T
<1>3. DOMAIN S = 1 .. n /\ DOMAIN T = 1 .. n + 1
  BY <1>1, <1>2, SeqFacts
<1>4. ASSUME NEW o \in 1 .. n + 1
      PROVE  SystemInv(T[o], o)
  <2>1. CASE o = n + 1
    BY <2>1, <1>2
  <2>2. CASE o \in 1 .. n
    BY <2>2, <1>2 DEF SystemsInv
  <2>3. QED BY <2>1, <2>2
<1>5. SystemsInv(T, n + 1)
  BY <1>2, <1>4 DEF SystemsInv
<1>6. \A o \in DOMAIN S : Grown(S[o], T[o]) /\ Len(S[o].matrices) \in Nat /\ Len(T[o].matrices) \in Nat
  BY <1>2, <1>3, LenFacts DEF SystemsInv
<1>7. More(S, T)
  <2>1. DOMAIN S \subseteq DOMAIN T /\ \A o \in DOMAIN T \ DOMAIN S : o = n + 1
    BY <1>3
  <2>2. QED BY <2>1, <1>1, <1>2, <1>6 DEF More
<1>8. QED BY <1>2, <1>3, <1>5, <1>7 DEF T

-----------------------------------------------------------------------------
(* What is sure of the first instruction of a call.                        *)
LEMMA FirstFacts ==
  ASSUME NEW q, NEW cx, NEW H, Typing(q, cx, H), q # <<>>
  PROVE  /\ Len(q) \in Nat /\ 0 \in 0 .. Len(q) - 1
         /\ Permitted(Head(q), cx, H[1])
         /\ Head(q).skip \in 0 .. Len(q) - 1
         /\ Weaker(H[0 + 2], Fails(Head(q), cx, H[1]))
         /\ Weaker(H[Head(q).skip + 2], Succeeds(Head(q), cx, H[1]))
<1>1. IsSeq(q)
  BY DEF Typing
<1>2. Len(q) \in Nat /\ DOMAIN q = 1 .. Len(q)
  BY <1>1, SeqFacts
<1>3. Len(q) # 0
  BY <1>1, <1>2, SmallSeqs, EmptySeq DEF IsSeq
<1>4. Head(q) = q[1]
  BY <1>1, <1>3, HeadTailProperties DEF IsSeq
<1>5. 1 \in 1 .. Len(q)
  BY <1>2, <1>3
<1>6. /\ Permitted(q[1], cx, H[1])
      /\ q[1].skip \in 0 .. Len(q) - 1
      /\ Weaker(H[1 + 1], Fails(q[1], cx, H[1]))
      /\ Weaker(H[1 + 1 + q[1].skip], Succeeds(q[1], cx, H[1]))
  BY <1>5 DEF Typing
<1>7. 1 + 1 = 0 + 2 /\ 1 + 1 + q[1].skip = q[1].skip + 2
  <2>1. q[1].skip \in Int
    BY <1>2, <1>6
  <2> HIDE <1>6
  <2>2. QED BY <2>1
<1>8. 0 \in 0 .. Len(q) - 1
  BY <1>2, <1>3
<1>9. QED BY <1>2, <1>4, <1>6, <1>7, <1>8

(* A call goes on after an instruction.                                    *)
LEMMA MoveOn ==
  ASSUME NEW p, IsCall(p), NEW S, NEW H, Typing(p.todo, Cx(p, S), H), H[Len(p.todo) + 1].right,
         p.r.key \in {NoKey, <<"tensor">>} \/ p.on \in DOMAIN S,
         NEW n, n \in 0 .. Len(p.todo) - 1, NEW h, Sat(p, S, h), Weaker(H[n + 2], h)
  PROVE  /\ IsCall(Proceed(p, n)) /\ CallInv(Proceed(p, n), S)
         /\ Proceed(p, n).read \subseteq p.read /\ Proceed(p, n).write \subseteq p.write
<1> DEFINE z == Proceed(p, n)
<1>1. Sat(p, S, H[n + 2])
  BY WeakerSat
<1>2. /\ IsCall(z)
      /\ z.read \subseteq p.read /\ z.write \subseteq p.write
      /\ z.answer = p.answer /\ z.r = p.r /\ z.on = p.on
      /\ \E G : Typing(z.todo, Cx(p, S), G) /\ Sat(z, S, G[1]) /\ G[Len(z.todo) + 1].right
  BY <1>1, ProceedFacts
<1> HIDE DEF z
<1>3. Cx(z, S) = Cx(p, S)
  BY <1>2 DEF Cx
<1>4. CallInv(z, S)
  BY <1>2, <1>3 DEF CallInv
<1>5. QED BY <1>2, <1>4 DEF z

LEMMA MovePast ==
  ASSUME NEW p, IsCall(p), NEW S, NEW H, Typing(p.todo, Cx(p, S), H), H[Len(p.todo) + 1].right,
         p.r.key \in {NoKey, <<"tensor">>} \/ p.on \in DOMAIN S,
         NEW i, p.todo # <<>>, i = Head(p.todo), Sat(p, S, Succeeds(i, Cx(p, S), H[1]))
  PROVE  /\ IsCall(Proceed(p, i.skip)) /\ CallInv(Proceed(p, i.skip), S)
         /\ Proceed(p, i.skip).read \subseteq p.read /\ Proceed(p, i.skip).write \subseteq p.write
<1>1. i.skip \in 0 .. Len(p.todo) - 1 /\ Weaker(H[i.skip + 2], Succeeds(i, Cx(p, S), H[1]))
  BY FirstFacts
<1>2. QED BY <1>1, MoveOn

LEMMA MoveNext ==
  ASSUME NEW p, IsCall(p), NEW S, NEW H, Typing(p.todo, Cx(p, S), H), H[Len(p.todo) + 1].right,
         p.r.key \in {NoKey, <<"tensor">>} \/ p.on \in DOMAIN S,
         NEW i, p.todo # <<>>, i = Head(p.todo), Sat(p, S, Fails(i, Cx(p, S), H[1]))
  PROVE  /\ IsCall(Proceed(p, 0)) /\ CallInv(Proceed(p, 0), S)
         /\ Proceed(p, 0).read \subseteq p.read /\ Proceed(p, 0).write \subseteq p.write
<1>1. 0 \in 0 .. Len(p.todo) - 1 /\ Weaker(H[0 + 2], Fails(i, Cx(p, S), H[1]))
  BY FirstFacts
<1>2. QED BY <1>1, MoveOn

-----------------------------------------------------------------------------
(* Steps that take a lock: `z' is the call `p' with the lock on `o'.       *)
Locked(do, o, p, z) ==
  /\ IsCall(z)
  /\ z.todo = p.todo /\ z.r = p.r /\ z.on = p.on /\ z.answer = p.answer
  /\ \/ do = "read lock" /\ z.read = p.read \cup {o} /\ z.write = p.write
     \/ do = "write lock" /\ z.read = p.read /\ z.write = p.write \cup {o}

LEMMA LockedFacts ==
  ASSUME NEW p, IsCall(p), NEW o
  PROVE  Locked("read lock", o, p, ReadLocked(p, o)) /\ Locked("write lock", o, p, WriteLocked(p, o))
<1> DEFINE y == ReadLocked(p, o)  z == WriteLocked(p, o)
<1>1. {"todo", "read", "write", "answer", "r", "on"} \subseteq CallFields
  BY DEF CallFields, Idle
<1> HIDE DEF CallFields
<1>2. /\ IsCall(y)
      /\ y.todo = p.todo /\ y.r = p.r /\ y.on = p.on /\ y.answer = p.answer
      /\ y.read = p.read \cup {o} /\ y.write = p.write
  BY <1>1 DEF ReadLocked, IsCall
<1>3. /\ IsCall(z)
      /\ z.todo = p.todo /\ z.r = p.r /\ z.on = p.on /\ z.answer = p.answer
      /\ z.read = p.read /\ z.write = p.write \cup {o}
  BY <1>1 DEF WriteLocked, IsCall
<1> HIDE DEF y, z
<1>4. Locked("read lock", o, p, y) /\ Locked("write lock", o, p, z)
  BY <1>2, <1>3 DEF Locked
<1>5. QED BY <1>4 DEF y, z

LEMMA LockedSure ==
  ASSUME NEW p, NEW S, NEW h, Sat(p, S, h), NEW i, NEW cx, NEW z, Locked(i.do, i.on, p, z)
  PROVE  Sat(z, S, Succeeds(i, cx, h))
<1>1. RightAnswer(z, S) <=> RightAnswer(p, S)
  BY DEF RightAnswer, Locked
<1> DEFINE j == Succeeds(i, cx, h)
<1>2. /\ j.read = h.read \cup {i.on} /\ j.absent = h.absent /\ j.right = h.right
      /\ j.write = IF i.do = "write lock" THEN h.write \cup {i.on} ELSE h.write
  BY DEF Succeeds, Writes, Answering, Pushing, Locked
<1> HIDE DEF j
<1>3. Sat(z, S, j)
  BY <1>1, <1>2 DEF Sat, Meets, Locked
<1>4. QED BY <1>3 DEF j

LEMMA LockSteps ==
  ASSUME SessionInv, StorageInv', scenario' = scenario, system' = system, stored' = stored,
         NEW c \in Walkers, call[c].todo # <<>>, NEW i, i = Head(call[c].todo),
         NEW z, Locked(i.do, i.on, call[c], z),
         \A d \in Walkers : i.on \notin call[d].write,
         i.do = "write lock" => \A d \in Walkers : i.on \notin call[d].read,
         call' = [call EXCEPT ![c] = Proceed(z, i.skip)]
  PROVE  SessionInv'
<1> DEFINE y == Proceed(z, i.skip)
<1>1. PICK p : p = call[c]
  OBVIOUS
<1>2. IsCall(p) /\ CallInv(p, system)
  BY <1>1 DEF SessionInv, LockInv
<1>3. /\ IsCall(z) /\ z.todo = p.todo /\ z.r = p.r /\ z.on = p.on /\ Locked(i.do, i.on, p, z)
      /\ z.read \subseteq p.read \cup {i.on}
      /\ z.write \subseteq p.write \cup {i.on}
      /\ i.do # "write lock" => z.write = p.write
      /\ i.do = "write lock" => z.read = p.read
  BY <1>1 DEF Locked
<1>4. PICK H : Typing(p.todo, Cx(p, system), H) /\ Sat(p, system, H[1]) /\ H[Len(p.todo) + 1].right
  BY <1>2 DEF CallInv
<1>5. Cx(z, system) = Cx(p, system)
  BY <1>3 DEF Cx
<1>7. Sat(z, system, Succeeds(i, Cx(z, system), H[1]))
  BY <1>3, <1>4, LockedSure
<1>8. z.r.key \in {NoKey, <<"tensor">>} \/ z.on \in DOMAIN system
  BY <1>2, <1>3 DEF CallInv
<1>9. Typing(z.todo, Cx(z, system), H) /\ H[Len(z.todo) + 1].right /\ z.todo # <<>> /\ i = Head(z.todo)
  BY <1>1, <1>3, <1>4, <1>5
<1>10. /\ IsCall(y) /\ CallInv(y, system)
       /\ y.read \subseteq z.read /\ y.write \subseteq z.write
  BY <1>3, <1>7, <1>8, <1>9, MovePast
<1> HIDE DEF y
<1>11. /\ \A o \in y.read \ call[c].read : \A d \in Walkers : o \notin call[d].write
       /\ \A o \in y.write \ call[c].write : \A d \in Walkers : o \notin call[d].write \cup call[d].read
  BY <1>1, <1>3, <1>10
<1>12. SystemsInv(system', stored') /\ More(system, system')
  BY MoreFacts DEF SessionInv, StorageInv, StorageType
<1>13. call' = [call EXCEPT ![c] = y] /\ CallInv(y, system')
  BY <1>10 DEF y
<1>14. QED BY <1>10, <1>11, <1>12, <1>13, ClientSteps

LEMMA ReadLockStep ==
  ASSUME SessionInv, StorageInv', NEW c \in Walkers, TakeReadLock(c)
  PROVE  SessionInv'
<1> DEFINE i == Head(call[c].todo)  z == ReadLocked(call[c], i.on)
<1>1. /\ call[c].todo # <<>> /\ i.do = "read lock"
      /\ \A d \in Walkers : i.on \notin call[d].write
      /\ system' = system /\ scenario' = scenario /\ stored' = stored
  BY DEF TakeReadLock, At, Running, Next1, vars
<1>2. call' = [call EXCEPT ![c] = Proceed(z, i.skip)]
  BY DEF TakeReadLock, Next1
<1>3. IsCall(call[c])
  BY DEF SessionInv, LockInv
<1>4. Locked(i.do, i.on, call[c], z)
  BY <1>1, <1>3, LockedFacts
<1> HIDE DEF i, z
<1>5. i = Head(call[c].todo)
  BY DEF i
<1>6. QED BY <1>1, <1>2, <1>4, <1>5, LockSteps

LEMMA WriteLockStep ==
  ASSUME SessionInv, StorageInv', NEW c \in Walkers, TakeWriteLock(c)
  PROVE  SessionInv'
<1> DEFINE i == Head(call[c].todo)  z == WriteLocked(call[c], i.on)
<1>1. /\ call[c].todo # <<>> /\ i.do = "write lock"
      /\ \A d \in Walkers : i.on \notin call[d].write /\ i.on \notin call[d].read
      /\ system' = system /\ scenario' = scenario /\ stored' = stored
  BY DEF TakeWriteLock, At, Running, Next1, vars
<1>2. call' = [call EXCEPT ![c] = Proceed(z, i.skip)]
  BY DEF TakeWriteLock, Next1
<1>3. IsCall(call[c])
  BY DEF SessionInv, LockInv
<1>4. Locked(i.do, i.on, call[c], z)
  BY <1>1, <1>3, LockedFacts
<1> HIDE DEF i, z
<1>5. i = Head(call[c].todo)
  BY DEF i
<1>6. QED BY <1>1, <1>2, <1>4, <1>5, LockSteps

-----------------------------------------------------------------------------
(* An instruction changes one system, `S[o]', which becomes `x'. An `o'    *)
(* that is no system stands for the source of one that has none.           *)
Changed(S, o, x, T) == T = [S EXCEPT ![o] = x]

LEMMA ChangeOne ==
  ASSUME NEW S, NEW n \in Nat, SystemsInv(S, n), NEW o, NEW x,
         o \in 1 .. n => SystemInv(x, o) /\ Grown(S[o], x),
         NEW T, Changed(S, o, x, T)
  PROVE  /\ SystemsInv(T, n) /\ More(S, T)
         /\ \A k \in 1 .. n : T[k] = IF k = o THEN x ELSE S[k]
<1> DEFINE E == {T[i] : i \in DOMAIN T}
<1>1. IsSeq(S) /\ Len(S) = n /\ DOMAIN S = 1 .. n
  BY SeqFacts DEF SystemsInv
<1>2. T = [k \in 1 .. n |-> IF k = o THEN x ELSE S[k]]
  BY <1>1 DEF Changed
<1>3. DOMAIN T = 1 .. n /\ \A k \in 1 .. n : T[k] = IF k = o THEN x ELSE S[k]
  BY <1>2
<1>4. T \in [1 .. n -> E]
  BY <1>2, <1>3
<1> HIDE DEF E
<1>5. IsSeq(T) /\ Len(T) = n
  <2>1. T \in Seq(E)
    <3> HIDE <1>2
    <3>1. QED BY <1>4
  <2>2. IsSeq(T) /\ Len(T) = n
    BY <1>3, <2>1, SeqIntro, LenProperties
  <2>3. QED BY <2>2
<1>6. ASSUME NEW k \in 1 .. n
      PROVE  /\ SystemInv(T[k], k) /\ Grown(S[k], T[k])
             /\ Len(S[k].matrices) \in Nat /\ Len(T[k].matrices) \in Nat
  <2>1. SystemInv(S[k], k)
    BY DEF SystemsInv
  <2>2. SystemInv(T[k], k) /\ Grown(S[k], T[k])
    BY <1>3, <2>1, LenFacts
  <2>3. QED BY <2>1, <2>2, LenFacts
<1>7. SystemsInv(T, n) /\ More(S, T)
  BY <1>1, <1>3, <1>5, <1>6 DEF SystemsInv, More
<1>8. QED BY <1>3, <1>7

LEMMA SuitableFacts ==
  ASSUME NEW p, NEW S, NEW h, Sat(p, S, h), NEW i, Permitted(i, Cx(p, S), h), i.on \in DOMAIN S
  PROVE  /\ Suitable(i, S[i.on])
         /\ "matrices" \in Writes(i) => i.on \in p.write
<1>1. Cx(p, S).largest = Largest
  BY DEF Cx
<1>2. i.do = "append" => ~IsMade(S[i.on], i.key)
  <2> SUFFICES ASSUME i.do = "append" PROVE ~IsMade(S[i.on], i.key)
    OBVIOUS
  <2>1. <<i.on, i.key>> \in h.absent
    BY DEF Permitted
  <2>2. IsAbsent(S, <<i.on, i.key>>)
    BY <2>1 DEF Sat, Meets
  <2>3. QED BY <2>2 DEF IsAbsent
<1>3. Writes(i) # {} => i.on \in p.write
  BY DEF Permitted, Sat, Meets
<1>4. QED BY <1>1, <1>2, <1>3 DEF Permitted, Suitable

LEMMA DoFacts ==
  ASSUME scenario \in Scenarios, NEW p, NEW S, NEW n \in Nat, SystemsInv(S, n), NEW h, Sat(p, S, h),
         NEW i, Permitted(i, Cx(p, S), h),
         NEW T, Changed(S, i.on, After(i, S[i.on]), T)
  PROVE  /\ SystemsInv(T, n) /\ More(S, T)
         /\ i.on \in DOMAIN S => T[i.on] = After(i, S[i.on])
         /\ \A k \in DOMAIN S : k # i.on \/ "matrices" \notin Writes(i) => T[k].index = S[k].index
         /\ \A k \in DOMAIN S : T[k].index = S[k].index \/ k \in p.write
<1>1. DOMAIN S = 1 .. n
  BY MoreFacts
<1>2. ASSUME i.on \in 1 .. n
      PROVE  LET x == After(i, S[i.on])
             IN  /\ SystemInv(x, i.on) /\ Grown(S[i.on], x)
                 /\ "matrices" \notin Writes(i) => x.index = S[i.on].index
                 /\ "matrices" \in Writes(i) => i.on \in p.write
  <2>1. SystemInv(S[i.on], i.on)
    BY <1>2 DEF SystemsInv
  <2>2. Suitable(i, S[i.on]) /\ ("matrices" \in Writes(i) => i.on \in p.write)
    BY <1>1, <1>2, SuitableFacts
  <2>3. QED BY <2>1, <2>2, AfterFacts
<1>3. PICK x : x = After(i, S[i.on])
  OBVIOUS
<1>4. i.on \in 1 .. n => /\ SystemInv(x, i.on) /\ Grown(S[i.on], x)
                         /\ "matrices" \notin Writes(i) => x.index = S[i.on].index
                         /\ "matrices" \in Writes(i) => i.on \in p.write
  BY <1>2, <1>3
<1>5. PICK o : o = i.on
  OBVIOUS
<1>6. Changed(S, o, x, T)
  BY <1>3, <1>5
<1>7. SystemsInv(T, n) /\ More(S, T) /\ \A k \in 1 .. n : T[k] = IF k = o THEN x ELSE S[k]
  <2>1. o \in 1 .. n => SystemInv(x, o) /\ Grown(S[o], x)
    BY <1>4, <1>5
  <2>2. QED BY <1>6, <2>1, ChangeOne
<1>8. QED BY <1>1, <1>3, <1>4, <1>5, <1>7

LEMMA DoHere ==
  ASSUME scenario \in Scenarios, NEW p, NEW S, NEW n \in Nat, SystemsInv(S, n), NEW h, Sat(p, S, h),
         NEW i, Permitted(i, Cx(p, S), h), i.on \in DOMAIN S,
         NEW T, Changed(S, i.on, After(i, S[i.on]), T)
  PROVE  T[i.on] = After(i, S[i.on])
  BY DoFacts

LEMMA DoElsewhere ==
  ASSUME scenario \in Scenarios, NEW p, NEW S, NEW n \in Nat, SystemsInv(S, n), NEW h, Sat(p, S, h),
         NEW i, Permitted(i, Cx(p, S), h),
         NEW T, Changed(S, i.on, After(i, S[i.on]), T),
         NEW k \in DOMAIN S, k # i.on \/ "matrices" \notin Writes(i)
  PROVE  T[k].index = S[k].index
  BY DoFacts

-----------------------------------------------------------------------------
(* A call after an instruction: `z' has the locks of `p', and an answer.   *)
Answers(p, a, z) ==
  /\ IsCall(z)
  /\ z.todo = p.todo /\ z.r = p.r /\ z.on = p.on /\ z.read = p.read /\ z.write = p.write
  /\ z.answer = a

LEMMA AnsweredFacts ==
  ASSUME NEW p, IsCall(p), NEW i, NEW x, NEW y
  PROVE  Answers(p, AnswerOf(i, y, p.answer), Answered(p, i, x, y))
<1> DEFINE z == Answered(p, i, x, y)
<1>1. {"todo", "read", "write", "answer", "r", "on", "complete"} \subseteq CallFields
  BY DEF CallFields, Idle
<1> HIDE DEF CallFields
<1>2. /\ IsCall(z)
      /\ z.todo = p.todo /\ z.r = p.r /\ z.on = p.on /\ z.read = p.read /\ z.write = p.write
      /\ z.answer = AnswerOf(i, y, p.answer)
  BY <1>1 DEF Answered, IsCall
<1> HIDE DEF z
<1>3. Answers(p, AnswerOf(i, y, p.answer), z)
  BY <1>2 DEF Answers
<1>4. QED BY <1>3 DEF z

Locks(i)   == i.do \in {"read lock", "write lock"}
Seeks(i)   == i.do \in {"find", "made"}
Replies(i) == i.do \in Answering \cup Pushing \cup {"need matrix", "need tensor"}

(* The instruction of the call answers what it was asked for.              *)
LEMMA AnswersRight ==
  ASSUME scenario \in Scenarios, NEW p, NEW S, NEW n \in Nat, SystemsInv(S, n), NEW h, Sat(p, S, h),
         p.r.key \in {NoKey, <<"tensor">>} \/ p.on \in DOMAIN S,
         NEW i, Permitted(i, Cx(p, S), h),
         NEW T, Changed(S, i.on, After(i, S[i.on]), T), ~Throws(i, S[i.on]),
         NEW z, Answers(p, AnswerOf(i, T[i.on], p.answer), z),
         Names(i, Cx(p, S)), Replies(i),
         Seeks(i) => Holds(i, S[i.on])
  PROVE  RightAnswer(z, T)
<1>1. CASE p.r.key \in {NoKey, <<"tensor">>}
  BY <1>1 DEF Answers, RightAnswer
<1>2. CASE p.r.key \notin {NoKey, <<"tensor">>}
  <2>1. i.on = p.on /\ p.on \in DOMAIN S /\ (i.do \in Pushing \/ (i.do \in Answering /\ i.key = p.r.key))
    BY <1>2 DEF Names, Unnamed, Cx
  <2>2. DOMAIN S = 1 .. n
    BY MoreFacts
  <2>3. SystemInv(S[i.on], i.on) /\ Suitable(i, S[i.on])
    BY <2>1, <2>2, SuitableFacts DEF SystemsInv
  <2>4. T[i.on] = After(i, S[i.on]) /\ DOMAIN S \subseteq DOMAIN T
    <3>1. i.on \in DOMAIN S
      BY <2>1
    <3>2. T[i.on] = After(i, S[i.on])
      BY <3>1, DoHere
    <3>3. More(S, T)
      BY DoFacts
    <3>4. QED BY <3>2, <3>3 DEF More
  <2>5. PICK x : x = T[i.on]
    OBVIOUS
  <2>6. PICK a : a = AnswerOf(i, x, p.answer)
    OBVIOUS
  <2>7. a \in 0 .. Len(x.matrices) - 1 /\ x.matrices[a + 1] \in (IF i.do \in Pushing THEN {Raw} ELSE {i.key})
    <3>1. i.do \in Answering \cup Pushing
      BY <2>1
    <3>2. x = After(i, S[i.on])
      BY <2>4, <2>5
    <3>4. i.do \in {"find", "made"} => Holds(i, S[i.on])
      BY DEF Seeks
    <3>3. LET y == After(i, S[i.on])
              b == AnswerOf(i, y, p.answer)
          IN  /\ b \in 0 .. Len(y.matrices) - 1
              /\ y.matrices[b + 1] \in (IF i.do \in Pushing THEN {Raw} ELSE {i.key})
      BY <2>3, <3>1, <3>4, AnswerFacts
    <3>5. QED BY <2>6, <3>2, <3>3
  <2>8. z.answer = a /\ z.on = i.on /\ z.r = p.r
    BY <2>1, <2>5, <2>6 DEF Answers
  <2>9. z.on \in DOMAIN T /\ T[z.on] = x
    BY <2>1, <2>4, <2>5, <2>8
  <2>10. x.matrices[a + 1] \in {p.r.key, Raw}
    BY <2>1, <2>7
  <2>11. QED BY <2>7, <2>8, <2>9, <2>10 DEF RightAnswer
<1>3. QED BY <1>1, <1>2

(* The instruction leaves the answer alone.                                *)
LEMMA AnswersStill ==
  ASSUME NEW p, NEW S, NEW T, More(S, T), NEW i, NEW z, Answers(p, AnswerOf(i, T[i.on], p.answer), z),
         ~Replies(i) \/ (Seeks(i) /\ ~IsMade(T[i.on], i.key)),
         RightAnswer(p, S)
  PROVE  RightAnswer(z, T)
<1>1. AnswerOf(i, T[i.on], p.answer) = p.answer
  BY DEF AnswerOf, Answering, Pushing, Replies, Seeks
<1>2. RightAnswer(p, T)
  BY AnswersStay
<1>3. QED BY <1>1, <1>2 DEF RightAnswer, Answers

(* A test that fails leaves the systems as they are.                       *)
LEMMA SameSystem ==
  ASSUME NEW S, NEW n, SystemsInv(S, n), NEW i, Seeks(i),
         NEW T, Changed(S, i.on, After(i, S[i.on]), T)
  PROVE  T = S
<1>1. After(i, S[i.on]) = S[i.on]
  BY DEF After, Seeks
<1>2. S \in Seq({S[j] : j \in DOMAIN S})
  BY DEF SystemsInv, IsSeq
<1>3. S = [j \in DOMAIN S |-> S[j]]
  BY <1>2, LenProperties
<1>4. QED BY <1>1, <1>3 DEF Changed

(* What was sure and still is, but for what the instruction itself does.   *)
LEMMA StillSure ==
  ASSUME scenario \in Scenarios, NEW p, NEW S, NEW n \in Nat, SystemsInv(S, n), NEW h, Sat(p, S, h),
         NEW i, Permitted(i, Cx(p, S), h), ~Locks(i),
         NEW T, Changed(S, i.on, After(i, S[i.on]), T)
  PROVE  LET j == Succeeds(i, Cx(p, S), h)
         IN  /\ j.read \subseteq p.read \cup p.write /\ j.write \subseteq p.write
             /\ \A a \in j.absent : a[1] \in p.write /\ IsAbsent(T, a)
<1> DEFINE j == Succeeds(i, Cx(p, S), h)
<1>1. /\ j.read \subseteq h.read /\ j.write \subseteq h.write /\ j.absent \subseteq h.absent
      /\ "matrices" \in Writes(i) => \A a \in j.absent : a[1] # i.on
  BY DEF Succeeds, Away, Locks
<1> HIDE DEF j
<1>2. More(S, T)
  BY DoFacts
<1>6. \A k \in DOMAIN S : k # i.on \/ "matrices" \notin Writes(i) => T[k].index = S[k].index
  BY DoElsewhere
<1>3. ASSUME NEW a \in j.absent
      PROVE  a[1] \in p.write /\ IsAbsent(T, a)
  <2>1. a[1] \in p.write /\ IsAbsent(S, a)
    BY <1>1 DEF Sat, Meets
  <2>2. CASE a[1] \in DOMAIN S
    <3>1. T[a[1]].index = S[a[1]].index
      BY <1>1, <1>6, <2>2
    <3>2. QED BY <2>1, <2>2, <3>1 DEF IsAbsent, IsMade
  <2>3. CASE a[1] \in DOMAIN T \ DOMAIN S
    BY <2>1, <2>3, <1>2 DEF IsAbsent, IsMade, More
  <2>4. QED BY <2>1, <2>2, <2>3 DEF IsAbsent
<1>4. /\ j.read \subseteq p.read \cup p.write /\ j.write \subseteq p.write
  BY <1>1 DEF Sat, Meets
<1>5. QED BY <1>3, <1>4 DEF j

LEMMA Succeeding ==
  ASSUME scenario \in Scenarios, NEW p, NEW S, NEW n \in Nat, SystemsInv(S, n), NEW h, Sat(p, S, h),
         p.r.key \in {NoKey, <<"tensor">>} \/ p.on \in DOMAIN S,
         NEW i, Permitted(i, Cx(p, S), h), ~Locks(i),
         NEW T, Changed(S, i.on, After(i, S[i.on]), T), ~Throws(i, S[i.on]),
         NEW z, Answers(p, AnswerOf(i, T[i.on], p.answer), z),
         Seeks(i) => Holds(i, S[i.on])
  PROVE  Sat(z, T, Succeeds(i, Cx(p, S), h))
<1> DEFINE j == Succeeds(i, Cx(p, S), h)
<1>1. /\ j.read \subseteq p.read \cup p.write /\ j.write \subseteq p.write
      /\ \A a \in j.absent : a[1] \in p.write /\ IsAbsent(T, a)
  BY StillSure
<1>2. j.right => RightAnswer(z, T)
  <2>1. CASE Replies(i)
    <3>1. j.right = Names(i, Cx(p, S))
      BY <2>1 DEF Succeeds, Replies
    <3> HIDE DEF j
    <3>2. QED BY <2>1, <3>1, AnswersRight
  <2>2. CASE ~Replies(i)
    <3>1. j.right = h.right
      BY <2>2 DEF Succeeds, Replies
    <3>2. More(S, T) /\ (h.right => RightAnswer(p, S))
      BY DoFacts DEF Sat, Meets
    <3> HIDE DEF j
    <3>3. QED BY <2>2, <3>1, <3>2, AnswersStill
  <2>3. QED BY <2>1, <2>2
<1> HIDE DEF j
<1>3. Sat(z, T, j)
  BY <1>1, <1>2 DEF Sat, Meets, Answers
<1>4. QED BY <1>3 DEF j

LEMMA Failing ==
  ASSUME scenario \in Scenarios, NEW p, NEW S, NEW n \in Nat, SystemsInv(S, n), NEW h, Sat(p, S, h),
         NEW i, Permitted(i, Cx(p, S), h), Seeks(i), ~Holds(i, S[i.on]),
         NEW T, Changed(S, i.on, After(i, S[i.on]), T),
         NEW z, Answers(p, AnswerOf(i, T[i.on], p.answer), z)
  PROVE  Sat(z, T, Fails(i, Cx(p, S), h))
<1> DEFINE j == Fails(i, Cx(p, S), h)
<1>1. T = S /\ ~IsMade(S[i.on], i.key)
  <2>1. T = S
    BY SameSystem
  <2>2. ~IsMade(S[i.on], i.key)
    BY DEF Holds, Seeks
  <2>3. QED BY <2>1, <2>2
<1>2. More(S, T)
  BY DoFacts
<1>3. j = [h EXCEPT !.absent = @ \cup (IF i.on \in h.write THEN {<<i.on, i.key>>} ELSE {})]
  BY DEF Fails, Seeks
<1>4. j.read = h.read /\ j.write = h.write /\ j.right = h.right
  BY <1>3
<1>5. \A a \in j.absent : a \in h.absent \/ (i.on \in h.write /\ a = <<i.on, i.key>>)
  BY <1>3
<1> HIDE DEF j
<1>6. \A a \in j.absent : a[1] \in p.write /\ IsAbsent(T, a)
  BY <1>1, <1>5 DEF Sat, Meets, IsAbsent
<1>7. j.right => RightAnswer(z, T)
  <2>1. h.right => RightAnswer(p, S)
    BY DEF Sat, Meets
  <2>2. QED BY <1>1, <1>2, <1>4, <2>1, AnswersStill
<1>8. Sat(z, T, j)
  BY <1>4, <1>6, <1>7 DEF Sat, Meets, Answers
<1>9. QED BY <1>8 DEF j

-----------------------------------------------------------------------------
Follows(y, z, i, x) == y = Proceed(z, IF Holds(i, x) THEN i.skip ELSE 0)

GoesOn(p, S, n, y, T) ==
  /\ SystemsInv(T, n) /\ More(S, T)
  /\ \A k \in DOMAIN S : T[k].index = S[k].index \/ k \in p.write
  /\ IsCall(y) /\ CallInv(y, T)
  /\ y.read \subseteq p.read /\ y.write \subseteq p.write

LEMMA DoCall ==
  ASSUME scenario \in Scenarios, NEW p, IsCall(p), NEW S, NEW n \in Nat, SystemsInv(S, n), CallInv(p, S),
         NEW i, p.todo # <<>>, i = Head(p.todo), ~Locks(i),
         NEW T, Changed(S, i.on, After(i, S[i.on]), T), ~Throws(i, S[i.on]),
         NEW z, Answers(p, AnswerOf(i, T[i.on], p.answer), z),
         NEW y, Follows(y, z, i, S[i.on])
  PROVE  GoesOn(p, S, n, y, T)
<1>1. PICK H : Typing(p.todo, Cx(p, S), H) /\ Sat(p, S, H[1]) /\ H[Len(p.todo) + 1].right
  BY DEF CallInv
<1>2. p.r.key \in {NoKey, <<"tensor">>} \/ p.on \in DOMAIN S
  BY DEF CallInv
<1>3. PICK h : h = H[1]
  OBVIOUS
<1>4. Permitted(i, Cx(p, S), h) /\ Sat(p, S, h)
  BY <1>1, <1>3, FirstFacts
<1>5. SystemsInv(T, n) /\ More(S, T)
  BY <1>4, DoFacts
<1>6. \A k \in DOMAIN S : T[k].index = S[k].index \/ k \in p.write
  BY <1>4, DoFacts
<1>7. /\ IsCall(z) /\ z.todo = p.todo /\ z.r = p.r /\ z.on = p.on
      /\ z.read = p.read /\ z.write = p.write
  BY DEF Answers
<1>8. Cx(z, T) = Cx(p, S)
  BY <1>5, <1>7 DEF Cx, SystemsInv
<1>9. z.r.key \in {NoKey, <<"tensor">>} \/ z.on \in DOMAIN T
  BY <1>2, <1>5, <1>7 DEF More
<1>10. Typing(z.todo, Cx(z, T), H) /\ H[Len(z.todo) + 1].right /\ z.todo # <<>> /\ i = Head(z.todo)
  BY <1>1, <1>7, <1>8
<1>11. CASE Holds(i, S[i.on])
  <2>1. Sat(z, T, Succeeds(i, Cx(p, S), h))
    BY <1>2, <1>4, <1>11, Succeeding
  <2>2. Sat(z, T, Succeeds(i, Cx(z, T), H[1]))
    BY <2>1, <1>3, <1>8
  <2>3. y = Proceed(z, i.skip)
    BY <1>11 DEF Follows
  <2>4. /\ IsCall(Proceed(z, i.skip)) /\ CallInv(Proceed(z, i.skip), T)
        /\ Proceed(z, i.skip).read \subseteq z.read /\ Proceed(z, i.skip).write \subseteq z.write
    BY <1>7, <1>9, <1>10, <2>2, MovePast
  <2>5. QED BY <1>5, <1>6, <1>7, <2>3, <2>4 DEF GoesOn
<1>12. CASE ~Holds(i, S[i.on])
  <2>1. Sat(z, T, Fails(i, Cx(p, S), h))
    <3>1. CASE Seeks(i)
      BY <1>2, <1>4, <1>12, <3>1, Failing
    <3>2. CASE ~Seeks(i)
      <4>1. Sat(z, T, Succeeds(i, Cx(p, S), h))
        BY <1>2, <1>4, <3>2, Succeeding
      <4>2. Fails(i, Cx(p, S), h) = Succeeds(i, Cx(p, S), h)
        BY <3>2 DEF Fails, Seeks
      <4>3. QED BY <4>1, <4>2
    <3>3. QED BY <3>1, <3>2
  <2>2. Sat(z, T, Fails(i, Cx(z, T), H[1]))
    BY <2>1, <1>3, <1>8
  <2>3. y = Proceed(z, 0)
    BY <1>12 DEF Follows
  <2>4. /\ IsCall(Proceed(z, 0)) /\ CallInv(Proceed(z, 0), T)
        /\ Proceed(z, 0).read \subseteq z.read /\ Proceed(z, 0).write \subseteq z.write
    BY <1>7, <1>9, <1>10, <2>2, MoveNext
  <2>5. QED BY <1>5, <1>6, <1>7, <2>3, <2>4 DEF GoesOn
<1>13. QED BY <1>11, <1>12

LEMMA DoStep ==
  ASSUME SessionInv, StorageInv', NEW c \in Walkers, Do(c)
  PROVE  SessionInv'
<1> DEFINE i == Head(call[c].todo)  z == Answered(call[c], i, system[i.on], system'[i.on])
           y == Proceed(z, IF Holds(i, system[i.on]) THEN i.skip ELSE 0)
<1>1. /\ call[c].todo # <<>> /\ ~Locks(i) /\ ~Throws(i, system[i.on])
      /\ scenario' = scenario /\ stored' = stored /\ scenario \in Scenarios
  BY DEF Do, Works, Running, Next1, vars, Locks, SessionInv
<1>2. Changed(system, i.on, After(i, system[i.on]), system')
  BY DEF Do, Next1, Changed
<1>3. call' = [call EXCEPT ![c] = y]
  BY DEF Do, Next1
<1>4. IsCall(call[c]) /\ CallInv(call[c], system) /\ SystemsInv(system, stored) /\ stored \in Nat
  BY DEF SessionInv, LockInv, StorageInv, StorageType
<1>5. Answers(call[c], AnswerOf(i, system'[i.on], call[c].answer), z)
  BY <1>4, AnsweredFacts
<1> HIDE DEF i, z, y
<1>6. /\ i = Head(call[c].todo)
      /\ Follows(y, z, i, system[i.on])
  BY DEF i, y, Follows
<1>7. /\ SystemsInv(system', stored) /\ More(system, system')
      /\ \A k \in DOMAIN system : system'[k].index = system[k].index \/ k \in call[c].write
      /\ IsCall(y) /\ CallInv(y, system')
      /\ y.read \subseteq call[c].read /\ y.write \subseteq call[c].write
  <2>1. PICK p : p = call[c]
    OBVIOUS
  <2>2. PICK T : T = system'
    OBVIOUS
  <2>3. /\ IsCall(p) /\ SystemsInv(system, stored) /\ stored \in Nat /\ CallInv(p, system)
        /\ p.todo # <<>> /\ i = Head(p.todo) /\ ~Locks(i)
        /\ Changed(system, i.on, After(i, system[i.on]), T) /\ ~Throws(i, system[i.on])
        /\ Answers(p, AnswerOf(i, T[i.on], p.answer), z)
        /\ Follows(y, z, i, system[i.on])
    BY <1>1, <1>2, <1>4, <1>5, <1>6, <2>1, <2>2
  <2>4. GoesOn(p, system, stored, y, T)
    BY <1>1, <2>3, DoCall
  <2>5. QED BY <2>1, <2>2, <2>4 DEF GoesOn
<1>8. /\ \A o \in y.read \ call[c].read : \A d \in Walkers : o \notin call[d].write
      /\ \A o \in y.write \ call[c].write : \A d \in Walkers : o \notin call[d].write \cup call[d].read
  BY <1>7
<1>9. SystemsInv(system', stored')
  BY <1>1, <1>7
<1>10. QED BY <1>1, <1>3, <1>7, <1>8, <1>9, ClientSteps

-----------------------------------------------------------------------------
LEMMA Unchanged ==
  ASSUME SessionInv, system' = system, stored' = stored
  PROVE  /\ SystemsInv(system', stored') /\ More(system, system')
         /\ \A o \in DOMAIN system : system'[o].index = system[o].index
  BY MoreFacts DEF SessionInv, StorageInv, StorageType

LEMMA NoRequest ==
  ASSUME NEW r, r.fn \in DOMAIN FunctionTable,
         r.fn \notin DOMAIN SystemKinds \cup WithoutSystem \cup {"list", "release"}
  PROVE  r.fn \in WithProgram
  BY DEF WithProgram

(* An object that is found is a system that is stored.                     *)
LEMMA Found ==
  ASSUME SessionInv, NEW at, ObjectAt(at) # NoObject
  PROVE  ObjectAt(at) \in 1 .. stored /\ ObjectAt(at) \in DOMAIN system
<1>1. SystemsInv(system, stored) /\ stored \in Nat /\ objects \subseteq Nat \X (1 .. stored)
  BY DEF SessionInv, StorageInv, StorageType
<1>2. DOMAIN system = 1 .. stored
  BY <1>1, MoreFacts
<1>3. at \in Keys
  BY DEF ObjectAt
<1>4. \E q \in objects : q[1] = at
  BY <1>3 DEF Keys
<1>5. PICK q \in objects : ObjectAt(at) = q[2]
  BY <1>3, <1>4 DEF ObjectAt
<1>6. QED BY <1>1, <1>2, <1>5

(* A call that begins.                                                     *)
Begins(p, S) ==
  /\ IsCall(p)
  /\ p.read = {} /\ p.write = {} /\ p.answer = -1
  /\ p.r.key \in {NoKey, <<"tensor">>} \/ p.on \in DOMAIN S
  /\ Typed(p.todo, Cx(p, S), Free(TRUE), Free(TRUE))

LEMMA BeginsFacts ==
  ASSUME NEW p, NEW S, Begins(p, S)
  PROVE  CallInv(p, S)
<1>1. PICK H : /\ Typing(p.todo, Cx(p, S), H) /\ Weaker(H[1], Free(TRUE))
               /\ Weaker(Free(TRUE), H[Len(p.todo) + 1])
  BY DEF Begins, Typed
<1>2. Sat(p, S, Free(TRUE))
  BY DEF Begins, Sat, Meets, Free, Sure, RightAnswer
<1>3. Sat(p, S, H[1])
  BY <1>1, <1>2, WeakerSat
<1>4. H[Len(p.todo) + 1].right
  BY <1>1 DEF Weaker, Free, Sure
<1>5. QED BY <1>1, <1>3, <1>4 DEF Begins, CallInv

LEMMA BeginSteps ==
  ASSUME SessionInv, StorageInv', scenario' = scenario, system' = system, stored' = stored,
         NEW c \in Walkers, NEW p, Begins(p, system), call' = [call EXCEPT ![c] = p]
  PROVE  SessionInv'
<1>1. IsCall(p) /\ p.read = {} /\ p.write = {} /\ CallInv(p, system')
  BY BeginsFacts DEF Begins
<1>2. /\ \A o \in p.read \ call[c].read : \A d \in Walkers : o \notin call[d].write
      /\ \A o \in p.write \ call[c].write : \A d \in Walkers : o \notin call[d].write \cup call[d].read
  BY <1>1
<1>3. /\ SystemsInv(system', stored') /\ More(system, system')
      /\ \A o \in DOMAIN system : system'[o].index = system[o].index \/ o \in call[c].write
  BY Unchanged
<1>4. QED BY <1>1, <1>2, <1>3, ClientSteps

LEMMA BeginStep ==
  ASSUME SessionInv, StorageInv', NEW c \in Walkers, NEW r \in scenario.requests, Begin(c, r)
  PROVE  SessionInv'
<1> DEFINE o == ObjectAt(r.at)  b == system[o].source  kind == system[o].kind
           todo == Program(r, Given(r), o, b, kind)
           p == [Idle EXCEPT !.r = r, !.on = o, !.known = system[o].known, !.todo = todo]
<1>1. /\ o # NoObject /\ r.fn \in WithProgram /\ KeySuits(r)
  <2>1. scenario \in Scenarios
    BY DEF SessionInv
  <2>2. r.fn \in DOMAIN FunctionTable /\ KeySuits(r)
    BY <2>1, ScenariosAssumption
  <2>3. QED BY <2>2, NoRequest DEF Begin, Suits
<1>2. /\ call' = [call EXCEPT ![c] = p]
      /\ scenario' = scenario /\ system' = system /\ stored' = stored
  BY DEF Begin, vars
<1>3. o \in 1 .. stored /\ o \in DOMAIN system /\ SystemsInv(system, stored) /\ stored \in Nat
  BY <1>1, Found DEF SessionInv, StorageInv, StorageType
<1>4. b \in 0 .. o - 1 /\ Len(system) = stored
  BY <1>3 DEF SystemsInv, SystemInv
<1> HIDE DEF o, b, kind, todo
<1>5. /\ IsCall(p) /\ p.read = {} /\ p.write = {} /\ p.answer = -1 /\ p.r = r /\ p.on = o /\ p.todo = todo
  BY DEF Idle, IsCall, CallFields
<1> HIDE DEF p
<1>6. PICK cx : cx = Cx(p, system)
  OBVIOUS
<1>7. Around(cx, o, b) /\ Around(cx, o, NoSource) /\ cx.key = r.key
  BY <1>3, <1>4, <1>5, <1>6 DEF Cx, Around, NoSource
<1>8. r.fn = "import_polynomial" => r.n \in cx.largest
  BY <1>6 DEF Cx, Largest
<1>9. Typed(Program(r, Given(r), o, b, kind), cx, Free(TRUE), Free(TRUE))
  BY <1>1, <1>7, <1>8, ProgramTyped
<1>10. Begins(p, system)
  BY <1>3, <1>5, <1>6, <1>9 DEF Begins, todo
<1>11. QED BY <1>2, <1>10, BeginSteps

LEMMA VisitFacts ==
  ASSUME SessionInv, NEW c, NEW i
  PROVE  Begins(VisitAt(c, i), system)
<1> DEFINE o == ObjectAt(i)
           p == VisitAt(c, i)
<1>1. CASE o = NoObject
  <2>1. p = Idle
    BY <1>1 DEF VisitAt
  <2>2. Typed(<<>>, Cx(Idle, system), Free(TRUE), Free(TRUE))
    BY TypedNothing
  <2>3. QED BY <2>1, <2>2, IdleFacts DEF Begins
<1>2. CASE o # NoObject
  <2>1. p = [Idle EXCEPT !.r.fn = "list", !.todo = Reading(o, Look(o))]
    BY <1>2 DEF VisitAt
  <2>2. o \in 1 .. stored /\ Len(system) = stored /\ stored \in Nat
    BY <1>2, Found DEF SessionInv, StorageInv, StorageType, SystemsInv
  <2> HIDE DEF o, p
  <2>3. /\ IsCall(p) /\ p.read = {} /\ p.write = {} /\ p.answer = -1 /\ p.r.key = NoKey
        /\ p.todo = Reading(o, Look(o))
    BY <2>1 DEF Idle, IsCall, CallFields
  <2>4. o \in Cx(p, system).systems
    BY <2>2 DEF Cx
  <2>5. Typed(Reading(o, Look(o)), Cx(p, system), Free(TRUE), Free(TRUE))
    BY <2>4, TypedLooking
  <2>6. QED BY <2>3, <2>5 DEF Begins, p
<1>3. QED BY <1>1, <1>2

LEMMA ListSteps ==
  ASSUME SessionInv, StorageInv', NEW c \in Walkers, ListNext(c) \/ \E r \in scenario.requests : BeginList(c, r)
  PROVE  SessionInv'
<1> DEFINE p == VisitAt(c, walk'[c].at)
<1>1. /\ call' = [call EXCEPT ![c] = p]
      /\ scenario' = scenario /\ system' = system /\ stored' = stored
  BY DEF ListNext, BeginList, First, NextItem
<1>2. Begins(p, system)
  BY VisitFacts
<1> HIDE DEF p
<1>3. QED BY <1>1, <1>2, BeginSteps

-----------------------------------------------------------------------------
(* A system more, without matrices yet.                                    *)
LEMMA SystemStored ==
  ASSUME SessionInv, NEW kind, NEW source \in 0 .. stored, NEW words,
         kind = "imported" => words = {0},
         stored' = stored + 1, system' = Append(system, NewSystem(kind, source, words))
  PROVE  /\ SystemsInv(system', stored') /\ More(system, system')
         /\ \A o \in DOMAIN system : system'[o].index = system[o].index
<1> DEFINE x == NewSystem(kind, source, words)
<1>1. stored \in Nat /\ SystemsInv(system, stored)
  BY DEF SessionInv, StorageInv, StorageType
<1>2. stored + 1 \in Nat /\ source \in 0 .. (stored + 1) - 1
  BY <1>1
<1>4. SystemInv(x, stored + 1) /\ DOMAIN x.index = {}
  BY <1>2, NewSystemFacts
<1> HIDE DEF x
<1>5. /\ SystemsInv(Append(system, x), stored + 1) /\ More(system, Append(system, x))
      /\ \A o \in DOMAIN system : Append(system, x)[o].index = system[o].index
  BY <1>1, <1>4, AppendSystem
<1>6. QED BY <1>5 DEF x

LEMMA CreateStep ==
  ASSUME SessionInv, StorageInv', NEW c \in Walkers, NEW r \in scenario.requests, CreateSystem(c, r)
  PROVE  SessionInv'
<1> DEFINE kind == SystemKinds[r.fn]
<1>1. /\ stored' = stored + 1 /\ scenario' = scenario /\ call' = call
      /\ system' = Append(system, NewSystem(kind, NoSource, FirstWords))
  BY DEF CreateSystem, Store
<1>2. NoSource \in 0 .. stored
  BY DEF NoSource, SessionInv, StorageInv, StorageType
<1>3. FirstWords = {0}
  BY DEF FirstWords
<1> HIDE DEF kind
<1>4. /\ SystemsInv(system', stored') /\ More(system, system')
      /\ \A o \in DOMAIN system : system'[o].index = system[o].index
  BY <1>1, <1>2, <1>3, SystemStored
<1>5. QED BY <1>1, <1>4, BankSteps

LEMMA StoreCall ==
  ASSUME NEW p, IsCall(p), NEW S, CallInv(p, S), p.todo # <<>>, Head(p.todo).do = "store"
  PROVE  /\ IsCall(Proceed(p, 0)) /\ CallInv(Proceed(p, 0), S)
         /\ Proceed(p, 0).read \subseteq p.read /\ Proceed(p, 0).write \subseteq p.write
         /\ Head(p.todo).on \in 0 .. Len(S)
<1>1. PICK H : Typing(p.todo, Cx(p, S), H) /\ Sat(p, S, H[1]) /\ H[Len(p.todo) + 1].right
  BY DEF CallInv
<1>2. PICK i : i = Head(p.todo)
  OBVIOUS
<1>3. Permitted(i, Cx(p, S), H[1])
  BY <1>1, <1>2, FirstFacts
<1>4. Weaker(Fails(i, Cx(p, S), H[1]), H[1])
  BY <1>2 DEF Fails, Succeeds, Writes, Answering, Pushing, Weaker
<1>5. Sat(p, S, Fails(i, Cx(p, S), H[1]))
  BY <1>1, <1>4, WeakerSat
<1>6. p.r.key \in {NoKey, <<"tensor">>} \/ p.on \in DOMAIN S
  BY DEF CallInv
<1>7. /\ IsCall(Proceed(p, 0)) /\ CallInv(Proceed(p, 0), S)
      /\ Proceed(p, 0).read \subseteq p.read /\ Proceed(p, 0).write \subseteq p.write
  BY <1>1, <1>2, <1>5, <1>6, MoveNext
<1>8. i.on \in 0 .. Len(S)
  BY <1>3 DEF Permitted, Cx
<1>9. QED BY <1>2, <1>7, <1>8

LEMMA StoreStep ==
  ASSUME SessionInv, StorageInv', NEW c \in Walkers, StoreSymmetrized(c)
  PROVE  SessionInv'
<1>1. PICK p : p = call[c]
  OBVIOUS
<1>2. PICK o : o = Head(p.todo).on
  OBVIOUS
<1>3. p.todo # <<>> /\ Head(p.todo).do = "store" /\ scenario' = scenario
  BY <1>1 DEF StoreSymmetrized, At, Running, Next1
<1>4. IsCall(p) /\ CallInv(p, system) /\ Len(system) = stored
  BY <1>1 DEF SessionInv, LockInv, SystemsInv
<1>5. PICK reach :
       \/ /\ Store
          /\ system' = Append(system, NewSystem("symmetrized", o, 0 .. reach))
          /\ call' = [call EXCEPT ![c] = Proceed(p, 0)]
       \/ /\ call' = [call EXCEPT ![c] = Return(p)]
          /\ UNCHANGED <<vars, system>>
  BY <1>1, <1>2 DEF StoreSymmetrized, Next1
<1>6. CASE /\ Store
           /\ system' = Append(system, NewSystem("symmetrized", o, 0 .. reach))
           /\ call' = [call EXCEPT ![c] = Proceed(p, 0)]
  <2>1. o \in 0 .. stored
    BY <1>2, <1>3, <1>4, StoreCall
  <2>2. stored' = stored + 1
    BY <1>6 DEF Store
  <2>3. /\ SystemsInv(system', stored') /\ More(system, system')
        /\ \A k \in DOMAIN system : system'[k].index = system[k].index
    <3>1. "symmetrized" = "imported" => 0 .. reach = {0}
      OBVIOUS
    <3>2. QED BY <1>6, <2>1, <2>2, <3>1, SystemStored
  <2>4. CallInv(p, system')
    BY <1>4, <2>3, CallStays
  <2>5. /\ IsCall(Proceed(p, 0)) /\ CallInv(Proceed(p, 0), system')
        /\ Proceed(p, 0).read \subseteq p.read /\ Proceed(p, 0).write \subseteq p.write
    BY <1>3, <1>4, <2>4, StoreCall
  <2>6. PICK y : y = Proceed(p, 0)
    OBVIOUS
  <2>7. /\ IsCall(y) /\ CallInv(y, system') /\ call' = [call EXCEPT ![c] = y]
        /\ \A k \in y.read \ call[c].read : \A d \in Walkers : k \notin call[d].write
        /\ \A k \in y.write \ call[c].write : \A d \in Walkers : k \notin call[d].write \cup call[d].read
    BY <1>1, <1>6, <2>5, <2>6
  <2>8. \A k \in DOMAIN system : system'[k].index = system[k].index \/ k \in call[c].write
    BY <2>3
  <2>9. QED BY <1>3, <2>3, <2>7, <2>8, ClientSteps
<1>7. CASE /\ call' = [call EXCEPT ![c] = Return(p)]
           /\ UNCHANGED <<vars, system>>
  <2>1. Return(p) \in {Idle, Return(call[c])} /\ system' = system /\ stored' = stored
    BY <1>1, <1>7 DEF vars
  <2>2. QED BY <1>3, <1>7, <2>1, ReturnSteps
<1>8. QED BY <1>5, <1>6, <1>7

LEMMA EndSteps ==
  ASSUME SessionInv, StorageInv', NEW c \in Walkers, Throw(c) \/ \E r \in scenario.requests : Refuse(c, r)
  PROVE  SessionInv'
<1>1. scenario' = scenario /\ system' = system /\ stored' = stored
  BY DEF Throw, Refuse, vars
<1>2. PICK p \in {Idle, Return(call[c])} : call' = [call EXCEPT ![c] = p]
  BY DEF Throw, Refuse
<1>3. QED BY <1>1, <1>2, ReturnSteps

(* Steps of the bank alone.                                                *)
LEMMA OtherSteps ==
  ASSUME SessionInv, StorageInv',
         \/ \E c \in Walkers : EndList(c) \/ \E r \in scenario.requests : ReleaseSystem(c, r)
         \/ ClearMtk \/ Stop \/ UNCHANGED <<vars, sessionVars>>
  PROVE  SessionInv'
<1>1. scenario' = scenario /\ system' = system /\ call' = call /\ stored' = stored
  BY DEF EndList, EndWalk, ReleaseSystem, Release, ClearMtk, Clear, Stop, vars, sessionVars
<1>2. QED BY <1>1, Unchanged, BankSteps

-----------------------------------------------------------------------------
LEMMA SessionStarts ==
  ASSUME SessionInit, StorageInv
  PROVE  SessionInv
<1>1. /\ scenario \in Scenarios /\ stored = Len(scenario.systems) /\ stored \in Nat
      /\ call = [c \in Walkers |-> Idle]
  BY DEF SessionInit, StorageInv, StorageType
<1> DEFINE s(i) == scenario.systems[i]  x(i) == NewSystem(s(i).kind, s(i).source, s(i).words)
<1>2. system = [i \in 1 .. stored |-> x(i)]
  BY DEF SessionInit
<1>3. ASSUME NEW i \in 1 .. stored
      PROVE  SystemInv(x(i), i)
  <2>1. s(i).source \in 0 .. i - 1 /\ (s(i).kind = "imported" => s(i).words = {0})
    BY <1>1, ScenariosAssumption DEF FirstWords
  <2>2. i \in Nat
    BY <1>1
  <2> HIDE DEF s
  <2>3. QED BY <2>1, <2>2, NewSystemFacts
<1> HIDE DEF x
<1>4. SystemsInv(system, stored)
  <2> DEFINE E == {x(i) : i \in 1 .. stored}
  <2>1. system \in [1 .. stored -> E]
    BY <1>2
  <2>2. DOMAIN system = 1 .. stored /\ \A i \in 1 .. stored : system[i] = x(i)
    BY <1>2
  <2> HIDE DEF E
  <2>3. system \in Seq(E)
    BY <1>1, <2>1
  <2>4. IsSeq(system) /\ Len(system) = stored
    BY <1>1, <2>2, <2>3, SeqIntro, LenProperties
  <2>5. QED BY <1>3, <2>2, <2>4 DEF SystemsInv
<1>5. LockInv
  BY <1>1, IdleFacts DEF LockInv
<1>6. ASSUME NEW c \in Walkers
      PROVE  CallInv(call[c], system)
  BY <1>1, IdleFacts, DoneInv
<1>7. QED BY <1>1, <1>4, <1>5, <1>6 DEF SessionInv

LEMMA SessionSteps ==
  ASSUME SessionInv, StorageInv', [SessionNext]_<<vars, sessionVars>>
  PROVE  SessionInv'
<1>1. ASSUME NEW c \in Walkers, Step(c)
      PROVE  SessionInv'
  BY <1>1, ReadLockStep, WriteLockStep, EndSteps, DoStep, StoreStep, ListSteps, OtherSteps DEF Step
<1>2. ASSUME NEW c \in Walkers, NEW r \in scenario.requests, Call(c, r)
      PROVE  SessionInv'
  BY <1>2, EndSteps, BeginStep, CreateStep, OtherSteps, ListSteps DEF Call
<1>3. CASE ClearMtk \/ Stop \/ UNCHANGED <<vars, sessionVars>>
  BY <1>3, OtherSteps
<1>4. QED BY <1>1, <1>2, <1>3 DEF SessionNext

LEMMA SessionInvariant == SessionSpec => []SessionInv
<1>1. SessionInit /\ StorageInv => SessionInv
  BY SessionStarts
<1>2. SessionInv /\ StorageInv' /\ [SessionNext]_<<vars, sessionVars>> => SessionInv'
  BY SessionSteps
<1>3. QED BY <1>1, <1>2, StorageInvariant, PTL DEF SessionSpec

-----------------------------------------------------------------------------
(* What is permitted to a client at its next step.                         *)
LEMMA NextPermitted ==
  ASSUME SessionInv, NEW c \in Walkers, Running(c)
  PROVE  /\ Writes(Next1(c)) # {} => Next1(c).on \in call[c].write
         /\ Reads(Next1(c)) # {} => Next1(c).on \in call[c].read \cup call[c].write
<1>1. PICK p : p = call[c]
  OBVIOUS
<1>2. CallInv(p, system) /\ p.todo # <<>>
  BY <1>1 DEF SessionInv, Running
<1>3. PICK H : Typing(p.todo, Cx(p, system), H) /\ Sat(p, system, H[1])
  BY <1>2 DEF CallInv
<1>4. Permitted(Head(p.todo), Cx(p, system), H[1])
  BY <1>2, <1>3, FirstFacts
<1>5. /\ Writes(Head(p.todo)) # {} => Head(p.todo).on \in p.write
      /\ Reads(Head(p.todo)) # {} => Head(p.todo).on \in p.read \cup p.write
  BY <1>3, <1>4 DEF Permitted, Sat, Meets
<1>6. QED BY <1>1, <1>5 DEF Next1

(* No client writes what another reads under a lock, or writes, at the     *)
(* time: every function holds the write lock for what it writes and, but   *)
(* for the peeks, a lock for what it reads, on every way through it,       *)
(* whatever other clients do. What the peeks read may well be written      *)
(* meanwhile (ReadsAreLocked does not hold).                               *)
THEOREM WritersAreAlone == SessionSpec => []NoRaces
<1>1. SessionInv => NoRaces
  <2> SUFFICES ASSUME SessionInv, NEW c \in Walkers, NEW d \in Walkers,
                      c # d, Running(c), Running(d), Next1(c).on = Next1(d).on,
                      Writes(Next1(c)) \cap (Reads(Next1(d)) \cup Writes(Next1(d))) # {}
               PROVE  FALSE
    BY DEF NoRaces
  <2>1. PICK o : o = Next1(c).on
    OBVIOUS
  <2>2. Writes(Next1(c)) # {} /\ (Reads(Next1(d)) # {} \/ Writes(Next1(d)) # {})
    OBVIOUS
  <2>3. o \in call[c].write
    BY <2>1, <2>2, NextPermitted
  <2>4. o \in call[d].read \cup call[d].write
    BY <2>1, <2>2, NextPermitted
  <2>5. call[c].write \cap (call[d].read \cup call[d].write) = {}
    BY DEF SessionInv, LockInv
  <2>6. QED BY <2>3, <2>4, <2>5
<1>2. QED BY <1>1, SessionInvariant, PTL

(* The index that a call has returned is that of the matrix it was asked   *)
(* for: nothing that happens between the place where the matrix was looked *)
(* for or made and the return of the call, or after it, moves the matrix.  *)
THEOREM AnswersAreRight == SessionSpec => []AnswersNameTheirMatrix
<1>1. SessionInv => AnswersNameTheirMatrix
  <2> SUFFICES ASSUME SessionInv, NEW c \in Walkers, ~Running(c), call[c].answer >= 0,
                      call[c].r.key \notin {NoKey, <<"tensor">>}
               PROVE  system[call[c].on].matrices[call[c].answer + 1] \in {call[c].r.key, Raw}
    BY DEF AnswersNameTheirMatrix
  <2>1. PICK p : p = call[c]
    OBVIOUS
  <2>2. CallInv(p, system) /\ p.todo = <<>>
    BY <2>1 DEF SessionInv, Running
  <2>3. PICK H : Sat(p, system, H[1]) /\ H[Len(p.todo) + 1].right
    BY <2>2 DEF CallInv
  <2>4. Len(p.todo) + 1 = 1
    BY <2>2, SmallSeqs
  <2>5. RightAnswer(p, system)
    BY <2>3, <2>4 DEF Sat, Meets
  <2>6. p.answer # -1
    BY <2>1
  <2>7. QED BY <2>1, <2>5, <2>6 DEF RightAnswer
<1>2. QED BY <1>1, SessionInvariant, PTL

(* No matrix is made twice, although a client looks for it under a read    *)
(* lock and makes it under a write lock taken later; and an imported       *)
(* system has the symbols up to the largest that was named, however many   *)
(* calls have found too few at the same time.                              *)
THEOREM MatricesAreUnique == SessionSpec => []NothingMadeTwice
<1>1. SessionInv => NothingMadeTwice
  <2> SUFFICES ASSUME SessionInv, NEW o \in DOMAIN system
               PROVE  /\ \A i, j \in DOMAIN system[o].matrices :
                           system[o].matrices[i] = system[o].matrices[j] => i = j \/ system[o].matrices[i] = Raw
                      /\ system[o].kind = "imported" => Symbols(system[o]) - 1 \in Largest
    BY DEF NothingMadeTwice
  <2>1. SystemsInv(system, stored) /\ stored \in Nat
    BY DEF SessionInv, StorageInv, StorageType
  <2>2. o \in 1 .. stored
    BY <2>1, MoreFacts
  <2>3. SystemInv(system[o], o)
    BY <2>1, <2>2 DEF SystemsInv
  <2>4. Filing(system[o].matrices, system[o].index)
    BY <2>3 DEF SystemInv
  <2>5. \A i, j \in DOMAIN system[o].matrices :
          system[o].matrices[i] = system[o].matrices[j] => i = j \/ system[o].matrices[i] = Raw
    <3>1. PICK M : M = system[o].matrices
      OBVIOUS
    <3>2. PICK I : I = system[o].index
      OBVIOUS
    <3>3. Filing(M, I) /\ IsSeq(M)
      BY <2>4, <3>1, <3>2 DEF Filing
    <3>4. DOMAIN M = 1 .. Len(M)
      BY <3>3, SeqFacts
    <3>5. \A i, j \in DOMAIN M : M[i] = M[j] => i = j \/ M[i] = Raw
      BY <3>3, <3>4 DEF Filing
    <3>6. QED BY <3>1, <3>5
  <2>6. system[o].kind = "imported" => Symbols(system[o]) - 1 \in Largest
    <3>1. PICK S : S = system[o]
      OBVIOUS
    <3> SUFFICES ASSUME S.kind = "imported" PROVE Symbols(S) - 1 \in Largest
      BY <3>1
    <3>2. Symbols(S) = 1 + S.unnamed /\ S.unnamed \in Largest
      BY <2>3, <3>1, SymbolsFacts DEF SystemInv
    <3>3. S.unnamed \in Nat
      BY <3>2, LargestFacts DEF SessionInv
    <3>4. (1 + S.unnamed) - 1 = S.unnamed
      BY <3>3
    <3>5. QED BY <3>2, <3>4
  <2>7. QED BY <2>5, <2>6
<1>2. QED BY <1>1, SessionInvariant, PTL

-----------------------------------------------------------------------------
(* Tensors. A tensor is whole if it has all its symbols, and due if it     *)
(* will have them as soon as it is there; both unless the Collins-Gisin    *)
(* tensor has been replaced. This a system keeps, whatever is done to it.  *)
TensorNames == {"cg", "fc", "pt"}

Whole(S, t) == S.cg > 0 /\ (S.cg = 1 => t \in S.complete)
Due(S, t)   == S.cg > 0 /\ (S.cg = 1 => "cg" \in S.complete /\ (S[t] = 0 \/ t \in S.complete))

TensorsInv(S) ==
  /\ S.cg \in Nat /\ S.fc \in Nat /\ S.pt \in Nat
  /\ S.fc <= S.cg /\ S.pt <= S.cg

Steady(S, T) ==
  /\ TensorsInv(T)
  /\ S.known \subseteq T.known
  /\ S.cg <= T.cg
  /\ \A t \in TensorNames : /\ HasTensor(S, t) => HasTensor(T, t)
                            /\ Whole(S, t) => Whole(T, t)
                            /\ Due(S, t) => Due(T, t)

SameTensors(S, T) == T.cg = S.cg /\ T.fc = S.fc /\ T.pt = S.pt /\ T.complete = S.complete

LEMMA SteadySame ==
  ASSUME NEW S, TensorsInv(S), NEW T, SameTensors(S, T), S.known \subseteq T.known
  PROVE  Steady(S, T)
<1>1. \A t \in TensorNames : T[t] = S[t]
  BY DEF TensorNames, SameTensors
<1>2. QED BY <1>1 DEF Steady, TensorsInv, SameTensors, HasTensor, Whole, Due

(* Matrices and symbols do not touch the tensors.                          *)
LEMMA TensorsLeft ==
  ASSUME NEW S, IsSystem(S), NEW key, NEW n
  PROVE  /\ SameTensors(S, Pushed(S, key)) /\ Pushed(S, key).known = S.known /\ IsSystem(Pushed(S, key))
         /\ SameTensors(S, Indexed(S, key)) /\ S.known \subseteq Indexed(S, key).known
         /\ SameTensors(S, Added(S, key)) /\ Added(S, key).known = S.known
         /\ SameTensors(S, WithParts(S, key)) /\ S.known \subseteq WithParts(S, key).known
         /\ IsSystem(WithParts(S, key))
         /\ SameTensors(S, WithSymbols(S, n)) /\ WithSymbols(S, n).known = S.known
<1>1. SameTensors(S, Pushed(S, key)) /\ Pushed(S, key).known = S.known /\ IsSystem(Pushed(S, key))
  BY Fields DEF Pushed, SameTensors, IsSystem
<1>2. SameTensors(S, Indexed(S, key)) /\ S.known \subseteq Indexed(S, key).known
  BY Fields DEF Indexed, SameTensors, IsSystem
<1>3. SameTensors(S, Added(S, key)) /\ Added(S, key).known = S.known
  <2> DEFINE P == Pushed(S, key)
  <2>1. Added(S, key) = [P EXCEPT !.index = Insert(@, key, Len(S.matrices))]
    BY DEF Added
  <2> HIDE DEF P
  <2>2. IsSystem(P) => SameTensors(P, Added(S, key)) /\ Added(S, key).known = P.known
    BY <2>1, Fields DEF SameTensors, IsSystem
  <2>3. QED BY <2>2, <1>1 DEF P, SameTensors
<1>4. /\ SameTensors(S, WithParts(S, key)) /\ S.known \subseteq WithParts(S, key).known
      /\ IsSystem(WithParts(S, key))
  BY Fields DEF WithParts, SameTensors, IsSystem
<1>5. SameTensors(S, WithSymbols(S, n)) /\ WithSymbols(S, n).known = S.known
  BY Fields DEF WithSymbols, SameTensors, IsSystem
<1>6. QED BY <1>1, <1>2, <1>3, <1>4, <1>5

(* A tensor is given its symbols.                                          *)
LEMMA FilledFacts ==
  ASSUME NEW S, IsSystem(S), TensorsInv(S), NEW t \in TensorNames
  PROVE  /\ Steady(S, Filled(S, t))
         /\ IsSystem(Filled(S, t)) /\ TensorsInv(Filled(S, t))
         /\ t = "cg" /\ S.cg > 0 /\ TensorWords \subseteq S.known => Whole(Filled(S, t), t)
         /\ t # "cg" /\ Whole(S, "cg") /\ HasTensor(S, t) => Whole(Filled(S, t), t)
<1> DEFINE F == Filled(S, t)  Can == IF t = "cg" THEN TensorWords \subseteq S.known
                                                 ELSE "cg" \in S.complete /\ S[t] = S.cg
<1>1. /\ F.cg = S.cg /\ F.fc = S.fc /\ F.pt = S.pt /\ F.known = S.known /\ IsSystem(F)
      /\ F.complete = IF Can THEN S.complete \cup {t} ELSE S.complete
  BY Fields DEF Filled, IsSystem, TensorNames
<1> HIDE DEF F
<1>2. \A u \in TensorNames : F[u] = S[u]
  BY <1>1 DEF TensorNames
<1>3. TensorsInv(F)
  BY <1>1 DEF TensorsInv
<1>4. S.complete \subseteq F.complete
  BY <1>1
<1>5. S.known \subseteq F.known /\ S.cg <= F.cg
  BY <1>1 DEF TensorsInv
<1>6. Steady(S, F)
  BY <1>1, <1>2, <1>3, <1>4, <1>5 DEF Steady, HasTensor, Whole, Due
<1>7. t = "cg" /\ S.cg > 0 /\ TensorWords \subseteq S.known => Whole(F, t)
  BY <1>1 DEF Whole
<1>8. t # "cg" /\ Whole(S, "cg") /\ HasTensor(S, t) => Whole(F, t)
  <2> SUFFICES ASSUME t # "cg", Whole(S, "cg"), HasTensor(S, t) PROVE Whole(F, t)
    OBVIOUS
  <2>1. S.cg = 1 => S[t] = S.cg
    BY DEF TensorNames, TensorsInv, HasTensor
  <2>2. QED BY <2>1, <1>1 DEF Whole
<1>9. QED BY <1>1, <1>3, <1>6, <1>7, <1>8 DEF F

(* A tensor is made.                                                       *)
LEMMA TensorFacts ==
  ASSUME NEW S, IsSystem(S), TensorsInv(S), NEW t \in TensorNames
  PROVE  LET T == WithTensor(S, t)
         IN  /\ Steady(S, T)
             /\ t = "cg" => HasTensor(T, t)
             /\ t = "cg" /\ TensorWords \subseteq S.known => Whole(T, t)
             /\ t # "cg" /\ Due(S, t) => HasTensor(T, t) /\ Whole(T, t)
<1> DEFINE T == WithTensor(S, t)
           U == [S EXCEPT !.cg = @ + 1, !.complete = @ \ {"cg"}]
           V == [S EXCEPT ![t] = S.cg]
<1>1. CASE t = "cg"
  <2>1. /\ U.cg = S.cg + 1 /\ U.fc = S.fc /\ U.pt = S.pt /\ U.known = S.known /\ IsSystem(U)
        /\ U.complete = S.complete \ {"cg"}
    BY Fields DEF IsSystem
  <2>2. T = Filled(U, t)
    BY <1>1 DEF WithTensor
  <2> HIDE DEF U, T
  <2>3. TensorsInv(U) /\ U.cg > 0
    BY <2>1 DEF TensorsInv
  <2>4. Steady(U, T) /\ (TensorWords \subseteq U.known => Whole(T, t)) /\ IsSystem(T) /\ TensorsInv(T)
    BY <1>1, <2>1, <2>2, <2>3, FilledFacts
  <2>5. /\ T.cg = S.cg + 1 /\ T.fc = S.fc /\ T.pt = S.pt /\ T.known = S.known
        /\ T.complete \in {S.complete \ {"cg"}, (S.complete \ {"cg"}) \cup {"cg"}}
        /\ TensorWords \subseteq S.known => "cg" \in T.complete
    <3>1. /\ T.cg = U.cg /\ T.fc = U.fc /\ T.pt = U.pt /\ T.known = U.known
          /\ T.complete = IF TensorWords \subseteq U.known THEN U.complete \cup {t} ELSE U.complete
      BY <1>1, <2>1, <2>2, Fields DEF Filled, IsSystem
    <3>2. QED BY <3>1, <2>1, <1>1
  <2>6. \A u \in TensorNames : /\ HasTensor(S, u) => HasTensor(T, u)
                               /\ Whole(S, u) => Whole(T, u)
                               /\ Due(S, u) => Due(T, u)
    <3> SUFFICES ASSUME NEW u \in TensorNames
                 PROVE  /\ HasTensor(S, u) => HasTensor(T, u)
                        /\ Whole(S, u) => Whole(T, u)
                        /\ Due(S, u) => Due(T, u)
      OBVIOUS
    <3>1. HasTensor(S, u) => HasTensor(T, u)
      BY <2>5 DEF HasTensor, TensorNames, TensorsInv
    <3>2. S.cg > 0 => T.cg > 1
      BY <2>5 DEF TensorsInv
    <3>3. T.cg > 1 => T.cg > 0 /\ T.cg # 1
      BY <2>4 DEF TensorsInv
    <3>4. QED BY <3>1, <3>2, <3>3 DEF Whole, Due
  <2>7. S.cg <= T.cg /\ T.cg > 0
    BY <2>5 DEF TensorsInv
  <2>8. Steady(S, T)
    BY <2>4, <2>5, <2>6, <2>7 DEF Steady
  <2>9. QED BY <1>1, <2>1, <2>4, <2>7, <2>8 DEF HasTensor, T
<1>2. CASE t # "cg" /\ S[t] = 0
  <2>1. /\ V.cg = S.cg /\ V.known = S.known /\ V.complete = S.complete /\ IsSystem(V) /\ V[t] = S.cg
        /\ \A u \in TensorNames \ {t} : V[u] = S[u]
    BY <1>2, Fields DEF IsSystem, TensorNames
  <2>2. T = Filled(V, t)
    BY <1>2 DEF WithTensor
  <2> HIDE DEF V, T
  <2>3. TensorsInv(V)
    BY <1>2, <2>1 DEF TensorsInv, TensorNames
  <2>4. /\ T.cg = S.cg /\ T.known = S.known /\ T[t] = S.cg
        /\ \A u \in TensorNames \ {t} : T[u] = S[u]
        /\ T.complete = IF "cg" \in S.complete THEN S.complete \cup {t} ELSE S.complete
    BY <1>2, <2>1, <2>2, Fields DEF Filled, IsSystem, TensorNames
  <2>5. TensorsInv(T)
    BY <2>1, <2>2, <2>3, FilledFacts
  <2>6. \A u \in TensorNames : /\ HasTensor(S, u) => HasTensor(T, u)
                               /\ Whole(S, u) => Whole(T, u)
                               /\ Due(S, u) => Due(T, u)
    <3> SUFFICES ASSUME NEW u \in TensorNames
                 PROVE  /\ HasTensor(S, u) => HasTensor(T, u)
                        /\ Whole(S, u) => Whole(T, u)
                        /\ Due(S, u) => Due(T, u)
      OBVIOUS
    <3>1. S.complete \subseteq T.complete /\ S[t] = 0 /\ ~(0 > 0)
      BY <1>2, <2>4
    <3>2. CASE u # t
      <4>1. T[u] = S[u]
        BY <2>4, <3>2
      <4>2. QED BY <4>1, <3>1, <2>4 DEF HasTensor, Whole, Due
    <3>3. CASE u = t
      <4>1. "cg" \in S.complete => t \in T.complete
        BY <2>4
      <4>2. QED BY <4>1, <3>3, <3>1, <2>4 DEF HasTensor, Whole, Due
    <3>4. QED BY <3>2, <3>3
  <2>7. S.cg <= T.cg
    BY <2>4 DEF TensorsInv
  <2>8. Steady(S, T)
    BY <2>4, <2>5, <2>6, <2>7 DEF Steady
  <2>9. Due(S, t) => HasTensor(T, t) /\ Whole(T, t)
    BY <2>4 DEF Due, HasTensor, Whole
  <2>10. QED BY <1>2, <2>8, <2>9 DEF T
<1>3. CASE t # "cg" /\ S[t] # 0
  <2>1. T = S
    BY <1>3 DEF WithTensor
  <2>2. Steady(S, S)
    BY SteadySame DEF SameTensors
  <2>3. Due(S, t) => HasTensor(S, t) /\ Whole(S, t)
    <3>1. S[t] \in Nat
      BY DEF TensorsInv, TensorNames
    <3>2. HasTensor(S, t)
      BY <1>3, <3>1 DEF HasTensor
    <3>3. QED BY <1>3, <3>2 DEF Due, Whole
  <2>4. QED BY <1>3, <2>1, <2>2, <2>3 DEF T
<1>4. QED BY <1>1, <1>2, <1>3

(* Nothing that is done to a system makes it lose a tensor.                *)
LEMMA SteadyTrans ==
  ASSUME NEW R, NEW S, NEW T, TensorsInv(R), Steady(R, S), Steady(S, T)
  PROVE  Steady(R, T)
<1>1. R.cg \in Nat /\ S.cg \in Nat /\ T.cg \in Nat
  BY DEF Steady, TensorsInv
<1>2. R.cg <= T.cg
  BY <1>1 DEF Steady
<1>3. QED BY <1>2 DEF Steady

LEMMA AfterSteady ==
  ASSUME NEW S, IsSystem(S), TensorsInv(S), NEW i, i.do \in {"make", "fill"} => i.key[1] \in TensorNames
  PROVE  Steady(S, After(i, S))
<1> DEFINE T == After(i, S)
<1>0. Steady(S, S)
  BY SteadySame DEF SameTensors
<1>1. CASE i.do = "create"
  <2>1. CASE IsMade(S, i.key)
    BY <1>0, <1>1, <2>1 DEF After, WithMatrix
  <2>2. CASE ~IsMade(S, i.key)
    <3> DEFINE U == WithParts(S, i.key)
    <3>1. T = Indexed(U, i.key)
      BY <1>1, <2>2 DEF After, WithMatrix
    <3>2. SameTensors(S, U) /\ S.known \subseteq U.known /\ IsSystem(U)
      BY TensorsLeft
    <3> HIDE DEF U, T
    <3>3. Steady(S, U)
      BY <3>2, SteadySame
    <3>4. SameTensors(U, T) /\ U.known \subseteq T.known
      BY <3>1, <3>2, TensorsLeft
    <3>5. Steady(U, T)
      BY <3>3, <3>4, SteadySame DEF Steady
    <3>6. QED BY <3>3, <3>5, SteadyTrans DEF T
  <2>3. QED BY <2>1, <2>2
<1>2. CASE i.do = "append"
  <2>1. T = Added(S, i.key)
    BY <1>2 DEF After, Added
  <2>2. SameTensors(S, Added(S, i.key)) /\ S.known \subseteq Added(S, i.key).known
    BY TensorsLeft
  <2> HIDE DEF T
  <2>3. QED BY <2>1, <2>2, SteadySame DEF T
<1>3. CASE i.do \in {"push", "import"}
  <2>1. T = Pushed(S, Raw)
    BY <1>3 DEF After
  <2>2. SameTensors(S, Pushed(S, Raw)) /\ S.known \subseteq Pushed(S, Raw).known
    BY TensorsLeft
  <2> HIDE DEF T
  <2>3. QED BY <2>1, <2>2, SteadySame DEF T
<1>4. CASE i.do = "push polynomial"
  <2> DEFINE U == WithParts(S, i.key)
  <2>1. T = Pushed(U, Raw)
    BY <1>4 DEF After
  <2>2. SameTensors(S, U) /\ S.known \subseteq U.known /\ IsSystem(U)
    BY TensorsLeft
  <2> HIDE DEF U, T
  <2>3. Steady(S, U)
    BY <2>2, SteadySame
  <2>4. SameTensors(U, T) /\ U.known \subseteq T.known
    BY <2>1, <2>2, TensorsLeft
  <2>5. Steady(U, T)
    BY <2>3, <2>4, SteadySame DEF Steady
  <2>6. QED BY <2>3, <2>5, SteadyTrans DEF T
<1>5. CASE i.do = "register"
  <2>1. SameTensors(S, T) /\ S.known \subseteq T.known
    BY <1>5, Fields DEF After, SameTensors, IsSystem
  <2> HIDE DEF T
  <2>2. QED BY <2>1, SteadySame DEF T
<1>6. CASE i.do = "create symbols"
  <2>1. T = WithSymbols(S, i.n)
    BY <1>6 DEF After
  <2>2. SameTensors(S, WithSymbols(S, i.n)) /\ S.known \subseteq WithSymbols(S, i.n).known
    BY TensorsLeft
  <2> HIDE DEF T
  <2>3. QED BY <2>1, <2>2, SteadySame DEF T
<1>7. CASE i.do = "add book"
  <2>1. SameTensors(S, T) /\ S.known \subseteq T.known
    BY <1>7, Fields DEF After, SameTensors, IsSystem
  <2> HIDE DEF T
  <2>2. QED BY <2>1, SteadySame DEF T
<1>8. CASE i.do = "make"
  <2>1. T = WithTensor(S, i.key[1]) /\ i.key[1] \in TensorNames
    BY <1>8 DEF After
  <2>2. QED BY <2>1, TensorFacts
<1>9. CASE i.do = "fill"
  <2>1. T = Filled(S, i.key[1]) /\ i.key[1] \in TensorNames
    BY <1>9 DEF After
  <2>2. QED BY <2>1, FilledFacts
<1>10. CASE i.do \notin Changing
  <2>1. T = S
    BY <1>10 DEF After, Changing
  <2>2. QED BY <2>1, <1>0
<1>11. QED BY <1>1, <1>2, <1>3, <1>4, <1>5, <1>6, <1>7, <1>8, <1>9, <1>10 DEF Changing

-----------------------------------------------------------------------------
(* What a client knows of the tensors at a place in its program: which are *)
(* made, which are whole, which are due; and whether its answer is told,   *)
(* that is, has all its symbols.                                           *)
Lore(m, w, d, t) == [made |-> m, whole |-> w, due |-> d, told |-> t]

Less(a, b) == a.made \subseteq b.made /\ a.whole \subseteq b.whole /\ a.due \subseteq b.due /\ (a.told => b.told)

KnowsOf(S, k) ==
  /\ \A t \in k.made  : t \in TensorNames /\ HasTensor(S, t)
  /\ \A t \in k.whole : t \in TensorNames /\ Whole(S, t)
  /\ \A t \in k.due   : t \in TensorNames /\ Due(S, t)

Told(complete, S) == S.cg > 0 /\ (S.cg = 1 => complete)

Asserts(complete, S, k) == KnowsOf(S, k) /\ (k.told => Told(complete, S))

(* An instruction that makes the tensor `t' whole.                         *)
Makes(i, k) == i.do = "make" /\ (i.key[1] = "cg" \/ i.key[1] \in k.due)
Fills(i, k) == /\ i.do \in {"complete", "fill"}
               /\ i.key[1] \in k.made
               /\ i.key[1] = "cg" \/ "cg" \in k.whole

(* What is known after an instruction, and after a test that fails.        *)
Learns(i, k) ==
  [made  |-> IF i.do = "has" \/ Makes(i, k) THEN k.made \cup {i.key[1]} ELSE k.made,
   whole |-> IF Makes(i, k) \/ Fills(i, k) THEN k.whole \cup {i.key[1]} ELSE k.whole,
   due   |-> k.due,
   told  |-> i.do = "need tensor" /\ i.key[1] \in k.whole]

Misses(i, k) ==
  [made |-> k.made, whole |-> k.whole, told |-> FALSE,
   due |-> IF i.do = "has" /\ "cg" \in k.whole THEN k.due \cup {i.key[1]} ELSE k.due]

TensorWork == {"has", "complete", "make", "fill", "need tensor"}

Tends(i, o) ==
  /\ i.do \in {"read lock", "write lock", "unlock"} \cup TensorWork
  /\ i.on = o
  /\ i.do \in TensorWork => i.key[1] \in TensorNames
  /\ i.do = "unlock" => i.skip = 0

(* A program that asks for a tensor. No two locks are released in a row.   *)
Following(q, o, K) ==
  /\ IsSeq(q)
  /\ \A j \in 1 .. Len(q) :
       /\ Tends(q[j], o)
       /\ q[j].skip \in 0 .. Len(q) - j
       /\ Less(K[j + 1 + q[j].skip], Learns(q[j], K[j]))
       /\ q[j].do \in {"has", "complete"} => Less(K[j + 1], Misses(q[j], K[j]))
       /\ q[j].do = "unlock" => j < Len(q) /\ q[j + 1].do # "unlock"

Leads(q, o, a, b) == \E K : Following(q, o, K) /\ Less(K[1], a) /\ Less(b, K[Len(q) + 1])

-----------------------------------------------------------------------------
LEMMA LessOrder == \A a, b, c : Less(a, a) /\ (Less(a, b) /\ Less(b, c) => Less(a, c))
  BY DEF Less

LEMMA LessMonotone ==
  ASSUME NEW i, NEW a, NEW b, Less(a, b)
  PROVE  Less(Learns(i, a), Learns(i, b)) /\ Less(Misses(i, a), Misses(i, b))
<1>1. /\ a.made \subseteq b.made /\ a.whole \subseteq b.whole /\ a.due \subseteq b.due
      /\ Makes(i, a) => Makes(i, b)
      /\ Fills(i, a) => Fills(i, b)
  BY DEF Less, Makes, Fills
<1>2. Less(Learns(i, a), Learns(i, b))
  BY <1>1 DEF Less, Learns
<1>3. Less(Misses(i, a), Misses(i, b))
  BY <1>1 DEF Less, Misses
<1>4. QED BY <1>2, <1>3

LEMMA AssertsLess ==
  ASSUME NEW complete, NEW S, NEW a, NEW b, Less(a, b), Asserts(complete, S, b)
  PROVE  Asserts(complete, S, a)
  BY DEF Less, Asserts, KnowsOf

(* What is known stays true.                                               *)
LEMMA AssertsStays ==
  ASSUME NEW complete, NEW S, TensorsInv(S), NEW T, Steady(S, T), NEW k, Asserts(complete, S, k)
  PROVE  Asserts(complete, T, k)
<1>1. KnowsOf(T, k)
  BY DEF Asserts, KnowsOf, Steady
<1>2. S.cg \in Nat /\ T.cg \in Nat /\ S.cg <= T.cg
  BY DEF Steady, TensorsInv
<1>3. Told(complete, S) => Told(complete, T)
  BY <1>2 DEF Told
<1>4. QED BY <1>1, <1>3 DEF Asserts

(* What is learned is true.                                                *)
LEMMA LearnsTrue ==
  ASSUME NEW S, IsSystem(S), TensorsInv(S), TensorWords \subseteq S.known,
         NEW i, NEW o, Tends(i, o), NEW k, KnowsOf(S, k), Holds(i, S)
  PROVE  Asserts(i.do = "need tensor" /\ i.key[1] \in S.complete, After(i, S), Learns(i, k))
<1> DEFINE T == After(i, S)  t == i.key[1]  l == Learns(i, k)
<1>1. i.do \in TensorWork => t \in TensorNames
  BY DEF Tends
<1>2. Steady(S, T)
  <2>1. i.do \in {"make", "fill"} => i.key[1] \in TensorNames
    BY <1>1 DEF TensorWork
  <2>2. QED BY <2>1, AfterSteady
<1>3. KnowsOf(T, k)
  BY <1>2 DEF Steady, KnowsOf
<1>4. i.do = "has" => T = S /\ HasTensor(S, t) /\ t \in TensorNames
  BY <1>1 DEF Holds, After, TensorWork
<1>5. Makes(i, k) => t \in TensorNames /\ HasTensor(T, t) /\ Whole(T, t)
  <2> SUFFICES ASSUME Makes(i, k) PROVE t \in TensorNames /\ HasTensor(T, t) /\ Whole(T, t)
    OBVIOUS
  <2>1. i.do = "make" /\ t \in TensorNames /\ (t = "cg" \/ t \in k.due)
    BY <1>1 DEF Makes, TensorWork
  <2>2. T = WithTensor(S, t)
    BY <2>1 DEF After
  <2>3. t \in k.due => Due(S, t)
    BY DEF KnowsOf
  <2> HIDE DEF t, T
  <2>4. /\ t = "cg" => HasTensor(WithTensor(S, t), t)
        /\ t = "cg" /\ TensorWords \subseteq S.known => Whole(WithTensor(S, t), t)
        /\ t # "cg" /\ Due(S, t) => HasTensor(WithTensor(S, t), t) /\ Whole(WithTensor(S, t), t)
    BY <2>1, TensorFacts
  <2>5. QED BY <2>1, <2>2, <2>3, <2>4
<1>6. Fills(i, k) => t \in TensorNames /\ Whole(T, t)
  <2> SUFFICES ASSUME Fills(i, k) PROVE t \in TensorNames /\ Whole(T, t)
    OBVIOUS
  <2>1. i.do \in {"complete", "fill"} /\ t \in TensorNames /\ t \in k.made /\ (t = "cg" \/ "cg" \in k.whole)
    BY <1>1 DEF Fills, TensorWork
  <2>2. HasTensor(S, t) /\ (t # "cg" => Whole(S, "cg")) /\ S.cg > 0
    BY <2>1 DEF KnowsOf, HasTensor, Whole
  <2>3. CASE i.do = "complete"
    <3>1. T = S /\ t \in S.complete
      BY <2>3 DEF After, Holds
    <3>2. QED BY <2>1, <2>2, <3>1 DEF Whole
  <2>4. CASE i.do = "fill"
    <3>1. T = Filled(S, t)
      BY <2>4 DEF After
    <3> HIDE DEF t, T
    <3>2. /\ t = "cg" /\ S.cg > 0 /\ TensorWords \subseteq S.known => Whole(Filled(S, t), t)
          /\ t # "cg" /\ Whole(S, "cg") /\ HasTensor(S, t) => Whole(Filled(S, t), t)
      BY <2>1, FilledFacts
    <3>3. QED BY <2>1, <2>2, <3>1, <3>2
  <2>5. QED BY <2>1, <2>3, <2>4
<1>7. l.told => Told(i.do = "need tensor" /\ i.key[1] \in S.complete, T)
  <2> SUFFICES ASSUME l.told PROVE Told(i.do = "need tensor" /\ i.key[1] \in S.complete, T)
    OBVIOUS
  <2>1. i.do = "need tensor" /\ t \in k.whole
    BY DEF Learns
  <2>2. T = S /\ Whole(S, t)
    BY <2>1 DEF After, KnowsOf
  <2>3. QED BY <2>1, <2>2 DEF Told, Whole
<1>8. KnowsOf(T, l)
  <2>1. /\ l.due = k.due
        /\ l.made = IF i.do = "has" \/ Makes(i, k) THEN k.made \cup {t} ELSE k.made
        /\ l.whole = IF Makes(i, k) \/ Fills(i, k) THEN k.whole \cup {t} ELSE k.whole
    BY DEF Learns
  <2> HIDE DEF l, t, T
  <2>2. QED BY <2>1, <1>3, <1>4, <1>5, <1>6 DEF KnowsOf
<1>9. QED BY <1>7, <1>8 DEF Asserts

LEMMA MissesTrue ==
  ASSUME NEW S, TensorsInv(S), NEW complete,
         NEW i, NEW o, Tends(i, o), NEW k, KnowsOf(S, k), ~Holds(i, S)
  PROVE  /\ i.do \in {"has", "complete"} /\ After(i, S) = S
         /\ Asserts(complete, S, Misses(i, k))
<1>1. i.do \in {"has", "complete"} /\ After(i, S) = S
  BY DEF Holds, After, Tends, TensorWork
<1>2. i.do = "has" /\ "cg" \in k.whole => i.key[1] \in TensorNames /\ Due(S, i.key[1])
  <2> SUFFICES ASSUME i.do = "has", "cg" \in k.whole PROVE i.key[1] \in TensorNames /\ Due(S, i.key[1])
    OBVIOUS
  <2>1. i.key[1] \in TensorNames
    BY DEF Tends, TensorWork
  <2>2. ~(S[i.key[1]] > 0)
    BY DEF Holds, HasTensor
  <2>3. S[i.key[1]] \in Nat
    BY <2>1 DEF TensorsInv, TensorNames
  <2>4. S[i.key[1]] = 0
    BY <2>2, <2>3
  <2>5. Whole(S, "cg")
    BY DEF KnowsOf
  <2>6. QED BY <2>1, <2>4, <2>5 DEF Whole, Due
<1>3. KnowsOf(S, Misses(i, k)) /\ ~Misses(i, k).told
  <2> DEFINE m == Misses(i, k)
  <2>1. /\ m.made = k.made /\ m.whole = k.whole /\ ~m.told
        /\ m.due = IF i.do = "has" /\ "cg" \in k.whole THEN k.due \cup {i.key[1]} ELSE k.due
    BY DEF Misses
  <2> HIDE DEF m
  <2>2. KnowsOf(S, m)
    BY <2>1, <1>2 DEF KnowsOf
  <2>3. QED BY <2>1, <2>2 DEF m
<1>4. QED BY <1>1, <1>3 DEF Asserts

-----------------------------------------------------------------------------
(* Programs that ask for tensors: their ends, and how they are put         *)
(* together.                                                               *)
LEMMA FollowingSuffix ==
  ASSUME NEW q, NEW o, NEW K, Following(q, o, K), NEW m \in 1 .. Len(q) + 1
  PROVE  \E G : /\ Following(SubSeq(q, m, Len(q)), o, G)
                /\ G[1] = K[m]
                /\ G[Len(SubSeq(q, m, Len(q))) + 1] = K[Len(q) + 1]
<1> DEFINE s == SubSeq(q, m, Len(q))
           G == [i \in 1 .. Len(q) + 2 - m |-> K[m + i - 1]]
<1>1. IsSeq(q) /\ Len(q) \in Nat
  BY SeqFacts DEF Following
<1>2. /\ IsSeq(s) /\ Len(s) = Len(q) + 1 - m
      /\ \A i \in 1 .. Len(q) + 1 - m : s[i] = q[m + i - 1]
  BY <1>1, SubSeqFacts
<1>3. \A i \in 1 .. Len(q) + 2 - m : G[i] = K[m + i - 1]
  OBVIOUS
<1>4. G[1] = K[m]
  <2>1. 1 \in 1 .. Len(q) + 2 - m /\ m + 1 - 1 = m
    BY <1>1
  <2> HIDE DEF G
  <2>2. QED BY <2>1, <1>3
<1> HIDE DEF s, G
<1>5. G[Len(s) + 1] = K[Len(q) + 1]
  <2>1. Len(s) + 1 \in 1 .. Len(q) + 2 - m /\ m + (Len(s) + 1) - 1 = Len(q) + 1
    BY <1>1, <1>2
  <2>2. QED BY <2>1, <1>3
<1>6. ASSUME NEW i \in 1 .. Len(s)
      PROVE  /\ Tends(s[i], o)
             /\ s[i].skip \in 0 .. Len(s) - i
             /\ Less(G[i + 1 + s[i].skip], Learns(s[i], G[i]))
             /\ s[i].do \in {"has", "complete"} => Less(G[i + 1], Misses(s[i], G[i]))
             /\ s[i].do = "unlock" => i < Len(s) /\ s[i + 1].do # "unlock"
  <2>1. PICK k \in 1 .. Len(q) : k = m + i - 1
    <3>1. Len(q) \in Nat /\ i \in 1 .. Len(q) + 1 - m
      BY <1>1, <1>2
    <3>2. m + i - 1 \in 1 .. Len(q)
      BY <3>1, PlaceInSuffix
    <3>3. QED BY <3>2
  <2>2. s[i] = q[k] /\ G[i] = K[k]
    <3>1. i \in 1 .. Len(q) + 1 - m /\ i \in 1 .. Len(q) + 2 - m
      BY <1>1, <1>2
    <3>2. QED BY <3>1, <1>2, <1>3, <2>1
  <2>3. /\ Tends(q[k], o)
        /\ q[k].skip \in 0 .. Len(q) - k
        /\ Less(K[k + 1 + q[k].skip], Learns(q[k], K[k]))
        /\ q[k].do \in {"has", "complete"} => Less(K[k + 1], Misses(q[k], K[k]))
        /\ q[k].do = "unlock" => k < Len(q) /\ q[k + 1].do # "unlock"
    BY DEF Following
  <2>4. ASSUME NEW n \in 0 .. Len(q) - k
        PROVE  G[i + 1 + n] = K[k + 1 + n] /\ n \in 0 .. Len(s) - i
    <3>1. /\ i + 1 + n \in 1 .. Len(q) + 2 - m /\ m + (i + 1 + n) - 1 = k + 1 + n
          /\ n \in 0 .. Len(s) - i
      BY <1>1, <1>2, <2>1
    <3>2. G[i + 1 + n] = K[m + (i + 1 + n) - 1]
      BY <3>1, <1>3
    <3>3. QED BY <3>1, <3>2
  <2>5. s[i].skip \in 0 .. Len(s) - i /\ G[i + 1 + s[i].skip] = K[k + 1 + q[k].skip] /\ G[i + 1] = K[k + 1]
    <3>1. 0 \in 0 .. Len(q) - k
      BY <1>1
    <3>2. G[i + 1 + 0] = K[k + 1 + 0]
      BY <2>4, <3>1
    <3>3. i + 1 + 0 = i + 1 /\ k + 1 + 0 = k + 1
      BY <1>1, <1>2, <2>1
    <3>4. q[k].skip \in 0 .. Len(q) - k
      BY <2>3
    <3>5. G[i + 1 + q[k].skip] = K[k + 1 + q[k].skip] /\ q[k].skip \in 0 .. Len(s) - i
      BY <2>4, <3>4
    <3>6. QED BY <2>2, <3>2, <3>3, <3>5
  <2>6. k < Len(q) => i < Len(s) /\ s[i + 1] = q[k + 1]
    <3> SUFFICES ASSUME k < Len(q) PROVE i < Len(s) /\ s[i + 1] = q[k + 1]
      OBVIOUS
    <3>1. i < Len(s) /\ i + 1 \in 1 .. Len(q) + 1 - m /\ m + (i + 1) - 1 = k + 1
      BY <1>1, <1>2, <2>1
    <3>2. QED BY <3>1, <1>2
  <2>7. QED BY <2>2, <2>3, <2>5, <2>6
<1>7. Following(s, o, G)
  BY <1>2, <1>6 DEF Following
<1>8. QED BY <1>4, <1>5, <1>7 DEF s

LEMMA LeadsOn ==
  ASSUME NEW p, NEW q, NEW o, NEW a, NEW b, NEW c, Leads(p, o, a, b), Leads(q, o, b, c)
  PROVE  Leads(p \o q, o, a, c)
<1>1. PICK F : Following(p, o, F) /\ Less(F[1], a) /\ Less(b, F[Len(p) + 1])
  BY DEF Leads
<1>2. PICK G : Following(q, o, G) /\ Less(G[1], b) /\ Less(c, G[Len(q) + 1])
  BY DEF Leads
<1> DEFINE K == [i \in 1 .. Len(p) + Len(q) + 1 |-> IF i <= Len(p) THEN F[i] ELSE G[i - Len(p)]]
           s == p \o q
<1>3. /\ Len(p) \in Nat /\ Len(q) \in Nat
      /\ IsSeq(s) /\ Len(s) = Len(p) + Len(q)
      /\ \A i \in 1 .. Len(p) + Len(q) : s[i] = IF i <= Len(p) THEN p[i] ELSE q[i - Len(p)]
  BY <1>1, <1>2, ConcatFacts, SeqFacts DEF Following
<1>4. \A i \in 1 .. Len(p) : K[i] = F[i]
  BY <1>3
<1>5. \A i \in Len(p) + 1 .. Len(p) + Len(q) + 1 : K[i] = G[i - Len(p)]
  BY <1>3
<1> HIDE DEF s, K
<1>6. Less(K[Len(p) + 1], F[Len(p) + 1])
  <2>1. K[Len(p) + 1] = G[1]
    BY <1>3, <1>5
  <2>2. QED BY <2>1, <1>1, <1>2, LessOrder
<1>7. \A i \in 1 .. Len(p) + 1 : Less(K[i], F[i])
  BY <1>3, <1>4, <1>6, LessOrder
<1>8. ASSUME NEW i \in 1 .. Len(s)
      PROVE  /\ Tends(s[i], o)
             /\ s[i].skip \in 0 .. Len(s) - i
             /\ Less(K[i + 1 + s[i].skip], Learns(s[i], K[i]))
             /\ s[i].do \in {"has", "complete"} => Less(K[i + 1], Misses(s[i], K[i]))
             /\ s[i].do = "unlock" => i < Len(s) /\ s[i + 1].do # "unlock"
  <2>1. CASE i \in 1 .. Len(p)
    <3>1. s[i] = p[i] /\ K[i] = F[i] /\ i + 1 \in 1 .. Len(p) + 1
      BY <2>1, <1>3, <1>4
    <3>2. /\ Tends(p[i], o)
          /\ p[i].skip \in 0 .. Len(p) - i
          /\ Less(F[i + 1 + p[i].skip], Learns(p[i], F[i]))
          /\ p[i].do \in {"has", "complete"} => Less(F[i + 1], Misses(p[i], F[i]))
          /\ p[i].do = "unlock" => i < Len(p) /\ p[i + 1].do # "unlock"
      BY <2>1, <1>1 DEF Following
    <3>3. i + 1 + p[i].skip \in 1 .. Len(p) + 1 /\ p[i].skip \in 0 .. Len(s) - i
      <4>1. Len(p) \in Nat /\ Len(s) \in Nat /\ Len(p) <= Len(s)
        BY <1>3
      <4>2. \A x \in 0 .. Len(p) - i : i + 1 + x \in 1 .. Len(p) + 1 /\ x \in 0 .. Len(s) - i
        <5> HIDE DEF s
        <5>1. QED BY <2>1, <4>1
      <4>3. QED BY <3>2, <4>2, Zenon
    <3>4. i < Len(p) => i < Len(s) /\ s[i + 1] = p[i + 1]
      <4> SUFFICES ASSUME i < Len(p) PROVE i < Len(s) /\ s[i + 1] = p[i + 1]
        OBVIOUS
      <4>1. i < Len(s) /\ i + 1 \in 1 .. Len(p) + Len(q) /\ i + 1 <= Len(p)
        BY <2>1, <1>3
      <4>2. QED BY <4>1, <1>3
    <3>5. Less(K[i + 1 + p[i].skip], Learns(p[i], F[i]))
      BY <3>2, <3>3, <1>7, LessOrder
    <3>6. p[i].do \in {"has", "complete"} => Less(K[i + 1], Misses(p[i], F[i]))
      BY <3>1, <3>2, <1>7, LessOrder
    <3>7. QED BY <3>1, <3>2, <3>3, <3>4, <3>5, <3>6
  <2>2. CASE i \in Len(p) + 1 .. Len(p) + Len(q)
    <3>0. PICK k \in 1 .. Len(q) : k = i - Len(p)
      BY <2>2, <1>3
    <3>1. s[i] = q[k] /\ K[i] = G[k] /\ K[i + 1] = G[k + 1]
      <4>1. s[i] = q[k] /\ K[i] = G[k]
        BY <3>0, <2>2, <1>3, <1>5
      <4>2. i + 1 \in Len(p) + 1 .. Len(p) + Len(q) + 1 /\ (i + 1) - Len(p) = k + 1
        BY <3>0, <2>2, <1>3
      <4>3. QED BY <4>1, <4>2, <1>5
    <3>2. /\ Tends(q[k], o)
          /\ q[k].skip \in 0 .. Len(q) - k
          /\ Less(G[k + 1 + q[k].skip], Learns(q[k], G[k]))
          /\ q[k].do \in {"has", "complete"} => Less(G[k + 1], Misses(q[k], G[k]))
          /\ q[k].do = "unlock" => k < Len(q) /\ q[k + 1].do # "unlock"
      BY <1>2 DEF Following
    <3>3. i = Len(p) + k /\ Len(p) \in Nat /\ Len(q) \in Nat /\ Len(s) = Len(p) + Len(q)
      BY <3>0, <2>2, <1>3
    <3>4. K[i + 1 + q[k].skip] = G[k + 1 + q[k].skip] /\ q[k].skip \in 0 .. Len(s) - i
      <4>1. PICK n \in 0 .. Len(q) - k : n = q[k].skip
        BY <3>2
      <4>2. /\ i + 1 + n \in Len(p) + 1 .. Len(p) + Len(q) + 1
            /\ (i + 1 + n) - Len(p) = k + 1 + n
            /\ n \in 0 .. Len(s) - i
        BY <3>3
      <4>3. K[i + 1 + n] = G[(i + 1 + n) - Len(p)]
        BY <4>2, <1>5
      <4>4. QED BY <4>1, <4>2, <4>3
    <3>5. k < Len(q) => i < Len(s) /\ s[i + 1] = q[k + 1]
      <4> SUFFICES ASSUME k < Len(q) PROVE i < Len(s) /\ s[i + 1] = q[k + 1]
        OBVIOUS
      <4>1. i < Len(s) /\ i + 1 \in 1 .. Len(p) + Len(q) /\ ~(i + 1 <= Len(p)) /\ (i + 1) - Len(p) = k + 1
        BY <3>3
      <4>2. QED BY <4>1, <1>3
    <3>6. QED BY <3>1, <3>2, <3>4, <3>5
  <2>3. QED BY <2>1, <2>2, <1>3
<1>9. Following(s, o, K)
  BY <1>3, <1>8 DEF Following
<1>10. Less(K[1], a)
  <2>1. 1 \in 1 .. Len(p) + 1
    BY <1>3
  <2>2. QED BY <2>1, <1>1, <1>7, LessOrder
<1>11. Less(c, K[Len(s) + 1])
  <2>1. Len(s) + 1 \in Len(p) + 1 .. Len(p) + Len(q) + 1 /\ (Len(s) + 1) - Len(p) = Len(q) + 1
    BY <1>3
  <2>2. QED BY <2>1, <1>2, <1>5
<1>12. QED BY <1>9, <1>10, <1>11 DEF Leads, s

LEMMA LeadsOne ==
  ASSUME NEW i, NEW o, Tends(i, o), i.skip = 0, i.do \notin {"has", "complete", "unlock"},
         NEW a, NEW b, Less(b, Learns(i, a))
  PROVE  Leads(<<i>>, o, a, b)
<1> DEFINE K == [j \in 1 .. 2 |-> IF j = 1 THEN a ELSE b]
<1>1. K[1] = a /\ K[2] = b
  OBVIOUS
<1> HIDE DEF K
<1>2. IsSeq(<<i>>) /\ Len(<<i>>) = 1 /\ <<i>>[1] = i
  BY SmallSeqs
<1>3. Following(<<i>>, o, K)
  BY <1>1, <1>2 DEF Following
<1>4. QED BY <1>1, <1>2, <1>3, LessOrder DEF Leads

(* What is left of a program once the lock has been released that comes    *)
(* first, if any.                                                          *)
LEMMA FollowingLeft ==
  ASSUME NEW q, NEW o, NEW K, Following(q, o, K)
  PROVE  \E G : /\ Following(Left(q), o, G)
                /\ G[1] = K[1] \/ \E i : i.do = "unlock" /\ Less(G[1], Learns(i, K[1]))
                /\ G[Len(Left(q)) + 1] = K[Len(q) + 1]
<1>1. IsSeq(q) /\ Len(q) \in Nat
  BY SeqFacts DEF Following
<1>2. \A j \in 1 .. Len(q) : q[j].do = "unlock" => j < Len(q) /\ q[j + 1].do # "unlock"
  BY DEF Following
<1>3. CASE Ahead(q) = 0 /\ \A j \in 1 .. Len(q) : q[j].do = "unlock"
  <2>1. Len(q) = 0
    <3> SUFFICES ASSUME Len(q) # 0 PROVE FALSE
      OBVIOUS
    <3>1. Len(q) \in 1 .. Len(q) /\ ~(Len(q) < Len(q))
      BY <1>1
    <3>2. QED BY <3>1, <1>2, <1>3
  <2>2. Left(q) = <<>> /\ Len(<<>>) = 0 /\ IsSeq(<<>>)
    BY <1>3, SmallSeqs DEF Left
  <2>3. Following(<<>>, o, K)
    BY <2>2 DEF Following
  <2>4. QED BY <2>1, <2>2, <2>3
<1>4. CASE Ahead(q) \in 1 .. Len(q) /\ \A j \in 1 .. Ahead(q) - 1 : q[j].do = "unlock"
  <2>1. PICK m \in 1 .. Len(q) : m = Ahead(q)
    BY <1>4
  <2>2. m \in 1 .. Len(q) + 1 /\ m # 0 /\ m \in Nat
    BY <1>1
  <2>3. Left(q) = SubSeq(q, m, Len(q))
    BY <2>1, <2>2 DEF Left
  <2>4. PICK G : /\ Following(Left(q), o, G) /\ G[1] = K[m]
                 /\ G[Len(Left(q)) + 1] = K[Len(q) + 1]
    BY <2>2, <2>3, FollowingSuffix
  <2>5. m <= 2
    <3> SUFFICES ASSUME ~(m <= 2) PROVE FALSE
      OBVIOUS
    <3>1. 1 \in 1 .. m - 1 /\ 2 \in 1 .. m - 1 /\ 1 \in 1 .. Len(q) /\ 1 + 1 = 2
      BY <1>1
    <3>2. q[1].do = "unlock" /\ q[2].do = "unlock"
      BY <3>1, <1>4, <2>1
    <3>3. q[1 + 1].do # "unlock"
      BY <3>1, <3>2, <1>2
    <3>4. QED BY <3>1, <3>2, <3>3
  <2>6. CASE m = 1
    BY <2>4, <2>6
  <2>7. CASE m = 2
    <3>1. 1 \in 1 .. m - 1 /\ 1 \in 1 .. Len(q)
      BY <1>1, <2>7
    <3>2. q[1].do = "unlock"
      BY <3>1, <1>4, <2>1
    <3>3. Less(K[1 + 1 + q[1].skip], Learns(q[1], K[1])) /\ Tends(q[1], o)
      BY <3>1 DEF Following
    <3>4. q[1].skip = 0
      BY <3>2, <3>3 DEF Tends
    <3>5. Less(K[2], Learns(q[1], K[1]))
      BY <3>3, <3>4
    <3>6. QED BY <2>4, <2>7, <3>2, <3>5
  <2>8. QED BY <2>2, <2>5, <2>6, <2>7
<1>5. QED BY <1>1, <1>3, <1>4, AheadFacts

-----------------------------------------------------------------------------
(* The programs that ask for a tensor.                                     *)
Joined(s, x, u, y, v) ==
  /\ IsSeq(s) /\ Len(s) = 12 /\ s[1] = x[1] /\ s[7] = y[1]
  /\ \A i \in 1 .. 5 : s[i + 1] = u[i] /\ s[i + 7] = v[i]

LEMMA TwelveFacts ==
  ASSUME NEW x, IsSeq(x), Len(x) = 1, NEW u, IsSeq(u), Len(u) = 5,
         NEW y, IsSeq(y), Len(y) = 1, NEW v, IsSeq(v), Len(v) = 5,
         NEW s, s = (x \o u) \o (y \o v)
  PROVE  Joined(s, x, u, y, v)
<1> DEFINE p == x \o u  q == y \o v
<1>2. /\ IsSeq(p) /\ Len(p) = 6 /\ p[1] = x[1] /\ \A i \in 1 .. 5 : p[i + 1] = u[i]
  <2>1. /\ IsSeq(p) /\ Len(p) = Len(x) + Len(u)
        /\ \A i \in 1 .. Len(x) + Len(u) : p[i] = IF i <= Len(x) THEN x[i] ELSE u[i - Len(x)]
    BY ConcatFacts
  <2>2. Len(x) = 1
    OBVIOUS
  <2> HIDE DEF p
  <2>3. p[1] = x[1]
    BY <2>1, <2>2
  <2>4. ASSUME NEW i \in 1 .. 5
        PROVE  p[i + 1] = u[i]
    <3>1. i + 1 \in 1 .. Len(x) + Len(u) /\ ~(i + 1 <= Len(x)) /\ (i + 1) - Len(x) = i
      BY <2>2
    <3>2. QED BY <2>1, <3>1
  <2>5. QED BY <2>1, <2>2, <2>3, <2>4
<1>3. /\ IsSeq(q) /\ Len(q) = 6 /\ q[1] = y[1] /\ \A i \in 1 .. 5 : q[i + 1] = v[i]
  <2>1. /\ IsSeq(q) /\ Len(q) = Len(y) + Len(v)
        /\ \A i \in 1 .. Len(y) + Len(v) : q[i] = IF i <= Len(y) THEN y[i] ELSE v[i - Len(y)]
    BY ConcatFacts
  <2>2. Len(y) = 1
    OBVIOUS
  <2> HIDE DEF q
  <2>3. q[1] = y[1]
    BY <2>1, <2>2
  <2>4. ASSUME NEW i \in 1 .. 5
        PROVE  q[i + 1] = v[i]
    <3>1. i + 1 \in 1 .. Len(y) + Len(v) /\ ~(i + 1 <= Len(y)) /\ (i + 1) - Len(y) = i
      BY <2>2
    <3>2. QED BY <2>1, <3>1
  <2>5. QED BY <2>1, <2>2, <2>3, <2>4
<1>4. s = p \o q
  OBVIOUS
<1> HIDE DEF p, q
<1>5. /\ IsSeq(s) /\ Len(s) = 12
      /\ \A i \in 1 .. 12 : s[i] = IF i <= 6 THEN p[i] ELSE q[i - 6]
  <2>1. /\ IsSeq(p \o q) /\ Len(p \o q) = Len(p) + Len(q)
        /\ \A i \in 1 .. Len(p) + Len(q) : (p \o q)[i] = IF i <= Len(p) THEN p[i] ELSE q[i - Len(p)]
    BY <1>2, <1>3, ConcatFacts
  <2>2. Len(p) = 6 /\ Len(q) = 6 /\ Len(p) + Len(q) = 12
    BY <1>2, <1>3
  <2>3. QED BY <1>4, <2>1, <2>2
<1>6. s[1] = x[1] /\ s[7] = y[1]
  BY <1>2, <1>3, <1>5
<1>7. ASSUME NEW i \in 1 .. 5
      PROVE  s[i + 1] = u[i] /\ s[i + 7] = v[i]
  <2>1. i + 1 \in 1 .. 12 /\ i + 1 <= 6 /\ i + 7 \in 1 .. 12 /\ ~(i + 7 <= 6) /\ (i + 7) - 6 = i + 1
    OBVIOUS
  <2>2. s[i + 1] = p[i + 1] /\ s[i + 7] = q[i + 1]
    BY <1>5, <2>1
  <2>3. QED BY <2>2, <1>2, <1>3
<1>8. QED BY <1>5, <1>6, <1>7 DEF Joined

Is(i, do, o, t, skip) == i.do = do /\ i.on = o /\ i.skip = skip /\ (do \in TensorWork => i.key[1] = t)

Upgrading(u, o, i, t, n) ==
  /\ IsSeq(u) /\ Len(u) = 5
  /\ Is(u[1], "unlock", o, t, 0) /\ Is(u[2], "write lock", o, t, 0) /\ u[3] = i
  /\ Is(u[4], "unlock", o, t, 0) /\ Is(u[5], "read lock", o, t, n)

LEMMA FiveFacts ==
  ASSUME NEW E, NEW u, u \in [1 .. 5 -> E]
  PROVE  IsSeq(u) /\ Len(u) = 5
<1>1. PICK n \in Nat : n = 5
  OBVIOUS
<1>2. u \in [1 .. n -> E]
  BY <1>1
<1>3. u \in Seq(E)
  BY <1>2
<1>4. IsSeq(u)
  BY <1>3, SeqIntro
<1>5. DOMAIN u = 1 .. 5 /\ DOMAIN u = 1 .. Len(u) /\ Len(u) \in Nat
  BY <1>3, LenProperties
<1>6. Len(u) = 5
  BY <1>5
<1>7. QED BY <1>4, <1>6

LEMMA UpgradedFacts ==
  ASSUME NEW o, NEW i, NEW t, NEW u, u = Upgraded(o, i)
  PROVE  /\ Upgrading(u, o, i, t, 0)
         /\ \A n : Upgrading([u EXCEPT ![Len(u)].skip = n], o, i, t, n)
<1>1. PICK x : x = Unlock(o)
  OBVIOUS
<1>2. PICK y : y = WriteLock(o)
  OBVIOUS
<1>3. PICK z : z = ReadLock(o)
  OBVIOUS
<1>4. u = <<x, y, i, x, z>>
  BY <1>1, <1>2, <1>3 DEF Upgraded
<1>5. u \in [1 .. 5 -> {x, y, i, z}] /\ u[1] = x /\ u[2] = y /\ u[3] = i /\ u[4] = x /\ u[5] = z
  BY <1>4
<1> HIDE <1>4
<1>6. IsSeq(u) /\ Len(u) = 5
  BY <1>5, FiveFacts
<1>7. /\ Is(x, "unlock", o, t, 0) /\ Is(y, "write lock", o, t, 0) /\ Is(z, "read lock", o, t, 0)
      /\ \A n : Is([z EXCEPT !.skip = n], "read lock", o, t, n)
  BY <1>1, <1>2, <1>3 DEF Is, Unlock, WriteLock, ReadLock, Instruction, TensorWork
<1>8. Upgrading(u, o, i, t, 0)
  BY <1>5, <1>6, <1>7 DEF Upgrading
<1>9. ASSUME NEW n
      PROVE  Upgrading([u EXCEPT ![Len(u)].skip = n], o, i, t, n)
  <2>1. PICK l : l = [z EXCEPT !.skip = n]
    OBVIOUS
  <2>2. PICK v : v = [u EXCEPT ![5] = l]
    OBVIOUS
  <2>3. [u EXCEPT ![Len(u)].skip = n] = v
    BY <2>1, <2>2, <1>5, <1>6
  <2>4. /\ v \in [1 .. 5 -> {x, y, i, z, l}]
        /\ v[1] = x /\ v[2] = y /\ v[3] = i /\ v[4] = x /\ v[5] = l
    BY <2>2, <1>5
  <2>5. IsSeq(v) /\ Len(v) = 5
    BY <2>4, FiveFacts
  <2>6. Is(l, "read lock", o, t, n)
    BY <2>1, <1>7
  <2>7. Upgrading(v, o, i, t, n)
    BY <2>4, <2>5, <2>6, <1>7 DEF Upgrading
  <2>8. QED BY <2>3, <2>7
<1>10. QED BY <1>8, <1>9

(* The instructions by which a tensor is refreshed.                        *)
Refreshing(s, t, o) ==
  /\ IsSeq(s) /\ Len(s) = 12
  /\ Is(s[1], "has", o, t, 5)
  /\ Is(s[2], "unlock", o, t, 0) /\ Is(s[3], "write lock", o, t, 0) /\ Is(s[4], "make", o, t, 0)
  /\ Is(s[5], "unlock", o, t, 0) /\ Is(s[6], "read lock", o, t, 6)
  /\ Is(s[7], "complete", o, t, 5)
  /\ Is(s[8], "unlock", o, t, 0) /\ Is(s[9], "write lock", o, t, 0) /\ Is(s[10], "fill", o, t, 0)
  /\ Is(s[11], "unlock", o, t, 0) /\ Is(s[12], "read lock", o, t, 0)

LEMMA RefreshFacts ==
  ASSUME NEW t, NEW o
  PROVE  Refreshing(Refresh(t, o), t, o)
<1>0. PICK fill : fill = FillTensor(o, t)
  OBVIOUS
<1>01. PICK make : make = MakeTensor(o, t)
  OBVIOUS
<1> DEFINE w == Upgraded(o, make)  v == Upgraded(o, fill)
           c == [Complete(o, t) EXCEPT !.skip = 5]
           u == [w EXCEPT ![Len(w)].skip = 6]
           h == [Has(o, t) EXCEPT !.skip = 5]
           b == <<c>> \o v
<1>1. /\ IsSeq(v) /\ Len(v) = 5 /\ v[3] = fill
      /\ Is(v[1], "unlock", o, t, 0) /\ Is(v[2], "write lock", o, t, 0)
      /\ Is(v[4], "unlock", o, t, 0) /\ Is(v[5], "read lock", o, t, 0)
  <2>1. PICK z : z = Upgraded(o, fill)
    OBVIOUS
  <2>2. Upgrading(z, o, fill, t, 0)
    BY <2>1, UpgradedFacts
  <2>3. QED BY <2>1, <2>2 DEF Upgrading
<1>2. /\ IsSeq(u) /\ Len(u) = 5 /\ u[3] = make
      /\ Is(u[1], "unlock", o, t, 0) /\ Is(u[2], "write lock", o, t, 0)
      /\ Is(u[4], "unlock", o, t, 0) /\ Is(u[5], "read lock", o, t, 6)
  <2>1. PICK z : z = Upgraded(o, make)
    OBVIOUS
  <2>2. Upgrading([z EXCEPT ![Len(z)].skip = 6], o, make, t, 6)
    BY <2>1, UpgradedFacts
  <2>3. u = [z EXCEPT ![Len(z)].skip = 6]
    BY <2>1
  <2> HIDE DEF u
  <2>4. Upgrading(u, o, make, t, 6)
    BY <2>2, <2>3
  <2>5. QED BY <2>4 DEF Upgrading
<1>3. /\ Is(h, "has", o, t, 5) /\ Is(c, "complete", o, t, 5)
      /\ Is(make, "make", o, t, 0) /\ Is(fill, "fill", o, t, 0)
  BY <1>0, <1>01 DEF Is, Has, Complete, MakeTensor, FillTensor, Instruction
<1>4. IfNot(Complete(o, t), v) = b
  <2>1. Len(v) = 5
    BY <1>1
  <2> HIDE DEF v
  <2>2. QED BY <2>1 DEF IfNot
<1>5. Len(b) = 6
  <2> HIDE DEF v, c
  <2>1. Len(<<c>>) = 1 /\ IsSeq(<<c>>)
    BY SmallSeqs
  <2>2. PICK x : x = <<c>>
    OBVIOUS
  <2>3. Len(x \o v) = Len(x) + Len(v)
    BY <2>1, <2>2, <1>1, ConcatFacts
  <2>4. Len(x) = 1 /\ Len(v) = 5
    BY <2>1, <2>2, <1>1
  <2>5. Len(x \o v) = 6
    BY <2>3, <2>4
  <2>6. QED BY <2>2, <2>5
<1>6. IfNot(Has(o, t), u) = <<h>> \o u
  <2>1. Len(u) = 5
    BY <1>2
  <2> HIDE DEF u
  <2>2. QED BY <2>1 DEF IfNot
<1>7. Refresh(t, o) = (<<h>> \o u) \o b
  <2>1. Refresh(t, o) = IfElse(Has(o, t), IfNot(Complete(o, t), v), w)
    BY <1>0, <1>01 DEF Refresh
  <2>2. Refresh(t, o) = IfElse(Has(o, t), b, w)
    BY <2>1, <1>4
  <2>3. IfElse(Has(o, t), b, w) = IfNot(Has(o, t), [w EXCEPT ![Len(w)].skip = Len(b)]) \o b
    BY DEF IfElse
  <2> HIDE DEF b, w, h
  <2>4. QED BY <2>2, <2>3, <1>5, <1>6
<1> HIDE DEF w, v, c, u, h
<1>8. PICK s : s = Refresh(t, o)
  OBVIOUS
<1>9. s = (<<h>> \o u) \o (<<c>> \o v)
  BY <1>7, <1>8
<1>10. /\ IsSeq(s) /\ Len(s) = 12 /\ s[1] = h /\ s[7] = c
       /\ \A i \in 1 .. 5 : s[i + 1] = u[i] /\ s[i + 7] = v[i]
  <2>1. IsSeq(u) /\ Len(u) = 5 /\ IsSeq(v) /\ Len(v) = 5
    BY <1>1, <1>2
  <2>2. PICK x : x = u
    OBVIOUS
  <2>3. PICK y : y = v
    OBVIOUS
  <2>4. IsSeq(x) /\ Len(x) = 5 /\ IsSeq(y) /\ Len(y) = 5
    BY <2>1, <2>2, <2>3
  <2>7. PICK a : a = <<h>>
    OBVIOUS
  <2>8. PICK d : d = <<c>>
    OBVIOUS
  <2>9. s = (a \o x) \o (d \o y)
    BY <2>2, <2>3, <2>7, <2>8, <1>9
  <2>10. IsSeq(a) /\ Len(a) = 1 /\ a[1] = h /\ IsSeq(d) /\ Len(d) = 1 /\ d[1] = c
    BY <2>7, <2>8, SmallSeqs
  <2>5. Joined(s, a, x, d, y)
    BY <2>4, <2>9, <2>10, TwelveFacts
  <2>6. QED BY <2>2, <2>3, <2>5, <2>10 DEF Joined
<1>11. /\ s[2] = u[1] /\ s[3] = u[2] /\ s[4] = u[3] /\ s[5] = u[4] /\ s[6] = u[5]
       /\ s[8] = v[1] /\ s[9] = v[2] /\ s[10] = v[3] /\ s[11] = v[4] /\ s[12] = v[5]
  <2>1. /\ s[1 + 1] = u[1] /\ s[2 + 1] = u[2] /\ s[3 + 1] = u[3] /\ s[4 + 1] = u[4] /\ s[5 + 1] = u[5]
        /\ s[1 + 7] = v[1] /\ s[2 + 7] = v[2] /\ s[3 + 7] = v[3] /\ s[4 + 7] = v[4] /\ s[5 + 7] = v[5]
    BY <1>10
  <2>2. QED BY <2>1
<1>12. Refreshing(s, t, o)
  BY <1>1, <1>2, <1>3, <1>10, <1>11 DEF Refreshing
<1>13. QED BY <1>8, <1>12

(* Once a tensor has been refreshed it is there and whole, if those it     *)
(* takes its symbols from are.                                             *)
LEMMA LeadsRefresh ==
  ASSUME NEW t \in TensorNames, NEW o, NEW M, NEW W, t = "cg" \/ "cg" \in W
  PROVE  Leads(Refresh(t, o), o, Lore(M, W, {}, FALSE), Lore(M \cup {t}, W \cup {t}, {}, FALSE))
<1>1. PICK s : s = Refresh(t, o)
  OBVIOUS
<1>2. PICK a : a = Lore(M, W, {}, FALSE)
  OBVIOUS
<1>3. PICK d : d = Lore(M, W, IF "cg" \in W THEN {t} ELSE {}, FALSE)
  OBVIOUS
<1>4. PICK m : m = Lore(M \cup {t}, W, {}, FALSE)
  OBVIOUS
<1>5. PICK z : z = Lore(M \cup {t}, W \cup {t}, {}, FALSE)
  OBVIOUS
<1> DEFINE K == [j \in 1 .. 13 |-> CASE j = 1 -> a [] j \in {2, 3, 4} -> d [] j \in {7, 8, 9, 10} -> m [] OTHER -> z]
<1>6. /\ K[1] = a /\ K[2] = d /\ K[3] = d /\ K[4] = d /\ K[5] = z /\ K[6] = z
      /\ K[7] = m /\ K[8] = m /\ K[9] = m /\ K[10] = m /\ K[11] = z /\ K[12] = z /\ K[13] = z
  OBVIOUS
<1> HIDE DEF K
<1>7. Refreshing(s, t, o)
  BY <1>1, RefreshFacts
<1>18. /\ s[1].do = "has" /\ s[1].skip = 5 /\ s[1].key[1] = t /\ Tends(s[1], o)
       /\ s[2].do = "unlock" /\ s[2].skip = 0 /\ Tends(s[2], o)
       /\ s[3].do = "write lock" /\ s[3].skip = 0 /\ Tends(s[3], o)
       /\ s[4].do = "make" /\ s[4].skip = 0 /\ s[4].key[1] = t /\ Tends(s[4], o)
       /\ s[5].do = "unlock" /\ s[5].skip = 0 /\ Tends(s[5], o)
       /\ s[6].do = "read lock" /\ s[6].skip = 6 /\ Tends(s[6], o)
       /\ s[7].do = "complete" /\ s[7].skip = 5 /\ s[7].key[1] = t /\ Tends(s[7], o)
       /\ s[8].do = "unlock" /\ s[8].skip = 0 /\ Tends(s[8], o)
       /\ s[9].do = "write lock" /\ s[9].skip = 0 /\ Tends(s[9], o)
       /\ s[10].do = "fill" /\ s[10].skip = 0 /\ s[10].key[1] = t /\ Tends(s[10], o)
       /\ s[11].do = "unlock" /\ s[11].skip = 0 /\ Tends(s[11], o)
       /\ s[12].do = "read lock" /\ s[12].skip = 0 /\ Tends(s[12], o)
  <2>1. s[1].do = "has" /\ s[1].skip = 5 /\ s[1].key[1] = t /\ Tends(s[1], o)
    <3>1. PICK i : i = s[1]
      OBVIOUS
    <3>2. Is(i, "has", o, t, 5)
      BY <3>1, <1>7 DEF Refreshing
    <3>3. i.do = "has" /\ i.skip = 5 /\ i.key[1] = t /\ Tends(i, o)
      BY <3>2 DEF Is, Tends, TensorWork
    <3>4. QED BY <3>1, <3>3
  <2>2. s[2].do = "unlock" /\ s[2].skip = 0 /\ Tends(s[2], o)
    <3>1. PICK i : i = s[2]
      OBVIOUS
    <3>2. Is(i, "unlock", o, t, 0)
      BY <3>1, <1>7 DEF Refreshing
    <3>3. i.do = "unlock" /\ i.skip = 0 /\ Tends(i, o)
      BY <3>2 DEF Is, Tends, TensorWork
    <3>4. QED BY <3>1, <3>3
  <2>3. s[3].do = "write lock" /\ s[3].skip = 0 /\ Tends(s[3], o)
    <3>1. PICK i : i = s[3]
      OBVIOUS
    <3>2. Is(i, "write lock", o, t, 0)
      BY <3>1, <1>7 DEF Refreshing
    <3>3. i.do = "write lock" /\ i.skip = 0 /\ Tends(i, o)
      BY <3>2 DEF Is, Tends, TensorWork
    <3>4. QED BY <3>1, <3>3
  <2>4. s[4].do = "make" /\ s[4].skip = 0 /\ s[4].key[1] = t /\ Tends(s[4], o)
    <3>1. PICK i : i = s[4]
      OBVIOUS
    <3>2. Is(i, "make", o, t, 0)
      BY <3>1, <1>7 DEF Refreshing
    <3>3. i.do = "make" /\ i.skip = 0 /\ i.key[1] = t /\ Tends(i, o)
      BY <3>2 DEF Is, Tends, TensorWork
    <3>4. QED BY <3>1, <3>3
  <2>5. s[5].do = "unlock" /\ s[5].skip = 0 /\ Tends(s[5], o)
    <3>1. PICK i : i = s[5]
      OBVIOUS
    <3>2. Is(i, "unlock", o, t, 0)
      BY <3>1, <1>7 DEF Refreshing
    <3>3. i.do = "unlock" /\ i.skip = 0 /\ Tends(i, o)
      BY <3>2 DEF Is, Tends, TensorWork
    <3>4. QED BY <3>1, <3>3
  <2>6. s[6].do = "read lock" /\ s[6].skip = 6 /\ Tends(s[6], o)
    <3>1. PICK i : i = s[6]
      OBVIOUS
    <3>2. Is(i, "read lock", o, t, 6)
      BY <3>1, <1>7 DEF Refreshing
    <3>3. i.do = "read lock" /\ i.skip = 6 /\ Tends(i, o)
      BY <3>2 DEF Is, Tends, TensorWork
    <3>4. QED BY <3>1, <3>3
  <2>7. s[7].do = "complete" /\ s[7].skip = 5 /\ s[7].key[1] = t /\ Tends(s[7], o)
    <3>1. PICK i : i = s[7]
      OBVIOUS
    <3>2. Is(i, "complete", o, t, 5)
      BY <3>1, <1>7 DEF Refreshing
    <3>3. i.do = "complete" /\ i.skip = 5 /\ i.key[1] = t /\ Tends(i, o)
      BY <3>2 DEF Is, Tends, TensorWork
    <3>4. QED BY <3>1, <3>3
  <2>8. s[8].do = "unlock" /\ s[8].skip = 0 /\ Tends(s[8], o)
    <3>1. PICK i : i = s[8]
      OBVIOUS
    <3>2. Is(i, "unlock", o, t, 0)
      BY <3>1, <1>7 DEF Refreshing
    <3>3. i.do = "unlock" /\ i.skip = 0 /\ Tends(i, o)
      BY <3>2 DEF Is, Tends, TensorWork
    <3>4. QED BY <3>1, <3>3
  <2>9. s[9].do = "write lock" /\ s[9].skip = 0 /\ Tends(s[9], o)
    <3>1. PICK i : i = s[9]
      OBVIOUS
    <3>2. Is(i, "write lock", o, t, 0)
      BY <3>1, <1>7 DEF Refreshing
    <3>3. i.do = "write lock" /\ i.skip = 0 /\ Tends(i, o)
      BY <3>2 DEF Is, Tends, TensorWork
    <3>4. QED BY <3>1, <3>3
  <2>10. s[10].do = "fill" /\ s[10].skip = 0 /\ s[10].key[1] = t /\ Tends(s[10], o)
    <3>1. PICK i : i = s[10]
      OBVIOUS
    <3>2. Is(i, "fill", o, t, 0)
      BY <3>1, <1>7 DEF Refreshing
    <3>3. i.do = "fill" /\ i.skip = 0 /\ i.key[1] = t /\ Tends(i, o)
      BY <3>2 DEF Is, Tends, TensorWork
    <3>4. QED BY <3>1, <3>3
  <2>11. s[11].do = "unlock" /\ s[11].skip = 0 /\ Tends(s[11], o)
    <3>1. PICK i : i = s[11]
      OBVIOUS
    <3>2. Is(i, "unlock", o, t, 0)
      BY <3>1, <1>7 DEF Refreshing
    <3>3. i.do = "unlock" /\ i.skip = 0 /\ Tends(i, o)
      BY <3>2 DEF Is, Tends, TensorWork
    <3>4. QED BY <3>1, <3>3
  <2>12. s[12].do = "read lock" /\ s[12].skip = 0 /\ Tends(s[12], o)
    <3>1. PICK i : i = s[12]
      OBVIOUS
    <3>2. Is(i, "read lock", o, t, 0)
      BY <3>1, <1>7 DEF Refreshing
    <3>3. i.do = "read lock" /\ i.skip = 0 /\ Tends(i, o)
      BY <3>2 DEF Is, Tends, TensorWork
    <3>4. QED BY <3>1, <3>3
  <2>13. QED BY <2>1, <2>2, <2>3, <2>4, <2>5, <2>6, <2>7, <2>8, <2>9, <2>10, <2>11, <2>12
<1>8. ASSUME NEW i, NEW k \in {d, m, z}, i.do \in {"unlock", "write lock", "read lock"}
      PROVE  Less(k, Learns(i, k))
  <2>1. ~k.told
    BY <1>3, <1>4, <1>5 DEF Lore
  <2>2. ~Makes(i, k) /\ ~Fills(i, k) /\ i.do # "has"
    BY <1>8 DEF Makes, Fills
  <2>3. Learns(i, k).made = k.made /\ Learns(i, k).whole = k.whole /\ Learns(i, k).due = k.due
    BY <2>2 DEF Learns
  <2>4. QED BY <2>1, <2>3 DEF Less
<1>9. Less(m, Learns(s[1], a)) /\ Less(d, Misses(s[1], a))
  <2>1. s[1].do = "has" /\ s[1].key[1] = t
    BY <1>18
  <2>2. QED BY <2>1, <1>2, <1>3, <1>4 DEF Lore, Learns, Makes, Fills, Less, Misses
<1>10. Less(z, Learns(s[4], d))
  <2>1. s[4].do = "make" /\ s[4].key[1] = t
    BY <1>18
  <2>2. Makes(s[4], d)
    BY <2>1, <1>3 DEF Makes, Lore
  <2>3. QED BY <2>1, <2>2, <1>3, <1>5 DEF Lore, Learns, Less
<1>11. Less(z, Learns(s[7], m)) /\ Less(m, Misses(s[7], m))
  <2>1. s[7].do = "complete" /\ s[7].key[1] = t
    BY <1>18
  <2>2. Fills(s[7], m)
    BY <2>1, <1>4 DEF Fills, Lore
  <2>3. QED BY <2>1, <2>2, <1>4, <1>5 DEF Lore, Learns, Makes, Less, Misses
<1>12. Less(z, Learns(s[10], m))
  <2>1. s[10].do = "fill" /\ s[10].key[1] = t
    BY <1>18
  <2>2. Fills(s[10], m)
    BY <2>1, <1>4 DEF Fills, Lore
  <2>3. QED BY <2>1, <2>2, <1>4, <1>5 DEF Lore, Learns, Makes, Less
<1> DEFINE Placed(j) == /\ Tends(s[j], o)
                        /\ s[j].skip \in 0 .. 12 - j
                        /\ Less(K[j + 1 + s[j].skip], Learns(s[j], K[j]))
                        /\ s[j].do \in {"has", "complete"} => Less(K[j + 1], Misses(s[j], K[j]))
                        /\ s[j].do = "unlock" => j < 12 /\ s[j + 1].do # "unlock"
<1>14. ASSUME NEW j \in 1 .. 12
       PROVE  Placed(j)
  <2>1. Placed(1)
    <3>1. s[1].do = "has" /\ s[1].skip = 5 /\ Tends(s[1], o)
      BY <1>18
    <3>2. Less(K[7], Learns(s[1], K[1]))
      BY <1>6, <1>9
    <3>3. Less(K[2], Misses(s[1], K[1]))
      BY <1>6, <1>9
    <3>4. QED BY <3>1, <3>2, <3>3
  <2>2. Placed(2)
    <3>1. s[2].do = "unlock" /\ s[2].skip = 0 /\ Tends(s[2], o) /\ s[3].do # "unlock"
      BY <1>18
    <3>2. Less(K[3], Learns(s[2], K[2]))
      <4>1. Less(d, Learns(s[2], d))
        BY <3>1, <1>8
      <4>2. QED BY <4>1, <1>6
    <3>4. QED BY <3>1, <3>2
  <2>3. Placed(3)
    <3>1. s[3].do = "write lock" /\ s[3].skip = 0 /\ Tends(s[3], o)
      BY <1>18
    <3>2. Less(K[4], Learns(s[3], K[3]))
      <4>1. Less(d, Learns(s[3], d))
        BY <3>1, <1>8
      <4>2. QED BY <4>1, <1>6
    <3>3. s[3].do \notin {"has", "complete"} /\ s[3].do # "unlock"
      BY <3>1
    <3>4. s[3].skip = 0 /\ Tends(s[3], o)
      BY <3>1
    <3>5. QED BY <3>2, <3>3, <3>4
  <2>4. Placed(4)
    <3>1. s[4].do = "make" /\ s[4].skip = 0 /\ Tends(s[4], o)
      BY <1>18
    <3>2. Less(K[5], Learns(s[4], K[4]))
      BY <1>6, <1>10
    <3>3. s[4].do \notin {"has", "complete", "unlock"} /\ s[4].skip \in 0 .. 12 - 4
      BY <3>1
    <3>4. QED BY <3>1, <3>2, <3>3
  <2>5. Placed(5)
    <3>1. s[5].do = "unlock" /\ s[5].skip = 0 /\ Tends(s[5], o) /\ s[6].do # "unlock"
      BY <1>18
    <3>2. Less(K[6], Learns(s[5], K[5]))
      <4>1. Less(z, Learns(s[5], z))
        BY <3>1, <1>8
      <4>2. QED BY <4>1, <1>6
    <3>4. QED BY <3>1, <3>2
  <2>6. Placed(6)
    <3>1. s[6].do = "read lock" /\ s[6].skip = 6 /\ Tends(s[6], o)
      BY <1>18
    <3>2. Less(K[13], Learns(s[6], K[6]))
      <4>1. Less(z, Learns(s[6], z))
        BY <3>1, <1>8
      <4>2. QED BY <4>1, <1>6
    <3>3. s[6].do \notin {"has", "complete"} /\ s[6].do # "unlock"
      BY <3>1
    <3>4. s[6].skip = 6 /\ Tends(s[6], o)
      BY <3>1
    <3>5. QED BY <3>2, <3>3, <3>4
  <2>7. Placed(7)
    <3>1. s[7].do = "complete" /\ s[7].skip = 5 /\ Tends(s[7], o)
      BY <1>18
    <3>2. Less(K[13], Learns(s[7], K[7]))
      BY <1>6, <1>11
    <3>3. Less(K[8], Misses(s[7], K[7]))
      BY <1>6, <1>11
    <3>4. QED BY <3>1, <3>2, <3>3
  <2>8. Placed(8)
    <3>1. s[8].do = "unlock" /\ s[8].skip = 0 /\ Tends(s[8], o) /\ s[9].do # "unlock"
      BY <1>18
    <3>2. Less(K[9], Learns(s[8], K[8]))
      <4>1. Less(m, Learns(s[8], m))
        BY <3>1, <1>8
      <4>2. QED BY <4>1, <1>6
    <3>4. QED BY <3>1, <3>2
  <2>9. Placed(9)
    <3>1. s[9].do = "write lock" /\ s[9].skip = 0 /\ Tends(s[9], o)
      BY <1>18
    <3>2. Less(K[10], Learns(s[9], K[9]))
      <4>1. Less(m, Learns(s[9], m))
        BY <3>1, <1>8
      <4>2. QED BY <4>1, <1>6
    <3>3. s[9].do \notin {"has", "complete"} /\ s[9].do # "unlock"
      BY <3>1
    <3>4. s[9].skip = 0 /\ Tends(s[9], o)
      BY <3>1
    <3>5. QED BY <3>2, <3>3, <3>4
  <2>10. Placed(10)
    <3>1. s[10].do = "fill" /\ s[10].skip = 0 /\ Tends(s[10], o)
      BY <1>18
    <3>2. Less(K[11], Learns(s[10], K[10]))
      BY <1>6, <1>12
    <3>3. s[10].do \notin {"has", "complete", "unlock"} /\ s[10].skip \in 0 .. 12 - 10
      BY <3>1
    <3>4. QED BY <3>1, <3>2, <3>3
  <2>11. Placed(11)
    <3>1. s[11].do = "unlock" /\ s[11].skip = 0 /\ Tends(s[11], o) /\ s[12].do # "unlock"
      BY <1>18
    <3>2. Less(K[12], Learns(s[11], K[11]))
      <4>1. Less(z, Learns(s[11], z))
        BY <3>1, <1>8
      <4>2. QED BY <4>1, <1>6
    <3>4. QED BY <3>1, <3>2
  <2>12. Placed(12)
    <3>1. s[12].do = "read lock" /\ s[12].skip = 0 /\ Tends(s[12], o)
      BY <1>18
    <3>2. Less(K[13], Learns(s[12], K[12]))
      <4>1. Less(z, Learns(s[12], z))
        BY <3>1, <1>8
      <4>2. QED BY <4>1, <1>6
    <3>3. s[12].do \notin {"has", "complete"} /\ s[12].do # "unlock"
      BY <3>1
    <3>4. s[12].skip = 0 /\ Tends(s[12], o)
      BY <3>1
    <3>5. QED BY <3>2, <3>3, <3>4
  <2>13. QED BY <2>1, <2>2, <2>3, <2>4, <2>5, <2>6, <2>7, <2>8, <2>9, <2>10, <2>11, <2>12
<1>15. IsSeq(s) /\ Len(s) = 12
  BY <1>7 DEF Refreshing
<1>16. Following(s, o, K)
  BY <1>14, <1>15 DEF Following
<1>17. Less(K[1], a) /\ Less(z, K[Len(s) + 1])
  BY <1>6, <1>15, LessOrder
<1>19. QED BY <1>1, <1>2, <1>5, <1>16, <1>17 DEF Leads

Unknown   == Lore({}, {}, {}, FALSE)
Satisfied == Lore({}, {}, {}, TRUE)

(* A call for a tensor ends with one that has all its symbols.             *)
LEMMA LeadsToAnswer ==
  ASSUME NEW o, NEW r
  PROVE  /\ Leads(CollinsGisin(o), o, Unknown, Satisfied)
         /\ r.n = 0 => Leads(FullCorrelator(r, o), o, Unknown, Satisfied)
         /\ Leads(ProbabilityTable(o), o, Unknown, Satisfied)
         /\ Leads(MakeExplicit(o), o, Unknown, Satisfied)
<1> DEFINE first == Lore({"cg"}, {"cg"}, {}, FALSE)
           both(t) == Lore({"cg"} \cup {t}, {"cg"} \cup {t}, {}, FALSE)
<1>1. Leads(<<ReadLock(o)>>, o, Unknown, Unknown)
  <2>1. PICK i : i = ReadLock(o)
    OBVIOUS
  <2>2. Tends(i, o) /\ i.skip = 0 /\ i.do = "read lock"
    BY <2>1 DEF ReadLock, Instruction, Tends, TensorWork
  <2>3. Less(Unknown, Learns(i, Unknown))
    BY <2>2 DEF Unknown, Lore, Less, Learns
  <2>4. Leads(<<i>>, o, Unknown, Unknown)
    BY <2>2, <2>3, LeadsOne
  <2>5. QED BY <2>1, <2>4
<1>2. ASSUME NEW t \in TensorNames, NEW k, t \in k.whole
      PROVE  Leads(<<NeedTensor(o, t)>>, o, k, Satisfied)
  <2>1. PICK i : i = NeedTensor(o, t)
    OBVIOUS
  <2>2. Tends(i, o) /\ i.skip = 0 /\ i.do = "need tensor" /\ i.key[1] = t
    BY <2>1 DEF NeedTensor, Instruction, Tends, TensorWork
  <2>3. Less(Satisfied, Learns(i, k))
    BY <1>2, <2>2 DEF Satisfied, Lore, Less, Learns
  <2>4. Leads(<<i>>, o, k, Satisfied)
    BY <2>2, <2>3, LeadsOne
  <2>5. QED BY <2>1, <2>4
<1>3. Leads(Refresh("cg", o), o, Unknown, first)
  <2>1. "cg" \in TensorNames /\ {} \cup {"cg"} = {"cg"}
    BY DEF TensorNames
  <2>2. Leads(Refresh("cg", o), o, Lore({}, {}, {}, FALSE), Lore({} \cup {"cg"}, {} \cup {"cg"}, {}, FALSE))
    BY <2>1, LeadsRefresh
  <2>3. QED BY <2>1, <2>2 DEF Unknown
<1>4. ASSUME NEW t \in TensorNames
      PROVE  Leads(Refresh(t, o), o, first, both(t))
  BY LeadsRefresh
<1>5. "cg" \in first.whole /\ \A t : t \in both(t).whole
  BY DEF Lore
<1> HIDE DEF first, both
<1>6. Leads(CollinsGisin(o), o, Unknown, Satisfied)
  <2>1. PICK x : x = <<ReadLock(o)>>
    OBVIOUS
  <2>2. PICK y : y = Refresh("cg", o)
    OBVIOUS
  <2>3. PICK z : z = <<NeedTensor(o, "cg")>>
    OBVIOUS
  <2>4. CollinsGisin(o) = (x \o y) \o z
    BY <2>1, <2>2, <2>3 DEF CollinsGisin, RefreshCollinsGisin
  <2>5. Leads(x, o, Unknown, Unknown) /\ Leads(y, o, Unknown, first) /\ Leads(z, o, first, Satisfied)
    <3>1. "cg" \in TensorNames
      BY DEF TensorNames
    <3>2. QED BY <3>1, <2>1, <2>2, <2>3, <1>1, <1>2, <1>3, <1>5
  <2>6. Leads(x \o y, o, Unknown, first)
    BY <2>5, LeadsOn
  <2>7. QED BY <2>4, <2>5, <2>6, LeadsOn
<1>7. ASSUME NEW t \in TensorNames
      PROVE  Leads((<<ReadLock(o)>> \o (Refresh("cg", o) \o Refresh(t, o))) \o <<NeedTensor(o, t)>>, o, Unknown, Satisfied)
  <2>1. PICK x : x = <<ReadLock(o)>>
    OBVIOUS
  <2>2. PICK y : y = Refresh("cg", o)
    OBVIOUS
  <2>3. PICK w : w = Refresh(t, o)
    OBVIOUS
  <2>4. PICK z : z = <<NeedTensor(o, t)>>
    OBVIOUS
  <2>5. PICK k : k = both(t)
    OBVIOUS
  <2>6. /\ Leads(x, o, Unknown, Unknown) /\ Leads(y, o, Unknown, first)
        /\ Leads(w, o, first, k) /\ Leads(z, o, k, Satisfied)
    BY <2>1, <2>2, <2>3, <2>4, <2>5, <1>1, <1>2, <1>3, <1>4, <1>5
  <2>7. Leads(y \o w, o, Unknown, k)
    BY <2>6, LeadsOn
  <2>8. Leads(x \o (y \o w), o, Unknown, k)
    BY <2>6, <2>7, LeadsOn
  <2>9. Leads((x \o (y \o w)) \o z, o, Unknown, Satisfied)
    BY <2>6, <2>8, LeadsOn
  <2>10. QED BY <2>1, <2>2, <2>3, <2>4, <2>9
<1>8. ASSUME r.n = 0
      PROVE  Leads(FullCorrelator(r, o), o, Unknown, Satisfied)
  <2>1. "fc" \in TensorNames
    BY DEF TensorNames
  <2>2. Leads((<<ReadLock(o)>> \o (Refresh("cg", o) \o Refresh("fc", o))) \o <<NeedTensor(o, "fc")>>, o, Unknown, Satisfied)
    BY <2>1, <1>7
  <2>3. FullCorrelator(r, o) = (<<ReadLock(o)>> \o (Refresh("cg", o) \o Refresh("fc", o))) \o <<NeedTensor(o, "fc")>>
    BY <1>8 DEF FullCorrelator, RefreshFullCorrelator, RefreshCollinsGisin
  <2>4. QED BY <2>2, <2>3
<1>9. Leads(ProbabilityTable(o), o, Unknown, Satisfied)
  <2>1. "pt" \in TensorNames
    BY DEF TensorNames
  <2>2. Leads((<<ReadLock(o)>> \o (Refresh("cg", o) \o Refresh("pt", o))) \o <<NeedTensor(o, "pt")>>, o, Unknown, Satisfied)
    BY <2>1, <1>7
  <2>3. ProbabilityTable(o) = (<<ReadLock(o)>> \o (Refresh("cg", o) \o Refresh("pt", o))) \o <<NeedTensor(o, "pt")>>
    BY DEF ProbabilityTable, RefreshProbabilityTensor, RefreshCollinsGisin
  <2>4. QED BY <2>2, <2>3
<1>10. QED BY <1>6, <1>8, <1>9 DEF MakeExplicit

-----------------------------------------------------------------------------
(* Calls that ask for a tensor, with all words there that it is about.     *)
Asks(p) ==
  /\ p.r.key = <<"tensor">>
  /\ ~(p.r.fn = "full_correlator" /\ p.r.n # 0)
  /\ TensorWords \subseteq p.known

(* They come to a tensor with all its symbols, unless they throw.          *)
Comes(p, S) ==
  \E K : /\ Following(p.todo, p.on, K)
         /\ Asserts(p.complete, S[p.on], K[1])
         /\ K[Len(p.todo) + 1].told

CallTells(p, S) ==
  Asks(p) => /\ p.on \in DOMAIN S
             /\ TensorWords \subseteq S[p.on].known
             /\ (p.todo = <<>> /\ p.answer = -1) \/ Comes(p, S)

TensorState ==
  /\ \A o \in DOMAIN system : TensorsInv(system[o])
  /\ \A c \in Walkers : CallTells(call[c], system)

(* All systems stay, and keep their tensors.                               *)
Steadily(S, T) ==
  /\ DOMAIN S \subseteq DOMAIN T
  /\ \A o \in DOMAIN S : Steady(S[o], T[o])
  /\ \A o \in DOMAIN T : TensorsInv(T[o])

-----------------------------------------------------------------------------
LEMMA TellsStill ==
  ASSUME NEW S, NEW T, \A o \in DOMAIN S : TensorsInv(S[o]), Steadily(S, T), NEW p, CallTells(p, S)
  PROVE  CallTells(p, T)
<1> SUFFICES ASSUME Asks(p)
             PROVE  /\ p.on \in DOMAIN T
                    /\ TensorWords \subseteq T[p.on].known
                    /\ (p.todo = <<>> /\ p.answer = -1) \/ Comes(p, T)
  BY DEF CallTells
<1>1. /\ p.on \in DOMAIN S
      /\ TensorWords \subseteq S[p.on].known
      /\ (p.todo = <<>> /\ p.answer = -1) \/ Comes(p, S)
  BY DEF CallTells
<1>2. p.on \in DOMAIN T /\ TensorsInv(S[p.on]) /\ Steady(S[p.on], T[p.on])
  BY <1>1 DEF Steadily
<1>3. TensorWords \subseteq T[p.on].known
  BY <1>1, <1>2 DEF Steady
<1>4. CASE Comes(p, S)
  <2>1. PICK K : /\ Following(p.todo, p.on, K)
                 /\ Asserts(p.complete, S[p.on], K[1])
                 /\ K[Len(p.todo) + 1].told
    BY <1>4 DEF Comes
  <2>2. Asserts(p.complete, T[p.on], K[1])
    BY <1>2, <2>1, AssertsStays
  <2>3. Comes(p, T)
    BY <2>1, <2>2 DEF Comes
  <2>4. QED BY <1>2, <1>3, <2>3
<1>5. QED BY <1>1, <1>2, <1>3, <1>4

LEMMA TellSteps ==
  ASSUME TensorState, Steadily(system, system'),
         \A d \in Walkers : call'[d] = call[d] \/ CallTells(call'[d], system')
  PROVE  TensorState'
<1>1. ASSUME NEW d \in Walkers
      PROVE  CallTells(call'[d], system')
  <2>1. CASE call'[d] = call[d]
    <3>1. CallTells(call[d], system')
      BY TellsStill DEF TensorState
    <3>2. QED BY <2>1, <3>1
  <2>2. QED BY <2>1
<1>2. \A o \in DOMAIN system' : TensorsInv(system'[o])
  BY DEF Steadily
<1>3. QED BY <1>1, <1>2 DEF TensorState

LEMMA SteadilySame ==
  ASSUME NEW S, \A o \in DOMAIN S : TensorsInv(S[o])
  PROVE  Steadily(S, S)
<1>1. ASSUME NEW o \in DOMAIN S
      PROVE  Steady(S[o], S[o])
  <2>1. TensorsInv(S[o]) /\ SameTensors(S[o], S[o]) /\ S[o].known \subseteq S[o].known
    BY DEF SameTensors
  <2>2. QED BY <2>1, SteadySame
<1>2. QED BY <1>1 DEF Steadily

(* To take a lock, or to release it, tells nothing about the tensors.      *)
LocksOrUnlocks(i) == i.do \in {"read lock", "write lock", "unlock"}

LEMMA LocksLearn ==
  ASSUME NEW i, LocksOrUnlocks(i), NEW k
  PROVE  Less(Learns(i, k), k)
  BY DEF Less, Learns, Makes, Fills, LocksOrUnlocks

-----------------------------------------------------------------------------
Continues(p, z) ==
  z.r = p.r /\ z.on = p.on /\ z.known = p.known /\ z.complete = p.complete /\ z.answer = p.answer

LEMMA Continued ==
  ASSUME NEW p, IsCall(p), NEW n
  PROVE  /\ Continues(p, Proceed(p, n))
         /\ Proceed(p, n).todo = Left(SubSeq(p.todo, n + 2, Len(p.todo)))
<1> DEFINE z == Proceed(p, n)  rest == SubSeq(p.todo, n + 2, Len(p.todo))  left == Left(rest)
<1>1. z = [p EXCEPT !.todo = left, !.read = IF left = <<>> THEN {} ELSE @ \ Released(rest),
                    !.write = IF left = <<>> THEN {} ELSE @ \ Released(rest)]
  BY DEF Proceed
<1>2. {"todo", "read", "write", "answer", "r", "on", "known", "complete"} \subseteq CallFields
  BY DEF CallFields, Idle
<1> HIDE DEF z, left, CallFields
<1>3. /\ z.answer = p.answer /\ z.r = p.r /\ z.on = p.on /\ z.known = p.known /\ z.complete = p.complete
      /\ z.todo = left
  BY <1>1, <1>2 DEF IsCall
<1>4. QED BY <1>3 DEF z, left, Continues

LEMMA MoveTells ==
  ASSUME NEW p, IsCall(p), NEW S, NEW K, Following(p.todo, p.on, K), K[Len(p.todo) + 1].told,
         NEW n, n \in 0 .. Len(p.todo) - 1, Asserts(p.complete, S[p.on], K[n + 2])
  PROVE  Comes(Proceed(p, n), S)
<1>1. PICK z : z = Proceed(p, n)
  OBVIOUS
<1>2. PICK q : q = p.todo
  OBVIOUS
<1>3. Len(q) \in Nat /\ Following(q, p.on, K) /\ K[Len(q) + 1].told /\ n \in 0 .. Len(q) - 1
  BY <1>2, SeqFacts DEF Following
<1>4. PICK m : m = n + 2
  OBVIOUS
<1>5. m \in 1 .. Len(q) + 1
  BY <1>3, <1>4
<1>6. PICK s : s = SubSeq(q, m, Len(q))
  OBVIOUS
<1>7. PICK G : Following(s, p.on, G) /\ G[1] = K[m] /\ G[Len(s) + 1] = K[Len(q) + 1]
  <2>1. \E G : /\ Following(SubSeq(q, m, Len(q)), p.on, G)
               /\ G[1] = K[m]
               /\ G[Len(SubSeq(q, m, Len(q))) + 1] = K[Len(q) + 1]
    BY <1>3, <1>5, FollowingSuffix
  <2>2. QED BY <2>1, <1>6
<1>8. PICK F : /\ Following(Left(s), p.on, F)
               /\ F[1] = G[1] \/ \E i : i.do = "unlock" /\ Less(F[1], Learns(i, G[1]))
               /\ F[Len(Left(s)) + 1] = G[Len(s) + 1]
  BY <1>7, FollowingLeft
<1>9. Asserts(p.complete, S[p.on], G[1])
  BY <1>4, <1>7
<1>10. Less(F[1], G[1])
  <2>1. CASE F[1] = G[1]
    BY <2>1, LessOrder
  <2>2. CASE \E i : i.do = "unlock" /\ Less(F[1], Learns(i, G[1]))
    <3>1. PICK i : i.do = "unlock" /\ Less(F[1], Learns(i, G[1]))
      BY <2>2
    <3>2. PICK k : k = G[1]
      OBVIOUS
    <3>3. LocksOrUnlocks(i)
      BY <3>1 DEF LocksOrUnlocks
    <3>4. Less(Learns(i, k), k)
      BY <3>3, LocksLearn
    <3>5. QED BY <3>1, <3>2, <3>4, LessOrder
  <2>3. QED BY <1>8, <2>1, <2>2
<1>11. Asserts(p.complete, S[p.on], F[1])
  BY <1>9, <1>10, AssertsLess
<1>12. Continues(p, z) /\ z.todo = Left(s)
  BY <1>1, <1>2, <1>4, <1>6, Continued
<1>13. Following(z.todo, z.on, F) /\ Asserts(z.complete, S[z.on], F[1]) /\ F[Len(z.todo) + 1].told
  BY <1>3, <1>7, <1>8, <1>11, <1>12 DEF Continues
<1>14. Comes(z, S)
  BY <1>13 DEF Comes
<1>15. QED BY <1>1, <1>14

(* The first instruction of a call that comes to its tensor.               *)
LEMMA FirstTends ==
  ASSUME NEW q, q # <<>>, NEW o, NEW K, Following(q, o, K), NEW i, i = Head(q)
  PROVE  /\ Tends(i, o)
         /\ i.skip \in 0 .. Len(q) - 1 /\ 0 \in 0 .. Len(q) - 1
         /\ Less(K[i.skip + 2], Learns(i, K[1]))
         /\ i.do \in {"has", "complete"} => Less(K[0 + 2], Misses(i, K[1]))
<1>1. Len(q) \in Nat
  BY SeqFacts DEF Following
<1>2. Len(q) # 0
  BY SmallSeqs, EmptySeq DEF Following, IsSeq
<1>3. i = q[1] /\ 1 \in 1 .. Len(q)
  BY <1>1, <1>2
<1>4. /\ Tends(q[1], o)
      /\ q[1].skip \in 0 .. Len(q) - 1
      /\ Less(K[1 + 1 + q[1].skip], Learns(q[1], K[1]))
      /\ q[1].do \in {"has", "complete"} => Less(K[1 + 1], Misses(q[1], K[1]))
  BY <1>3 DEF Following
<1>5. PICK n : n = i.skip
  OBVIOUS
<1>6. n \in Nat /\ 1 + 1 + n = n + 2 /\ 1 + 1 = 0 + 2
  <2>1. n \in 0 .. Len(q) - 1
    BY <1>3, <1>4, <1>5
  <2>2. QED BY <2>1, <1>1
<1>7. 0 \in 0 .. Len(q) - 1
  BY <1>1, <1>2
<1>8. Less(K[n + 2], Learns(i, K[1]))
  <2>1. Less(K[1 + 1 + n], Learns(i, K[1]))
    BY <1>3, <1>4, <1>5
  <2>2. QED BY <1>6, <2>1
<1>9. i.do \in {"has", "complete"} => Less(K[0 + 2], Misses(i, K[1]))
  BY <1>3, <1>4
<1>10. QED BY <1>3, <1>4, <1>5, <1>7, <1>8, <1>9

-----------------------------------------------------------------------------
(* Systems as a step leaves them.                                          *)
LEMMA NewSystemTensors ==
  ASSUME NEW kind, NEW source, NEW words
  PROVE  TensorsInv(NewSystem(kind, source, words))
  BY DEF NewSystem, TensorsInv

LEMMA AppendSteadily ==
  ASSUME NEW S, NEW n \in Nat, SystemsInv(S, n), \A o \in DOMAIN S : TensorsInv(S[o]),
         NEW x, TensorsInv(x)
  PROVE  Steadily(S, Append(S, x))
<1>1. IsSeq(S) /\ Len(S) = n /\ DOMAIN S = 1 .. n
  BY SeqFacts DEF SystemsInv
<1>2. PICK T : T = Append(S, x)
  OBVIOUS
<1>3. DOMAIN T = 1 .. n + 1 /\ T[n + 1] = x /\ \A o \in 1 .. n : T[o] = S[o]
  <2>1. S \in Seq({S[j] : j \in DOMAIN S} \cup {x})
    BY <1>1, SeqFacts
  <2> DEFINE E == {S[j] : j \in DOMAIN S} \cup {x}
  <2>2. S \in Seq(E) /\ x \in E
    BY <2>1
  <2> HIDE DEF E
  <2>3. /\ DOMAIN T = 1 .. Len(S) + 1 /\ T[Len(S) + 1] = x
        /\ \A o \in 1 .. Len(S) : T[o] = S[o]
    BY <1>2, <2>2, AppendProperties, LenProperties
  <2>4. QED BY <1>1, <2>3
<1>4. DOMAIN S \subseteq DOMAIN T
  BY <1>1, <1>3
<1>5. Steadily(S, S)
  BY SteadilySame
<1>6. ASSUME NEW o \in DOMAIN S
      PROVE  Steady(S[o], T[o])
  BY <1>1, <1>3, <1>5 DEF Steadily
<1>7. ASSUME NEW o \in DOMAIN T
      PROVE  TensorsInv(T[o])
  BY <1>1, <1>3
<1>8. QED BY <1>2, <1>4, <1>6, <1>7 DEF Steadily

(* An instruction that a call may do keeps all tensors.                    *)
LEMMA AfterSteadily ==
  ASSUME NEW p, NEW S, NEW n \in Nat, SystemsInv(S, n), CallInv(p, S), \A o \in DOMAIN S : TensorsInv(S[o]),
         NEW i, p.todo # <<>>, i = Head(p.todo),
         NEW T, Changed(S, i.on, After(i, S[i.on]), T)
  PROVE  /\ Steadily(S, T)
         /\ i.on \in DOMAIN S => T[i.on] = After(i, S[i.on]) /\ IsSystem(S[i.on])
<1>1. PICK H : Typing(p.todo, Cx(p, S), H) /\ Sat(p, S, H[1])
  BY DEF CallInv
<1>2. PICK h : h = H[1]
  OBVIOUS
<1>3. Permitted(i, Cx(p, S), h) /\ Sat(p, S, h)
  BY <1>1, <1>2, FirstFacts
<1>4. DOMAIN S = 1 .. n
  BY MoreFacts
<1>5. PICK x : x = After(i, S[i.on])
  OBVIOUS
<1>6. T = [S EXCEPT ![i.on] = x]
  BY <1>5 DEF Changed
<1>7. DOMAIN T = DOMAIN S /\ \A o \in DOMAIN S : T[o] = IF o = i.on THEN x ELSE S[o]
  BY <1>6
<1>8. ASSUME i.on \in DOMAIN S
      PROVE  Steady(S[i.on], x) /\ IsSystem(S[i.on])
  <2>1. Suitable(i, S[i.on])
    BY <1>3, <1>8, SuitableFacts
  <2>2. i.do \in {"make", "fill"} => i.key[1] \in TensorNames
    BY <2>1 DEF Suitable, TensorNames
  <2>3. IsSystem(S[i.on])
    BY <1>4, <1>8 DEF SystemsInv, SystemInv
  <2>4. PICK y : y = S[i.on]
    OBVIOUS
  <2>5. IsSystem(y) /\ TensorsInv(y)
    BY <1>8, <2>3, <2>4
  <2>6. Steady(y, After(i, y))
    BY <2>2, <2>5, AfterSteady
  <2>7. QED BY <1>5, <2>3, <2>4, <2>6
<1>9. Steadily(S, S)
  BY SteadilySame
<1>10. ASSUME NEW o \in DOMAIN S
       PROVE  Steady(S[o], T[o])
  BY <1>7, <1>8, <1>9 DEF Steadily
<1>11. Steadily(S, T)
  BY <1>7, <1>10 DEF Steadily, Steady
<1>12. QED BY <1>5, <1>7, <1>8, <1>11

-----------------------------------------------------------------------------
(* What a call that asks for a tensor does next.                           *)
LEMMA LockTells ==
  ASSUME NEW p, IsCall(p), NEW S, CallTells(p, S), p.todo # <<>>, NEW i, i = Head(p.todo),
         i.do \in {"read lock", "write lock"},
         NEW z, IsCall(z), z.todo = p.todo, Continues(p, z)
  PROVE  CallTells(Proceed(z, i.skip), S)
<1>1. PICK y : y = Proceed(z, i.skip)
  OBVIOUS
<1>2. Continues(z, y)
  BY <1>1, Continued
<1>3. SUFFICES ASSUME Asks(y) PROVE CallTells(y, S)
  BY <1>1 DEF CallTells
<1>4. Asks(p)
  BY <1>2, <1>3 DEF Asks, Continues
<1>5. p.on \in DOMAIN S /\ TensorWords \subseteq S[p.on].known /\ Comes(p, S)
  BY <1>4 DEF CallTells
<1>6. PICK K : /\ Following(p.todo, p.on, K)
               /\ Asserts(p.complete, S[p.on], K[1])
               /\ K[Len(p.todo) + 1].told
  BY <1>5 DEF Comes
<1>7. i.skip \in 0 .. Len(p.todo) - 1 /\ Less(K[i.skip + 2], Learns(i, K[1]))
  BY <1>6, FirstTends
<1>8. PICK k : k = K[1]
  OBVIOUS
<1>9. LocksOrUnlocks(i)
  BY DEF LocksOrUnlocks
<1>10. Less(Learns(i, k), k)
  BY <1>9, LocksLearn
<1>11. Less(K[i.skip + 2], k)
  BY <1>7, <1>8, <1>10, LessOrder
<1>12. Asserts(p.complete, S[p.on], K[i.skip + 2])
  BY <1>6, <1>8, <1>11, AssertsLess
<1>13. PICK n : n = i.skip
  OBVIOUS
<1>14. /\ Following(z.todo, z.on, K) /\ K[Len(z.todo) + 1].told
       /\ n \in 0 .. Len(z.todo) - 1 /\ Asserts(z.complete, S[z.on], K[n + 2])
  BY <1>6, <1>7, <1>12, <1>13 DEF Continues
<1>15. Comes(Proceed(z, n), S)
  BY <1>14, MoveTells
<1>16. Comes(y, S) /\ y.on = p.on
  BY <1>1, <1>2, <1>13, <1>15 DEF Continues
<1>17. QED BY <1>5, <1>16 DEF CallTells

LEMMA DoTells ==
  ASSUME NEW p, IsCall(p), NEW S, CallTells(p, S), p.todo # <<>>, NEW i, i = Head(p.todo),
         NEW T, Steadily(S, T), \A o \in DOMAIN S : TensorsInv(S[o]),
         i.on \in DOMAIN S => T[i.on] = After(i, S[i.on]) /\ IsSystem(S[i.on]),
         NEW z, IsCall(z), z.todo = p.todo, z.r = p.r, z.on = p.on, z.known = p.known,
         z.complete = (i.do = "need tensor" /\ i.key[1] \in S[i.on].complete),
         NEW n, n = IF Holds(i, S[i.on]) THEN i.skip ELSE 0
  PROVE  CallTells(Proceed(z, n), T)
<1>1. PICK y : y = Proceed(z, n)
  OBVIOUS
<1>2. Continues(z, y)
  BY <1>1, Continued
<1>3. SUFFICES ASSUME Asks(y) PROVE CallTells(y, T)
  BY <1>1 DEF CallTells
<1>4. Asks(p)
  BY <1>2, <1>3 DEF Asks, Continues
<1>5. p.on \in DOMAIN S /\ TensorWords \subseteq S[p.on].known /\ Comes(p, S)
  BY <1>4 DEF CallTells
<1>6. PICK K : /\ Following(p.todo, p.on, K)
               /\ Asserts(p.complete, S[p.on], K[1])
               /\ K[Len(p.todo) + 1].told
  BY <1>5 DEF Comes
<1>7. /\ Tends(i, p.on)
      /\ i.skip \in 0 .. Len(p.todo) - 1 /\ 0 \in 0 .. Len(p.todo) - 1
      /\ Less(K[i.skip + 2], Learns(i, K[1]))
      /\ i.do \in {"has", "complete"} => Less(K[0 + 2], Misses(i, K[1]))
  BY <1>6, FirstTends
<1>8. i.on = p.on
  BY <1>7 DEF Tends
<1>9. PICK x : x = S[p.on]
  OBVIOUS
<1>10. PICK k : k = K[1]
  OBVIOUS
<1>11. PICK o : o = p.on
  OBVIOUS
<1>12. /\ IsSystem(x) /\ TensorsInv(x) /\ TensorWords \subseteq x.known /\ T[p.on] = After(i, x)
       /\ Tends(i, o) /\ KnowsOf(x, k)
       /\ z.complete = (i.do = "need tensor" /\ i.key[1] \in x.complete)
  BY <1>5, <1>6, <1>7, <1>8, <1>9, <1>10, <1>11 DEF Asserts
<1>13. n \in 0 .. Len(p.todo) - 1 /\ Asserts(z.complete, T[p.on], K[n + 2])
  <2>1. CASE Holds(i, x)
    <3>1. Asserts(i.do = "need tensor" /\ i.key[1] \in x.complete, After(i, x), Learns(i, k))
      BY <1>12, <2>1, LearnsTrue
    <3>2. Asserts(z.complete, T[p.on], Learns(i, k))
      BY <1>12, <3>1
    <3>3. n = i.skip
      BY <1>8, <1>9, <2>1
    <3>4. Less(K[n + 2], Learns(i, k))
      BY <1>7, <1>10, <3>3
    <3>5. Asserts(z.complete, T[p.on], K[n + 2])
      BY <3>2, <3>4, AssertsLess
    <3>6. QED BY <1>7, <3>3, <3>5
  <2>2. CASE ~Holds(i, x)
    <3>1. /\ i.do \in {"has", "complete"} /\ After(i, x) = x
          /\ Asserts(z.complete, x, Misses(i, k))
      BY <1>12, <2>2, MissesTrue
    <3>2. n = 0
      BY <1>8, <1>9, <2>2
    <3>3. Less(K[n + 2], Misses(i, k))
      BY <1>7, <1>10, <3>1, <3>2
    <3>4. Asserts(z.complete, T[p.on], Misses(i, k))
      BY <1>12, <3>1
    <3>5. Asserts(z.complete, T[p.on], K[n + 2])
      BY <3>3, <3>4, AssertsLess
    <3>6. QED BY <1>7, <3>2, <3>5
  <2>3. QED BY <2>1, <2>2
<1>14. /\ Following(z.todo, z.on, K) /\ K[Len(z.todo) + 1].told
       /\ n \in 0 .. Len(z.todo) - 1 /\ Asserts(z.complete, T[z.on], K[n + 2])
  BY <1>6, <1>13
<1>15. Comes(y, T)
  BY <1>1, <1>14, MoveTells
<1>16. /\ y.on = p.on /\ y.on \in DOMAIN T
       /\ TensorWords \subseteq T[p.on].known
  BY <1>2, <1>5 DEF Continues, Steadily, Steady
<1>17. QED BY <1>15, <1>16 DEF CallTells

-----------------------------------------------------------------------------
(* A call that begins knows nothing, and its program leads to its tensor.  *)
LEMMA BeginTells ==
  ASSUME NEW r, KeySuits(r), NEW given, NEW o, NEW b, NEW kind, NEW S, o \in DOMAIN S,
         NEW p, p.r = r, p.on = o, p.known = S[o].known, p.complete = FALSE,
         p.todo = Program(r, given, o, b, kind)
  PROVE  CallTells(p, S)
<1> SUFFICES ASSUME Asks(p) PROVE CallTells(p, S)
  BY DEF CallTells
<1>1. r.fn \in {"collins_gisin", "full_correlator", "probability_table", "make_explicit"}
  BY DEF Asks, KeySuits
<1>2. r.fn = "full_correlator" => r.n = 0
  BY DEF Asks
<1>3. Leads(p.todo, o, Unknown, Satisfied)
  <2>1. CASE r.fn = "collins_gisin"
    <3>1. p.todo = CollinsGisin(o)
      BY <2>1 DEF Program
    <3>2. Leads(CollinsGisin(o), o, Unknown, Satisfied)
      BY LeadsToAnswer
    <3>3. QED BY <3>1, <3>2
  <2>2. CASE r.fn = "full_correlator"
    <3>1. p.todo = FullCorrelator(r, o)
      BY <2>2 DEF Program
    <3>2. Leads(FullCorrelator(r, o), o, Unknown, Satisfied)
      BY <1>2, <2>2, LeadsToAnswer
    <3>3. QED BY <3>1, <3>2
  <2>3. CASE r.fn = "probability_table"
    <3>1. p.todo = ProbabilityTable(o)
      BY <2>3 DEF Program
    <3>2. Leads(ProbabilityTable(o), o, Unknown, Satisfied)
      BY LeadsToAnswer
    <3>3. QED BY <3>1, <3>2
  <2>4. CASE r.fn = "make_explicit"
    <3>1. p.todo = MakeExplicit(o)
      BY <2>4 DEF Program
    <3>2. Leads(MakeExplicit(o), o, Unknown, Satisfied)
      BY LeadsToAnswer
    <3>3. QED BY <3>1, <3>2
  <2>5. QED BY <1>1, <2>1, <2>2, <2>3, <2>4
<1>4. PICK K : Following(p.todo, o, K) /\ Less(K[1], Unknown) /\ Less(Satisfied, K[Len(p.todo) + 1])
  BY <1>3 DEF Leads
<1>5. PICK x : x = S[o]
  OBVIOUS
<1>6. Asserts(p.complete, x, Unknown)
  BY DEF Asserts, KnowsOf, Unknown, Lore
<1>7. Asserts(p.complete, S[o], K[1])
  BY <1>4, <1>5, <1>6, AssertsLess
<1>8. K[Len(p.todo) + 1].told
  BY <1>4 DEF Less, Satisfied, Lore
<1>9. Comes(p, S)
  BY <1>4, <1>7, <1>8 DEF Comes
<1>10. TensorWords \subseteq S[p.on].known
  BY DEF Asks
<1>11. QED BY <1>9, <1>10 DEF CallTells

LEMMA NoTensorAsked ==
  ASSUME NEW p, p.known = {}
  PROVE  ~Asks(p)
<1>1. 0 \in TensorWords
  BY DEF TensorWords
<1>2. QED BY <1>1 DEF Asks

-----------------------------------------------------------------------------
LEMMA TensorsBefore ==
  ASSUME SessionInv, TensorState
  PROVE  /\ \A o \in DOMAIN system : TensorsInv(system[o])
         /\ SystemsInv(system, stored) /\ stored \in Nat
         /\ Steadily(system, system)
         /\ DOMAIN call = Walkers
         /\ \A c \in Walkers : IsCall(call[c]) /\ CallInv(call[c], system) /\ CallTells(call[c], system)
  BY SteadilySame DEF TensorState, SessionInv, LockInv, StorageInv, StorageType

(* A step of one client, that leaves the systems as they are.              *)
LEMMA ClientTells ==
  ASSUME SessionInv, TensorState, system' = system,
         NEW c \in Walkers, NEW p, call' = [call EXCEPT ![c] = p], CallTells(p, system)
  PROVE  TensorState'
<1>1. Steadily(system, system') /\ DOMAIN call = Walkers
  BY TensorsBefore
<1>2. \A d \in Walkers : call'[d] = call[d] \/ CallTells(call'[d], system')
  BY <1>1
<1>3. QED BY <1>1, <1>2, TellSteps

LEMMA LockStepTells ==
  ASSUME SessionInv, TensorState, NEW c \in Walkers, TakeReadLock(c) \/ TakeWriteLock(c)
  PROVE  TensorState'
<1>1. PICK p : p = call[c]
  OBVIOUS
<1>2. PICK i : i = Head(p.todo)
  OBVIOUS
<1>3. p.todo # <<>> /\ i.do \in {"read lock", "write lock"} /\ system' = system
  BY <1>1, <1>2 DEF TakeReadLock, TakeWriteLock, At, Running, Next1
<1>4. IsCall(p) /\ CallTells(p, system)
  BY <1>1, TensorsBefore
<1>5. PICK z \in {ReadLocked(p, i.on), WriteLocked(p, i.on)} : call' = [call EXCEPT ![c] = Proceed(z, i.skip)]
  <2>1. \/ call' = [call EXCEPT ![c] = Proceed(ReadLocked(p, i.on), i.skip)]
        \/ call' = [call EXCEPT ![c] = Proceed(WriteLocked(p, i.on), i.skip)]
    BY <1>1, <1>2 DEF TakeReadLock, TakeWriteLock, Next1
  <2>2. QED BY <2>1
<1>6. IsCall(z) /\ z.todo = p.todo /\ Continues(p, z)
  <2>1. {"todo", "read", "write", "answer", "r", "on", "known", "complete"} \subseteq CallFields
    BY DEF CallFields, Idle
  <2>2. QED BY <1>4, <2>1 DEF ReadLocked, WriteLocked, IsCall, Continues
<1>7. CallTells(Proceed(z, i.skip), system)
  BY <1>2, <1>3, <1>4, <1>6, LockTells
<1>8. PICK y : y = Proceed(z, i.skip)
  OBVIOUS
<1>9. QED BY <1>3, <1>5, <1>7, <1>8, ClientTells

LEMMA EndStepTells ==
  ASSUME SessionInv, TensorState, NEW c \in Walkers, Throw(c) \/ \E r \in scenario.requests : Refuse(c, r)
  PROVE  TensorState'
<1>1. system' = system
  BY DEF Throw, Refuse
<1>2. PICK p \in {Idle, Return(call[c])} : call' = [call EXCEPT ![c] = p]
  BY DEF Throw, Refuse
<1>3. CallTells(Idle, system)
  <2>1. Idle.known = {}
    BY DEF Idle
  <2>2. QED BY <2>1, NoTensorAsked DEF CallTells
<1>4. CallTells(Return(call[c]), system)
  <2>1. PICK p0 : p0 = call[c]
    OBVIOUS
  <2>2. IsCall(p0) /\ CallTells(p0, system)
    BY <2>1, TensorsBefore
  <2>3. PICK z : z = Return(p0)
    OBVIOUS
  <2>4. z.r = p0.r /\ z.on = p0.on /\ z.known = p0.known /\ z.todo = <<>> /\ z.answer = -1
    <3>1. {"todo", "read", "write", "answer", "r", "on", "known"} \subseteq CallFields
      BY DEF CallFields, Idle
    <3>2. QED BY <2>2, <2>3, <3>1 DEF Return, IsCall
  <2>5. CallTells(z, system)
    BY <2>2, <2>4 DEF CallTells, Asks
  <2>6. QED BY <2>1, <2>3, <2>5
<1>5. CallTells(p, system)
  BY <1>2, <1>3, <1>4
<1>6. QED BY <1>1, <1>2, <1>5, ClientTells

LEMMA DoStepTells ==
  ASSUME SessionInv, TensorState, NEW c \in Walkers, Do(c)
  PROVE  TensorState'
<1>1. PICK p : p = call[c]
  OBVIOUS
<1>2. PICK i : i = Head(p.todo)
  OBVIOUS
<1>3. PICK T : T = system'
  OBVIOUS
<1>4. PICK z : z = Answered(p, i, system[i.on], T[i.on])
  OBVIOUS
<1>5. PICK n : n = IF Holds(i, system[i.on]) THEN i.skip ELSE 0
  OBVIOUS
<1>6. /\ p.todo # <<>>
      /\ Changed(system, i.on, After(i, system[i.on]), T)
      /\ call' = [call EXCEPT ![c] = Proceed(z, n)]
  BY <1>1, <1>2, <1>3, <1>4, <1>5 DEF Do, Works, Running, Next1, Changed
<1>7. /\ IsCall(p) /\ CallTells(p, system) /\ CallInv(p, system) /\ DOMAIN call = Walkers
      /\ SystemsInv(system, stored) /\ stored \in Nat /\ \A o \in DOMAIN system : TensorsInv(system[o])
  BY <1>1, TensorsBefore
<1>8. /\ Steadily(system, T)
      /\ i.on \in DOMAIN system => T[i.on] = After(i, system[i.on]) /\ IsSystem(system[i.on])
  BY <1>2, <1>6, <1>7, AfterSteadily
<1>9. /\ IsCall(z) /\ z.todo = p.todo /\ z.r = p.r /\ z.on = p.on /\ z.known = p.known
      /\ z.complete = (i.do = "need tensor" /\ i.key[1] \in system[i.on].complete)
  <2>1. {"todo", "read", "write", "answer", "r", "on", "known", "complete"} \subseteq CallFields
    BY DEF CallFields, Idle
  <2> HIDE DEF CallFields
  <2>2. QED BY <1>4, <1>7, <2>1 DEF Answered, IsCall
<1>10. CallTells(Proceed(z, n), T)
  BY <1>2, <1>5, <1>6, <1>7, <1>8, <1>9, DoTells
<1>11. \A d \in Walkers : call'[d] = call[d] \/ CallTells(call'[d], system')
  BY <1>3, <1>6, <1>7, <1>10
<1>12. QED BY <1>3, <1>8, <1>11, TellSteps

LEMMA StoreStepTells ==
  ASSUME SessionInv, TensorState, NEW c \in Walkers, StoreSymmetrized(c)
  PROVE  TensorState'
<1>1. PICK p : p = call[c]
  OBVIOUS
<1>2. PICK i : i = Head(p.todo)
  OBVIOUS
<1>3. p.todo # <<>> /\ i.do = "store"
  BY <1>1, <1>2 DEF StoreSymmetrized, At, Running, Next1
<1>4. /\ IsCall(p) /\ CallTells(p, system) /\ DOMAIN call = Walkers /\ Steadily(system, system)
      /\ SystemsInv(system, stored) /\ stored \in Nat /\ \A o \in DOMAIN system : TensorsInv(system[o])
  BY <1>1, TensorsBefore
<1>5. ~Asks(p)
  <2> SUFFICES ASSUME Asks(p) PROVE FALSE
    OBVIOUS
  <2>1. Comes(p, system)
    BY <1>3, <1>4 DEF CallTells
  <2>2. PICK K : Following(p.todo, p.on, K)
    BY <2>1 DEF Comes
  <2>3. Tends(i, p.on)
    BY <1>2, <1>3, <2>2, FirstTends
  <2>4. QED BY <1>3, <2>3 DEF Tends, TensorWork
<1>6. \A S : CallTells(Proceed(p, 0), S) /\ CallTells(Return(p), S)
  <2>1. PICK z : z = Proceed(p, 0)
    OBVIOUS
  <2>2. Continues(p, z)
    BY <1>4, <2>1, Continued
  <2>3. PICK y : y = Return(p)
    OBVIOUS
  <2>4. y.r = p.r /\ y.known = p.known
    <3>1. {"todo", "read", "write", "answer", "r", "on", "known"} \subseteq CallFields
      BY DEF CallFields, Idle
    <3>2. QED BY <1>4, <2>3, <3>1 DEF Return, IsCall
  <2>5. ~Asks(z) /\ ~Asks(y)
    BY <1>5, <2>2, <2>4 DEF Asks, Continues
  <2>6. QED BY <2>1, <2>3, <2>5 DEF CallTells
<1>7. PICK y \in {Proceed(p, 0), Return(p)} : call' = [call EXCEPT ![c] = y]
  BY <1>1 DEF StoreSymmetrized
<1>8. Steadily(system, system')
  <2>1. CASE system' = system
    BY <1>4, <2>1
  <2>2. ASSUME NEW x, TensorsInv(x), system' = Append(system, x)
        PROVE  Steadily(system, system')
    BY <1>4, <2>2, AppendSteadily
  <2>3. PICK reach : \/ system' = Append(system, NewSystem("symmetrized", Next1(c).on, 0 .. reach))
                     \/ system' = system
    BY DEF StoreSymmetrized
  <2>4. QED BY <2>1, <2>2, <2>3, NewSystemTensors
<1>9. \A d \in Walkers : call'[d] = call[d] \/ CallTells(call'[d], system')
  BY <1>4, <1>6, <1>7
<1>10. QED BY <1>8, <1>9, TellSteps

LEMMA BeginStepTells ==
  ASSUME SessionInv, TensorState, NEW c \in Walkers, NEW r \in scenario.requests, Begin(c, r)
  PROVE  TensorState'
<1> DEFINE o == ObjectAt(r.at)  b == system[o].source  kind == system[o].kind
           todo == Program(r, Given(r), o, b, kind)
           p == [Idle EXCEPT !.r = r, !.on = o, !.known = system[o].known, !.todo = todo]
<1>1. o # NoObject /\ KeySuits(r)
  <2>1. scenario \in Scenarios
    BY DEF SessionInv
  <2>2. KeySuits(r)
    BY <2>1, ScenariosAssumption
  <2>3. QED BY <2>2 DEF Begin, Suits
<1>2. call' = [call EXCEPT ![c] = p] /\ system' = system
  BY DEF Begin
<1>3. o \in DOMAIN system
  BY <1>1, Found
<1> HIDE DEF o, b, kind, todo
<1>4. p.r = r /\ p.on = o /\ p.known = system[o].known /\ p.complete = FALSE /\ p.todo = todo
  BY DEF Idle
<1> HIDE DEF p
<1>5. todo = Program(r, Given(r), o, b, kind)
  BY DEF todo
<1>6. CallTells(p, system)
  BY <1>1, <1>3, <1>4, <1>5, BeginTells
<1>7. QED BY <1>2, <1>6, ClientTells

LEMMA ListStepTells ==
  ASSUME SessionInv, TensorState, NEW c \in Walkers, ListNext(c) \/ \E r \in scenario.requests : BeginList(c, r)
  PROVE  TensorState'
<1>1. PICK at : at = walk'[c].at
  OBVIOUS
<1>2. PICK p : p = VisitAt(c, at)
  OBVIOUS
<1>3. call' = [call EXCEPT ![c] = p] /\ system' = system
  BY <1>1, <1>2 DEF ListNext, BeginList
<1>4. p.known = {}
  <2> DEFINE o == ObjectAt(at)  q == Reading(o, Look(o))
  <2>1. p = Idle \/ p = [Idle EXCEPT !.r.fn = "list", !.todo = q]
    BY <1>2 DEF VisitAt
  <2> HIDE DEF o, q
  <2>2. CASE p = Idle
    BY <2>2 DEF Idle
  <2>3. CASE p = [Idle EXCEPT !.r.fn = "list", !.todo = q]
    BY <2>3 DEF Idle
  <2>4. QED BY <2>1, <2>2, <2>3
<1>5. CallTells(p, system)
  BY <1>4, NoTensorAsked DEF CallTells
<1>6. QED BY <1>3, <1>5, ClientTells

LEMMA OtherStepsTell ==
  ASSUME SessionInv, TensorState,
         \/ \E c \in Walkers : EndList(c) \/ \E r \in scenario.requests : ReleaseSystem(c, r) \/ CreateSystem(c, r)
         \/ ClearMtk \/ Stop \/ UNCHANGED <<vars, sessionVars>>
  PROVE  TensorState'
<1>1. call' = call
  BY DEF EndList, ReleaseSystem, CreateSystem, ClearMtk, Stop, sessionVars
<1>2. Steadily(system, system')
  <2>1. CASE system' = system
    BY <2>1, TensorsBefore
  <2>2. CASE \E c \in Walkers : \E r \in scenario.requests : CreateSystem(c, r)
    <3>1. PICK x : TensorsInv(x) /\ system' = Append(system, x)
      BY <2>2, NewSystemTensors DEF CreateSystem
    <3>2. QED BY <3>1, TensorsBefore, AppendSteadily
  <2>3. QED BY <2>1, <2>2 DEF EndList, ReleaseSystem, ClearMtk, Stop, sessionVars
<1>3. QED BY <1>1, <1>2, TellSteps

-----------------------------------------------------------------------------
LEMMA TensorsStart ==
  ASSUME SessionInit
  PROVE  TensorState
<1>1. call = [c \in Walkers |-> Idle]
  BY DEF SessionInit
<1>2. \A o \in DOMAIN system : TensorsInv(system[o])
  BY NewSystemTensors DEF SessionInit
<1>3. CallTells(Idle, system)
  <2>1. Idle.known = {}
    BY DEF Idle
  <2>2. QED BY <2>1, NoTensorAsked DEF CallTells
<1>4. QED BY <1>1, <1>2, <1>3 DEF TensorState

LEMMA TensorSteps ==
  ASSUME SessionInv, TensorState, [SessionNext]_<<vars, sessionVars>>
  PROVE  TensorState'
<1>1. ASSUME NEW c \in Walkers, Step(c)
      PROVE  TensorState'
  BY <1>1, LockStepTells, EndStepTells, DoStepTells, StoreStepTells, ListStepTells, OtherStepsTell DEF Step
<1>2. ASSUME NEW c \in Walkers, NEW r \in scenario.requests, Call(c, r)
      PROVE  TensorState'
  BY <1>2, EndStepTells, BeginStepTells, ListStepTells, OtherStepsTell DEF Call
<1>3. CASE ClearMtk \/ Stop \/ UNCHANGED <<vars, sessionVars>>
  BY <1>3, OtherStepsTell
<1>4. QED BY <1>1, <1>2, <1>3 DEF SessionNext

(* A call that begins when all words that tensors are about have symbols   *)
(* returns a tensor with all of its symbols, however early the tensor was  *)
(* made and whatever others do meanwhile, unless the Collins-Gisin tensor  *)
(* has been replaced (maintains_tensors.cpp).                              *)
THEOREM TensorsCatchUp == SessionSpec => []TensorsAreFresh
<1>1. SessionInit => TensorState
  BY TensorsStart
<1>2. SessionInv /\ TensorState /\ [SessionNext]_<<vars, sessionVars>> => TensorState'
  BY TensorSteps
<1>3. TensorState => TensorsAreFresh
  <2> SUFFICES ASSUME TensorState,
                      NEW c \in Walkers, ~Running(c), call[c].answer = 0, call[c].r.key = <<"tensor">>,
                      ~(call[c].r.fn = "full_correlator" /\ call[c].r.n # 0),
                      TensorWords \subseteq call[c].known, system[call[c].on].cg = 1
               PROVE  call[c].complete
    BY DEF TensorsAreFresh
  <2>1. PICK p : p = call[c]
    OBVIOUS
  <2>2. Asks(p) /\ CallTells(p, system) /\ p.todo = <<>> /\ p.answer = 0
    BY <2>1 DEF Asks, TensorState, Running
  <2>3. Comes(p, system)
    <3>1. p.answer # -1
      BY <2>2
    <3>2. QED BY <2>2, <3>1 DEF CallTells
  <2>4. PICK K : Asserts(p.complete, system[p.on], K[1]) /\ K[Len(p.todo) + 1].told
    BY <2>3 DEF Comes
  <2>5. Len(p.todo) + 1 = 1
    BY <2>2, SmallSeqs
  <2>6. Told(p.complete, system[p.on])
    BY <2>4, <2>5 DEF Asserts
  <2>7. QED BY <2>1, <2>6 DEF Told
<1>4. QED BY <1>1, <1>2, <1>3, SessionInvariant, PTL DEF SessionSpec
=============================================================================
