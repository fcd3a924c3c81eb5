---------------------------- MODULE InputsProofs ----------------------------
(***************************************************************************)
(* What is accepted of what users type and authenticators send, whatever   *)
(* it is and however long.                                                 *)
(*                                                                         *)
(* Addresses (Patterns): by induction on their length, splitting at "at"   *)
(* yields two parts exactly when there is one "at", and they are what is   *)
(* before and after it.                                                    *)
(*                                                                         *)
(* Authenticator data (WebAuthn): keys that are stored stay usable, since  *)
(* the rules for a key look only at the bytes that the key is found to     *)
(* have, so they say the same of the key alone.  Encoding and reading undo *)
(* each other: what is accepted is the encoding of what was read, because  *)
(* the parts that are read meet, and what was encoded is read as it was,   *)
(* because each part is found where those before it end.                   *)
(***************************************************************************)
EXTENDS Patterns, WebAuthn, SequenceTheorems, WellFoundedInduction, TLAPS

-----------------------------------------------------------------------------
(* Addresses. *)

\* p[i] are the parts of the first i characters.
Splits(email, separator, n, p) ==
  p = [i \in 0..n |-> IF i = 0 THEN <<(<<>>)>>
                      ELSE WithCharacter(p[i - 1], email[i], separator)]

\* A set of natural numbers has a least one.
LEMMA Least ==
  ASSUME NEW S \in SUBSET Nat, S # {}
  PROVE  \E m \in S : \A n \in S : m <= n
<1>1. IsWellFoundedOn(OpToRel(<, Nat), Nat)
  BY NatLessThanWellFounded
<1>2. PICK m \in S : \A n \in S : <<n, m>> \notin OpToRel(<, Nat)
  BY <1>1, WFMin
<1>3. \A n \in S : ~(n < m)
  BY <1>2 DEF OpToRel
<1> QED
  BY <1>3

\* The characters up to a position can be taken one after the other.
LEMMA SplitExists ==
  ASSUME NEW email, NEW separator, NEW n \in Nat
  PROVE  \E p : Splits(email, separator, n, p)
<1> DEFINE D == {m \in Nat : ~\E p : Splits(email, separator, m, p)}
<1> SUFFICES ASSUME D # {} PROVE FALSE
  OBVIOUS
<1>1. PICK m \in D : \A j \in D : m <= j
  <2> HIDE DEF D
  <2>1. D \in SUBSET Nat
    BY DEF D
  <2> QED
    BY <2>1, Least
<1>2. m \in Nat /\ ~\E p : Splits(email, separator, m, p)
  OBVIOUS
<1>3. CASE m = 0
  <2> DEFINE p == [i \in 0..0 |-> <<(<<>>)>>]
  <2>1. p = [i \in 0..0 |-> IF i = 0 THEN <<(<<>>)>>
                      ELSE WithCharacter(p[i - 1], email[i], separator)]
    <3>1. \A i \in 0..0 : i = 0
      OBVIOUS
    <3> QED
      BY <3>1, Zenon
  <2>2. Splits(email, separator, m, p)
    <3> HIDE DEF p
    <3> QED
      BY <1>3, <2>1 DEF Splits
  <2> QED
    BY <1>2, <2>2
<1>4. CASE m # 0
  <2>1. m - 1 \in Nat /\ m - 1 \notin D
    BY <1>1, <1>2, <1>4
  <2>2. PICK q : Splits(email, separator, m - 1, q)
    BY <2>1
  <2> DEFINE g(i) == IF i = 0 THEN <<(<<>>)>>
                     ELSE WithCharacter(q[i - 1], email[i], separator)
             p == [i \in 0..m |-> g(i)]
  <2>3. \A i \in 0..(m - 1) : q[i] = g(i)
    <3>1. q = [i \in 0..(m - 1) |-> g(i)]
      BY <2>2 DEF Splits
    <3> HIDE DEF g
    <3> QED
      BY <3>1
  <2>4. \A i \in 0..m : i # 0 => p[i - 1] = q[i - 1]
    <3> SUFFICES ASSUME NEW i \in 0..m, i # 0 PROVE p[i - 1] = q[i - 1]
      OBVIOUS
    <3>1. i - 1 \in 0..(m - 1) /\ i - 1 \in 0..m
      BY <1>2
    <3> HIDE DEF g
    <3> QED
      BY <2>3, <3>1
  <2>5. \A i \in 0..m : g(i) = IF i = 0 THEN <<(<<>>)>>
                     ELSE WithCharacter(p[i - 1], email[i], separator)
    <3> HIDE DEF p
    <3> QED
      BY <2>4, Zenon
  <2>6. p = [i \in 0..m |-> IF i = 0 THEN <<(<<>>)>>
                     ELSE WithCharacter(p[i - 1], email[i], separator)]
    <3> HIDE DEF g
    <3> QED
      BY <2>5, Zenon
  <2>7. Splits(email, separator, m, p)
    <3> HIDE DEF p
    <3> QED
      BY <2>6 DEF Splits
  <2> QED
    BY <1>2, <2>7
<1> QED
  BY <1>3, <1>4

\* Split is what these steps come to.
LEMMA SplitIs ==
  ASSUME NEW email, NEW separator, Len(email) \in Nat
  PROVE  \E p : /\ Splits(email, separator, Len(email), p)
                /\ Split(email, separator) = p[Len(email)]
<1>1. PICK p : Splits(email, separator, Len(email), p)
  BY SplitExists
<1> QED
  BY <1>1, Zenon DEF Split, Splits

\* One character more.
LEMMA SubSeqAppended ==
  ASSUME NEW S, NEW s \in Seq(S), NEW a \in 1..Len(s), NEW i \in 0..Len(s) - 1,
         a <= i + 1
  PROVE  /\ SubSeq(s, a, i) \in Seq(S)
         /\ Append(SubSeq(s, a, i), s[i + 1]) = SubSeq(s, a, i + 1)
<1> DEFINE x == SubSeq(s, a, i)
           y == SubSeq(s, a, i + 1)
<1>1. Len(s) \in Nat /\ a \in Int /\ i \in Int /\ i + 1 \in Int
  OBVIOUS
<1>2. /\ \A h \in a..i : s[h] \in S
      /\ \A h \in a..(i + 1) : s[h] \in S
  BY <1>1
<1>3. /\ x \in Seq(S) /\ Len(x) = i + 1 - a
      /\ \A h \in 1..(i + 1 - a) : x[h] = s[a + h - 1]
  <2>1. i - a + 1 = i + 1 - a /\ (a <= i \/ i + 1 - a = 0)
    BY <1>1
  <2> QED
    BY <1>1, <1>2, <2>1, SubSeqProperties
<1>4. /\ y \in Seq(S) /\ Len(y) = i + 2 - a
      /\ \A h \in 1..(i + 2 - a) : y[h] = s[a + h - 1]
  <2>1. (i + 1) - a + 1 = i + 2 - a /\ a <= i + 1
    BY <1>1
  <2> QED
    BY <1>1, <1>2, <2>1, SubSeqProperties
<1> HIDE DEF x, y
<1> DEFINE z == Append(x, s[i + 1])
<1>5. s[i + 1] \in S
  BY <1>1
<1>6. /\ z \in Seq(S) /\ Len(z) = i + 2 - a
      /\ \A h \in 1..(i + 2 - a) : z[h] = IF h = i + 2 - a THEN s[i + 1] ELSE x[h]
  <2>1. /\ z \in Seq(S) /\ Len(z) = Len(x) + 1 /\ z[Len(x) + 1] = s[i + 1]
        /\ \A h \in 1..Len(x) : z[h] = x[h]
    BY <1>3, <1>5, AppendProperties
  <2> QED
    BY <1>1, <1>3, <2>1
<1>7. \A h \in 1..(i + 2 - a) : z[h] = y[h]
  <2> SUFFICES ASSUME NEW h \in 1..(i + 2 - a) PROVE z[h] = y[h]
    OBVIOUS
  <2>1. CASE h = i + 2 - a
    <3>1. a + h - 1 = i + 1
      BY <1>1, <2>1
    <3> QED
      BY <1>4, <1>6, <2>1, <3>1
  <2>2. CASE h # i + 2 - a
    <3>1. h \in 1..(i + 1 - a)
      BY <1>1, <2>2
    <3> QED
      BY <1>3, <1>4, <1>6, <2>2, <3>1
  <2> QED
    BY <2>1, <2>2
<1> HIDE DEF z
<1>8. z = y
  BY <1>1, <1>4, <1>6, <1>7
<1> QED
  BY <1>3, <1>8 DEF x, y, z

\* The "at" among the first i characters is at a, and there is no other.
OnlyAt(email, i, a) ==
  /\ a \in 1..i /\ email[a] = "at"
  /\ \A h \in 1..i : email[h] = "at" => h = a

\* What the parts of the first i characters are, when there are up to two.
Parted(email, i, parts) ==
  /\ parts \in Seq(Seq(Classes)) /\ Len(parts) >= 1
  /\ Len(parts) = 1 <=> \A h \in 1..i : email[h] # "at"
  /\ Len(parts) = 1 => parts[1] = SubSeq(email, 1, i)
  /\ Len(parts) = 2 <=> \E a \in 1..i : OnlyAt(email, i, a)
  /\ Len(parts) = 2 =>
       \E a \in 1..i : /\ OnlyAt(email, i, a)
                       /\ parts[1] = SubSeq(email, 1, a - 1)
                       /\ parts[2] = SubSeq(email, a + 1, i)

\* An "at" ends a part.
LEMMA PartedAtAt ==
  ASSUME NEW email \in Seq(Classes), NEW i \in 0..Len(email) - 1, NEW parts,
         Parted(email, i, parts), email[i + 1] = "at"
  PROVE  Parted(email, i + 1, WithCharacter(parts, email[i + 1], "at"))
<1> DEFINE more == Append(parts, <<>>)
<1>1. WithCharacter(parts, email[i + 1], "at") = more
  BY DEF WithCharacter
<1>2. /\ Len(email) \in Nat /\ i \in Nat /\ i + 1 \in 1..Len(email)
      /\ parts \in Seq(Seq(Classes)) /\ Len(parts) \in Nat /\ Len(parts) >= 1
  BY DEF Parted
<1>3. <<>> \in Seq(Classes)
  OBVIOUS
<1>4. /\ more \in Seq(Seq(Classes)) /\ Len(more) = Len(parts) + 1
      /\ more[Len(parts) + 1] = <<>>
      /\ \A h \in 1..Len(parts) : more[h] = parts[h]
  BY <1>2, <1>3, AppendProperties
<1> HIDE DEF more
<1>9. Len(more) \in Nat /\ Len(parts) \in Nat /\ Len(more) = Len(parts) + 1
  BY <1>2, <1>4
<1>10. Len(more) = 2 <=> Len(parts) = 1
  <2>1. \A a, b \in Nat : a = b + 1 => (a = 2 <=> b = 1)
    OBVIOUS
  <2> QED
    BY <1>9, <2>1, Zenon
<1>11. Len(more) # 1 /\ Len(more) >= 1
  BY <1>2, <1>9
<1>12. Len(parts) = 1 => more[1] = parts[1] /\ more[2] = <<>>
  <2>1. Len(parts) = 1 => 1 \in 1..Len(parts) /\ Len(parts) + 1 = 2
    OBVIOUS
  <2> QED
    BY <1>4, <2>1
<1>5. ~\A h \in 1..(i + 1) : email[h] # "at"
  BY <1>2
<1>6. ASSUME NEW a \in 1..(i + 1), OnlyAt(email, i + 1, a)
      PROVE  a = i + 1 /\ Len(parts) = 1
  <2>1. a = i + 1
    BY <1>2, <1>6 DEF OnlyAt
  <2>2. \A h \in 1..i : email[h] # "at"
    BY <1>2, <1>6, <2>1 DEF OnlyAt
  <2> QED
    BY <2>1, <2>2 DEF Parted
<1>7. ASSUME Len(more) = 2
      PROVE  /\ OnlyAt(email, i + 1, i + 1)
             /\ more[1] = SubSeq(email, 1, (i + 1) - 1)
             /\ more[2] = SubSeq(email, (i + 1) + 1, i + 1)
  <2>1. Len(parts) = 1
    BY <1>7, <1>10
  <2>2. \A h \in 1..i : email[h] # "at"
    BY <2>1 DEF Parted
  <2>3. OnlyAt(email, i + 1, i + 1)
    <3>1. \A h \in 1..(i + 1) : h \in 1..i \/ h = i + 1
      BY <1>2
    <3> QED
      BY <1>2, <2>2, <3>1 DEF OnlyAt
  <2>4. more[1] = SubSeq(email, 1, i) /\ (i + 1) - 1 = i
    BY <1>2, <1>12, <2>1 DEF Parted
  <2>5. SubSeq(email, (i + 1) + 1, i + 1) = <<>>
    BY <1>2, SubSeqEmpty
  <2> QED
    BY <1>12, <2>1, <2>3, <2>4, <2>5
<1>8. Parted(email, i + 1, more)
  <2>1. Len(more) # 1 /\ Len(more) >= 1
    BY <1>11
  <2>2. Len(more) = 2 <=> \E a \in 1..(i + 1) : OnlyAt(email, i + 1, a)
    <3>1. i + 1 \in 1..(i + 1)
      BY <1>2
    <3> QED
      BY <1>6, <1>7, <1>10, <3>1
  <2>3. i + 1 \in 1..(i + 1)
    BY <1>2
  <2> QED
    BY <1>4, <1>5, <1>7, <2>1, <2>2, <2>3 DEF Parted
<1> QED
  BY <1>1, <1>8

\* Any other character is added to the last part.
LEMMA PartedElse ==
  ASSUME NEW email \in Seq(Classes), NEW i \in 0..Len(email) - 1, NEW parts,
         Parted(email, i, parts), email[i + 1] # "at"
  PROVE  Parted(email, i + 1, WithCharacter(parts, email[i + 1], "at"))
<1> DEFINE n == Len(parts)
           last == Append(parts[n], email[i + 1])
           more == [parts EXCEPT ![n] = last]
<1>1. WithCharacter(parts, email[i + 1], "at") = more
  BY DEF WithCharacter
<1>2. /\ Len(email) \in Nat /\ i \in Nat /\ i + 1 \in 1..Len(email)
      /\ parts \in Seq(Seq(Classes)) /\ n \in Nat /\ n >= 1
  BY DEF Parted
<1>3. /\ parts[n] \in Seq(Classes) /\ email[i + 1] \in Classes
      /\ last \in Seq(Classes)
  BY <1>2
<1>4. /\ more \in Seq(Seq(Classes)) /\ Len(more) = n /\ more[n] = last
      /\ \A h \in 1..n : h # n => more[h] = parts[h]
  <2> HIDE DEF last
  <2> QED
    BY <1>2, <1>3, ExceptSeq
<1> HIDE DEF more
<1>5. \A h \in 1..(i + 1) : h \in 1..i \/ h = i + 1
  BY <1>2
<1>6. (\A h \in 1..(i + 1) : email[h] # "at") <=> \A h \in 1..i : email[h] # "at"
  BY <1>2, <1>5
<1>7. \A a \in 1..(i + 1) :
        OnlyAt(email, i + 1, a) <=> a \in 1..i /\ OnlyAt(email, i, a)
  BY <1>2, <1>5 DEF OnlyAt
<1>8. n = 1 => more[1] = SubSeq(email, 1, i + 1)
  <2> SUFFICES ASSUME n = 1 PROVE more[1] = SubSeq(email, 1, i + 1)
    OBVIOUS
  <2>1. parts[1] = SubSeq(email, 1, i)
    BY DEF Parted
  <2>2. 1 \in 1..Len(email) /\ 1 <= i + 1
    BY <1>2
  <2> QED
    BY <1>2, <1>4, <2>1, <2>2, SubSeqAppended
<1>9. ASSUME n = 2
      PROVE  \E a \in 1..(i + 1) : /\ OnlyAt(email, i + 1, a)
                                   /\ more[1] = SubSeq(email, 1, a - 1)
                                   /\ more[2] = SubSeq(email, a + 1, i + 1)
  <2>1. PICK a \in 1..i : /\ OnlyAt(email, i, a)
                          /\ parts[1] = SubSeq(email, 1, a - 1)
                          /\ parts[2] = SubSeq(email, a + 1, i)
    BY <1>9 DEF Parted
  <2>2. a \in 1..(i + 1) /\ a + 1 \in 1..Len(email) /\ a + 1 <= i + 1
    BY <1>2, <2>1
  <2>3. more[1] = parts[1] /\ more[2] = Append(parts[2], email[i + 1])
    BY <1>2, <1>4, <1>9
  <2>4. more[2] = SubSeq(email, a + 1, i + 1)
    BY <1>2, <2>1, <2>2, <2>3, SubSeqAppended
  <2> QED
    BY <1>7, <2>1, <2>2, <2>3, <2>4
<1>10. n = 2 <=> \E a \in 1..(i + 1) : OnlyAt(email, i + 1, a)
  <2>1. n = 2 <=> \E a \in 1..i : OnlyAt(email, i, a)
    BY DEF Parted
  <2>2. \A a \in 1..i : a \in 1..(i + 1)
    BY <1>2
  <2> QED
    BY <1>7, <2>1, <2>2
<1>11. Parted(email, i + 1, more)
  <2>1. n = 1 <=> \A h \in 1..i : email[h] # "at"
    BY DEF Parted
  <2> QED
    BY <1>2, <1>4, <1>6, <1>8, <1>9, <1>10, <2>1 DEF Parted
<1> QED
  BY <1>1, <1>11

\* What Split yields when there is one "at", and only then.
LEMMA SplitInTwo ==
  ASSUME NEW email \in Seq(Classes)
  PROVE  Parted(email, Len(email), Split(email, "at"))
<1> DEFINE n == Len(email)
<1>1. n \in Nat
  OBVIOUS
<1>2. PICK p : Splits(email, "at", n, p) /\ Split(email, "at") = p[n]
  BY <1>1, SplitIs
<1>3. \A i \in 0..n : p[i] = IF i = 0 THEN <<(<<>>)>>
                             ELSE WithCharacter(p[i - 1], email[i], "at")
  <2> DEFINE g(i) == IF i = 0 THEN <<(<<>>)>>
                     ELSE WithCharacter(p[i - 1], email[i], "at")
  <2>1. p = [i \in 0..n |-> g(i)]
    BY <1>2 DEF Splits
  <2> HIDE DEF g
  <2>2. \A i \in 0..n : p[i] = g(i)
    BY <2>1
  <2> QED
    BY <2>2 DEF g
<1> DEFINE D == {i \in 0..n : ~Parted(email, i, p[i])}
<1>4. CASE D # {}
  <2>1. D \in SUBSET Nat
    BY <1>1
  <2> HIDE DEF D
  <2>2. PICK m \in D : \A j \in D : m <= j
    BY <1>4, <2>1, Least
  <2>3. m \in 0..n /\ m \in Nat /\ ~Parted(email, m, p[m])
    BY <1>1, <2>2 DEF D
  <2>4. CASE m = 0
    <3>1. p[0] = <<(<<>>)>>
      BY <1>1, <1>3
    <3> DEFINE e == <<>>
    <3>2. e \in Seq(Classes) /\ SubSeq(email, 1, 0) = e
      BY SubSeqEmpty
    <3> HIDE DEF e
    <3>3. <<e>> \in Seq(Seq(Classes)) /\ Len(<<e>>) = 1 /\ <<e>>[1] = e
      BY <3>2
    <3>4. 1..0 = {}
      OBVIOUS
    <3>5. Parted(email, 0, <<e>>)
      BY <3>2, <3>3, <3>4 DEF Parted
    <3> QED
      BY <2>3, <2>4, <3>1, <3>5 DEF e
  <2>5. CASE m # 0
    <3>1. m - 1 \in 0..n - 1 /\ m - 1 \in 0..n /\ ~(m <= m - 1) /\ (m - 1) + 1 = m
      BY <1>1, <2>3, <2>5
    <3>2. Parted(email, m - 1, p[m - 1])
      BY <2>2, <3>1 DEF D
    <3>3. p[m] = WithCharacter(p[m - 1], email[m], "at")
      BY <1>3, <2>3, <2>5
    <3>4. Parted(email, (m - 1) + 1,
                 WithCharacter(p[m - 1], email[(m - 1) + 1], "at"))
      <4> DEFINE h == m - 1
      <4>1. h \in 0..n - 1 /\ Parted(email, h, p[h])
        BY <3>1, <3>2
      <4> HIDE DEF h
      <4>2. Parted(email, h + 1, WithCharacter(p[h], email[h + 1], "at"))
        BY <4>1, PartedAtAt, PartedElse
      <4> QED
        BY <4>2 DEF h
    <3> QED
      BY <2>3, <3>1, <3>3, <3>4
  <2> QED
    BY <2>4, <2>5
<1>5. CASE D = {}
  <2>1. n \in 0..n
    BY <1>1
  <2> QED
    BY <1>2, <1>5, <2>1
<1> QED
  BY <1>4, <1>5

\* The parts of a text before and after a position.
LEMMA AroundAt ==
  ASSUME NEW s \in Seq(Classes), NEW a \in 1..Len(s)
  PROVE  LET local == SubSeq(s, 1, a - 1)
             domain == SubSeq(s, a + 1, Len(s))
         IN /\ local \in Seq(Classes) /\ Len(local) = a - 1
            /\ \A h \in 1..(a - 1) : local[h] = s[h]
            /\ domain \in Seq(Classes) /\ Len(domain) = Len(s) - a
            /\ \A h \in 1..(Len(s) - a) : domain[h] = s[a + h]
<1> DEFINE local == SubSeq(s, 1, a - 1)
           domain == SubSeq(s, a + 1, Len(s))
<1>1. Len(s) \in Nat /\ a \in Int /\ a - 1 \in Int /\ a + 1 \in Int
  OBVIOUS
<1>2. /\ \A h \in 1..(a - 1) : s[h] \in Classes
      /\ \A h \in (a + 1)..Len(s) : s[h] \in Classes
  BY <1>1
<1>3. /\ local \in Seq(Classes)
      /\ Len(local) = IF 1 <= a - 1 THEN (a - 1) - 1 + 1 ELSE 0
      /\ \A h \in 1..((a - 1) - 1 + 1) : local[h] = s[1 + h - 1]
  BY <1>1, <1>2, SubSeqProperties
<1>4. /\ domain \in Seq(Classes)
      /\ Len(domain) = IF a + 1 <= Len(s) THEN Len(s) - (a + 1) + 1 ELSE 0
      /\ \A h \in 1..(Len(s) - (a + 1) + 1) : domain[h] = s[(a + 1) + h - 1]
  BY <1>1, <1>2, SubSeqProperties
<1> HIDE DEF local, domain
<1>5. Len(local) = a - 1 /\ Len(domain) = Len(s) - a
  BY <1>1, <1>3, <1>4
<1>6. \A h \in 1..(a - 1) : local[h] = s[h]
  BY <1>1, <1>3
<1>7. \A h \in 1..(Len(s) - a) : domain[h] = s[a + h]
  <2> SUFFICES ASSUME NEW h \in 1..(Len(s) - a) PROVE domain[h] = s[a + h]
    OBVIOUS
  <2>1. h \in 1..(Len(s) - (a + 1) + 1) /\ (a + 1) + h - 1 = a + h
    BY <1>1
  <2> QED
    BY <1>4, <2>1
<1> QED
  BY <1>3, <1>4, <1>5, <1>6, <1>7 DEF local, domain

\* The rules for the two parts are rules for the positions before and after
\* the "at".
LEMMA PartsAllowed ==
  ASSUME NEW a \in 1..Len(text), text \in Seq(Classes), text[a] = "at",
         Positions("at") = {a}
  PROVE  LET local == SubSeq(text, 1, a - 1)
             domain == SubSeq(text, a + 1, Len(text))
         IN /\ verifyEmailAddressLocalPart(local) <=>
                 /\ a # 1
                 /\ \A i \in 1..(a - 1) : text[i] \in {"lower", "period", "plus"}
            /\ verifyEmailAddressDomainPart(domain) <=>
                 /\ a # Len(text)
                 /\ \A i \in (a + 1)..Len(text) : text[i] \in {"lower", "period"}
                 /\ \E i \in (a + 1)..Len(text) : text[i] = "period"
                 /\ text[a + 1] # "period" /\ text[Len(text)] # "period"
<1> DEFINE n == Len(text)
           local == SubSeq(text, 1, a - 1)
           domain == SubSeq(text, a + 1, n)
<1>1. n \in Nat /\ a \in 1..n
  OBVIOUS
<1>2. /\ local \in Seq(Classes) /\ Len(local) = a - 1
      /\ \A h \in 1..(a - 1) : local[h] = text[h]
      /\ domain \in Seq(Classes) /\ Len(domain) = n - a
      /\ \A h \in 1..(n - a) : domain[h] = text[a + h]
  BY AroundAt
<1> HIDE DEF local, domain
<1>3. local # <<>> <=> a # 1
  BY <1>1, <1>2
<1>4. domain # <<>> <=> a # n
  BY <1>1, <1>2
<1>5. ToSet(local) = {local[h] : h \in 1..(a - 1)}
  BY <1>2 DEF ToSet
<1>6. ToSet(domain) = {domain[h] : h \in 1..(n - a)}
  BY <1>2 DEF ToSet
<1>7. verifyEmailAddressLocalPart(local) <=>
        /\ a # 1
        /\ \A i \in 1..(a - 1) : text[i] \in {"lower", "period", "plus"}
  <2>1. \A S : ToSet(local) \subseteq S <=> \A i \in 1..(a - 1) : text[i] \in S
    <3>1. ToSet(local) = {text[h] : h \in 1..(a - 1)}
      BY <1>2, <1>5
    <3> QED
      BY <3>1
  <2> QED
    BY <1>3, <2>1 DEF verifyEmailAddressLocalPart
<1>8. \A i \in (a + 1)..n : i - a \in 1..(n - a) /\ domain[i - a] = text[i]
  <2> SUFFICES ASSUME NEW i \in (a + 1)..n
               PROVE  i - a \in 1..(n - a) /\ domain[i - a] = text[i]
    OBVIOUS
  <2>1. i - a \in 1..(n - a) /\ a + (i - a) = i
    BY <1>1
  <2> QED
    BY <1>2, <2>1
<1>9. \A h \in 1..(n - a) : a + h \in (a + 1)..n
  BY <1>1
<1>10. ToSet(domain) \subseteq {"lower", "period"} <=>
         \A i \in (a + 1)..n : text[i] \in {"lower", "period"}
  <2>1. \A S : ToSet(domain) \subseteq S <=> \A i \in (a + 1)..n : text[i] \in S
    <3> SUFFICES ASSUME NEW S
                 PROVE  ToSet(domain) \subseteq S <=>
                          \A i \in (a + 1)..n : text[i] \in S
      OBVIOUS
    <3>1. ASSUME ToSet(domain) \subseteq S, NEW i \in (a + 1)..n
          PROVE  text[i] \in S
      BY <1>6, <1>8, <3>1
    <3>2. ASSUME \A i \in (a + 1)..n : text[i] \in S, NEW h \in 1..(n - a)
          PROVE  domain[h] \in S
      BY <1>2, <1>9, <3>2
    <3> QED
      BY <1>6, <3>1, <3>2
  <2> QED
    BY <2>1
<1>11. "period" \in ToSet(domain) <=> \E i \in (a + 1)..n : text[i] = "period"
  <2>1. ASSUME "period" \in ToSet(domain)
        PROVE  \E i \in (a + 1)..n : text[i] = "period"
    <3>1. PICK h \in 1..(n - a) : domain[h] = "period"
      BY <1>6, <2>1
    <3> QED
      BY <1>2, <1>9, <3>1
  <2>2. ASSUME NEW i \in (a + 1)..n, text[i] = "period"
        PROVE  "period" \in ToSet(domain)
    BY <1>6, <1>8, <2>2
  <2> QED
    BY <2>1, <2>2
<1>12. a # n => Head(domain) = text[a + 1] /\ Last(domain) = text[n]
  <2> SUFFICES ASSUME a # n
               PROVE  Head(domain) = text[a + 1] /\ Last(domain) = text[n]
    OBVIOUS
  <2>1. 1 \in 1..(n - a) /\ n - a \in 1..(n - a) /\ a + (n - a) = n
    BY <1>1
  <2>2. Head(domain) = domain[1] /\ Last(domain) = domain[n - a]
    BY <1>2, <1>4 DEF Last
  <2> QED
    BY <1>2, <2>1, <2>2
<1>13. verifyEmailAddressDomainPart(domain) <=>
         /\ a # n
         /\ \A i \in (a + 1)..n : text[i] \in {"lower", "period"}
         /\ \E i \in (a + 1)..n : text[i] = "period"
         /\ text[a + 1] # "period" /\ text[n] # "period"
  BY <1>4, <1>10, <1>11, <1>12 DEF verifyEmailAddressDomainPart, NoPeriodAround
<1> QED
  BY <1>7, <1>13 DEF local, domain

\* The two definitions agree.
LEMMA AcceptsAddresses ==
  ASSUME text \in Seq(Classes)
  PROVE  AcceptsExactlyAddresses
<1> DEFINE n == Len(text)
           parts == Split(text, "at")
<1>1. n \in Nat /\ \A i \in 1..n : text[i] \in Classes
  OBVIOUS
<1>2. DOMAIN text = 1..n
  OBVIOUS
<1>3. Parted(text, n, parts)
  BY SplitInTwo
<1>4. maxEmailAddressLength \in Nat
  BY PatternsAssumption
<1> HIDE DEF parts
<1>5. \A a \in 1..n : OnlyAt(text, n, a) <=> Positions("at") = {a}
  BY <1>2 DEF OnlyAt, Positions
<1>6. verifyAccountIdentifierEmailAddressPattern(text) <=>
        /\ n <= maxEmailAddressLength /\ Len(parts) = 2
        /\ verifyEmailAddressLocalPart(parts[1])
        /\ verifyEmailAddressDomainPart(parts[2])
  BY DEF verifyAccountIdentifierEmailAddressPattern, parts
<1> DEFINE Rules(a) ==
      /\ a # 1 /\ a # n
      /\ \A i \in 1..(a - 1) : text[i] \in {"lower", "period", "plus"}
      /\ \A i \in (a + 1)..n : text[i] \in {"lower", "period"}
      /\ \E i \in (a + 1)..n : text[i] = "period"
      /\ text[a + 1] # "period" /\ text[n] # "period"
<1>7. ASSUME NEW a \in 1..n, Positions("at") = {a}
      PROVE  /\ verifyEmailAddressLocalPart(SubSeq(text, 1, a - 1))
             /\ verifyEmailAddressDomainPart(SubSeq(text, a + 1, n))
             <=> Rules(a)
  <2>1. text[a] = "at"
    BY <1>7 DEF Positions
  <2> QED
    BY <1>7, <2>1, PartsAllowed
<1>8. verifyAccountIdentifierEmailAddressPattern(text) <=>
        \E a \in 1..n : /\ n <= maxEmailAddressLength
                        /\ Positions("at") = {a} /\ Rules(a)
  <2> HIDE DEF Rules
  <2>1. ASSUME verifyAccountIdentifierEmailAddressPattern(text)
        PROVE  \E a \in 1..n : /\ n <= maxEmailAddressLength
                               /\ Positions("at") = {a} /\ Rules(a)
    <3>1. PICK a \in 1..n : /\ OnlyAt(text, n, a)
                            /\ parts[1] = SubSeq(text, 1, a - 1)
                            /\ parts[2] = SubSeq(text, a + 1, n)
      BY <1>3, <1>6, <2>1 DEF Parted
    <3> QED
      BY <1>5, <1>6, <1>7, <2>1, <3>1
  <2>2. ASSUME NEW a \in 1..n, n <= maxEmailAddressLength,
               Positions("at") = {a}, Rules(a)
        PROVE  verifyAccountIdentifierEmailAddressPattern(text)
    <3>1. OnlyAt(text, n, a)
      BY <1>5, <2>2
    <3>2. Len(parts) = 2
      BY <1>3, <3>1 DEF Parted
    <3>3. PICK d \in 1..n : /\ OnlyAt(text, n, d)
                            /\ parts[1] = SubSeq(text, 1, d - 1)
                            /\ parts[2] = SubSeq(text, d + 1, n)
      BY <1>3, <3>2 DEF Parted
    <3>4. d = a
      BY <3>1, <3>3 DEF OnlyAt
    <3> QED
      BY <1>6, <1>7, <2>2, <3>2, <3>3, <3>4
  <2> QED
    BY <2>1, <2>2
<1>9. ASSUME NEW a \in 1..n, Positions("at") = {a}
      PROVE  Rules(a) <=>
               /\ a \in 2..n
               /\ ToSet(text) \subseteq {"lower", "period", "plus", "at"}
               /\ \A i \in Positions("plus") : i < a
               /\ \E i \in Positions("period") : i > a
               /\ {a + 1, n} \cap (Positions("period") \cup {n + 1}) = {}
  <2>1. \A i \in 1..n : i < a \/ i = a \/ i > a
    BY <1>1
  <2>2. ToSet(text) = {text[i] : i \in 1..n}
    BY <1>2 DEF ToSet
  <2>3. /\ text[a] = "at"
        /\ \A i \in 1..n : text[i] = "at" => i = a
    BY <1>2, <1>9 DEF Positions
  <2>4. /\ \A i \in 1..(a - 1) : i \in 1..n /\ i < a
        /\ \A i \in (a + 1)..n : i \in 1..n /\ i > a
        /\ \A i \in 1..n : i < a => i \in 1..(a - 1)
        /\ \A i \in 1..n : i > a => i \in (a + 1)..n
    BY <1>1
  <2>5. ASSUME Rules(a)
        PROVE  /\ a \in 2..n
               /\ ToSet(text) \subseteq {"lower", "period", "plus", "at"}
               /\ \A i \in Positions("plus") : i < a
               /\ \E i \in Positions("period") : i > a
               /\ {a + 1, n} \cap (Positions("period") \cup {n + 1}) = {}
    <3>1. a \in 2..n
      BY <1>1, <2>5
    <3>2. ToSet(text) \subseteq {"lower", "period", "plus", "at"}
      BY <2>1, <2>2, <2>3, <2>4, <2>5
    <3>3. \A i \in Positions("plus") : i < a
      BY <1>2, <2>1, <2>3, <2>4, <2>5 DEF Positions
    <3>4. \E i \in Positions("period") : i > a
      BY <1>2, <2>4, <2>5 DEF Positions
    <3>5. a + 1 # n + 1 /\ n # n + 1
      BY <1>1, <2>5
    <3>6. a + 1 \notin Positions("period") /\ n \notin Positions("period")
      BY <2>5 DEF Positions
    <3> QED
      BY <3>1, <3>2, <3>3, <3>4, <3>5, <3>6
  <2>6. ASSUME a \in 2..n,
               ToSet(text) \subseteq {"lower", "period", "plus", "at"},
               \A i \in Positions("plus") : i < a,
               \E i \in Positions("period") : i > a,
               {a + 1, n} \cap (Positions("period") \cup {n + 1}) = {}
        PROVE  Rules(a)
    <3>1. a # 1 /\ a # n
      <4>1. a + 1 # n + 1
        BY <2>6
      <4> QED
        BY <1>1, <2>6, <4>1
    <3>2. \A i \in 1..n : text[i] \in {"lower", "period", "plus", "at"}
      BY <2>2, <2>6
    <3>3. \A i \in 1..(a - 1) : text[i] \in {"lower", "period", "plus"}
      BY <1>1, <2>3, <2>4, <3>2
    <3>4. \A i \in (a + 1)..n : text[i] \in {"lower", "period"}
      <4> SUFFICES ASSUME NEW i \in (a + 1)..n
                   PROVE  text[i] \in {"lower", "period"}
        OBVIOUS
      <4>1. i \in 1..n /\ i > a /\ i # a /\ ~(i < a)
        BY <1>1
      <4>2. text[i] # "plus"
        BY <1>2, <2>6, <4>1 DEF Positions
      <4> QED
        BY <2>3, <3>2, <4>1, <4>2
    <3>5. \E i \in (a + 1)..n : text[i] = "period"
      BY <1>2, <2>4, <2>6 DEF Positions
    <3>6. text[a + 1] # "period" /\ text[n] # "period"
      <4>1. a + 1 \in 1..n /\ n \in 1..n
        BY <1>1, <3>1
      <4> QED
        BY <1>2, <2>6, <4>1 DEF Positions
    <3> QED
      BY <3>1, <3>3, <3>4, <3>5, <3>6
  <2> HIDE DEF Rules
  <2> QED
    BY <2>5, <2>6
<1> HIDE DEF Rules
<1>10. \A a \in 2..n : a \in 1..n
  BY <1>1
<1> QED
  BY <1>8, <1>9, <1>10 DEF AcceptsExactlyAddresses

\* An address is accepted exactly when it is one, whatever is typed and however
\* long it is.
THEOREM AddressesAccepted == Spec => []AcceptsExactlyAddresses
<1>1. Init => text \in Seq(Characters)
  BY DEF Init
<1>2. text \in Seq(Characters) /\ [Next]_text => (text \in Seq(Characters))'
  BY DEF Next, Type
<1>3. text \in Seq(Characters) => AcceptsExactlyAddresses
  <2> SUFFICES ASSUME text \in Seq(Characters) PROVE text \in Seq(Classes)
    BY AcceptsAddresses
  <2> QED
    BY PatternsAssumption
<1> QED
  BY <1>1, <1>2, <1>3, PTL DEF Spec

-----------------------------------------------------------------------------
(* Authenticator data. *)

\* The values of a byte.
Byte == 0..255

\* short begins as d does, for all of its bytes.
Begins(short, d) ==
  /\ short \in Seq(Byte) /\ d \in Seq(Byte) /\ Len(short) <= Len(d)
  /\ \A i \in 1..Len(short) : short[i] = d[i]

-----------------------------------------------------------------------------

\* What is found in d at a place that short has is found in short.
LEMMA FoundInShort ==
  ASSUME NEW short, NEW d, Begins(short, d), NEW i \in Nat, NEW s \in Seq(Int),
         i + Len(s) <= Len(short), HasAt(d, i, s)
  PROVE  HasAt(short, i, s)
<1>1. \A j \in DOMAIN s : i + j \in 1..Len(short) /\ At(d, i + j - 1) = s[j]
  BY DEF HasAt, Begins
<1>2. ASSUME NEW j \in DOMAIN s
      PROVE  At(short, i + j - 1) = s[j]
  <2>1. j \in Int /\ i + j - 1 + 1 = i + j
    OBVIOUS
  <2>2. d[i + j] = s[j] /\ i + j \in 1..Len(short)
    BY <1>1, <2>1 DEF At
  <2>3. short[i + j] = d[i + j]
    BY <2>2 DEF Begins
  <2> QED
    BY <2>1, <2>2, <2>3 DEF At
<1> QED
  BY <1>2 DEF HasAt

\* So the type of a key is that of its beginning.
LEMMA SameTypeInShort ==
  ASSUME NEW short, NEW d, Begins(short, d), Len(short) > 2,
         NEW type \in Int, HasType(d, type)
  PROVE  HasType(short, type) /\ MapSize(short) = MapSize(d)
<1>1. At(short, 0) = At(d, 0)
  BY DEF Begins, At
<1>2. HasAt(short, 1, <<1, type>>)
  <2>1. <<1, type>> \in Seq(Int) /\ Len(<<1, type>>) = 2
    OBVIOUS
  <2>2. 1 + Len(<<1, type>>) <= Len(short)
    BY <2>1 DEF Begins
  <2> QED
    BY <2>1, <2>2, FoundInShort DEF HasType
<1>3. IsMap(short)
  BY <1>1 DEF IsMap, HasType, Begins
<1> QED
  BY <1>1, <1>2, <1>3 DEF HasType, MapSize

\* The fields that hold byte strings take three bytes, or four.
LEMMA FieldSizes ==
  /\ CoordinateField(33) \in Seq(Int) /\ Len(CoordinateField(33)) = 3
  /\ CoordinateField(34) \in Seq(Int) /\ Len(CoordinateField(34)) = 3
  /\ ModulusField \in Seq(Int) /\ Len(ModulusField) = 4
<1>1. CoordinateSize \in Int /\ ModulusSize \div 256 \in Int /\ ModulusSize % 256 \in Int
  BY SizesAssumption
<1> QED
  BY <1>1 DEF CoordinateField, ModulusField

-----------------------------------------------------------------------------
(* One lemma for each type of key: its size takes in all that is looked at. *)

\* A key for EdDSA.
LEMMA EddsaAgain ==
  ASSUME NEW short, NEW d, Begins(short, d), Len(short) = EddsaSize,
         MapSize(short) = MapSize(d), EddsaFields(d)
  PROVE  EddsaFields(short)
<1> DEFINE x == CoordinateField(33)
<1>1. Len(short) \in Nat /\ Len(short) >= 10
  BY SizesAssumption DEF EddsaSize
<1>2. HasAt(short, 3, <<3, 39>>)
  <2>1. <<3, 39>> \in Seq(Int) /\ 3 \in Nat /\ 3 + Len(<<3, 39>>) <= Len(short)
    BY <1>1
  <2> QED
    BY <2>1, FoundInShort, Zenon DEF EddsaFields
<1>3. HasAt(short, 5, <<32, 6>>)
  <2>1. <<32, 6>> \in Seq(Int) /\ 5 \in Nat /\ 5 + Len(<<32, 6>>) <= Len(short)
    BY <1>1
  <2> QED
    BY <2>1, FoundInShort, Zenon DEF EddsaFields
<1>4. HasAt(short, 7, x)
  <2>1. x \in Seq(Int) /\ Len(x) = 3
    BY FieldSizes
  <2>2. HasAt(d, 7, x)
    BY DEF EddsaFields
  <2> HIDE DEF x
  <2>3. 7 \in Nat /\ 7 + Len(x) <= Len(short)
    BY <1>1, <2>1
  <2> QED
    BY <2>1, <2>2, <2>3, FoundInShort, Zenon
<1> QED
  BY <1>2, <1>3, <1>4 DEF EddsaFields

\* A key for ECDSA.
LEMMA Es256Again ==
  ASSUME NEW short, NEW d, Begins(short, d), Len(short) = Es256Size,
         MapSize(short) = MapSize(d), Es256Fields(d)
  PROVE  Es256Fields(short)
<1> DEFINE x == CoordinateField(33)
           y == CoordinateField(34)
<1>1. /\ CoordinateSize \in Nat
      /\ Len(short) \in Nat /\ Len(short) = 13 + 2 * CoordinateSize
  BY SizesAssumption DEF Es256Size
<1>2. HasAt(short, 3, <<3, 38>>)
  <2>1. <<3, 38>> \in Seq(Int) /\ 3 \in Nat /\ 3 + Len(<<3, 38>>) <= Len(short)
    BY <1>1
  <2> QED
    BY <2>1, FoundInShort, Zenon DEF Es256Fields
<1>3. HasAt(short, 5, <<32, 1>>)
  <2>1. <<32, 1>> \in Seq(Int) /\ 5 \in Nat /\ 5 + Len(<<32, 1>>) <= Len(short)
    BY <1>1
  <2> QED
    BY <2>1, FoundInShort, Zenon DEF Es256Fields
<1>4. HasAt(short, 7, x)
  <2>1. x \in Seq(Int) /\ Len(x) = 3
    BY FieldSizes
  <2>2. HasAt(d, 7, x)
    BY DEF Es256Fields
  <2> HIDE DEF x
  <2>3. 7 \in Nat /\ 7 + Len(x) <= Len(short)
    BY <1>1, <2>1
  <2> QED
    BY <2>1, <2>2, <2>3, FoundInShort, Zenon
<1>5. HasAt(short, 10 + CoordinateSize, y)
  <2>1. y \in Seq(Int) /\ Len(y) = 3
    BY FieldSizes
  <2>2. HasAt(d, 10 + CoordinateSize, y)
    BY DEF Es256Fields
  <2> HIDE DEF y
  <2>3. 10 + CoordinateSize \in Nat /\ 10 + CoordinateSize + Len(y) <= Len(short)
    BY <1>1, <2>1
  <2> QED
    BY <2>1, <2>2, <2>3, FoundInShort, Zenon
<1> QED
  BY <1>2, <1>3, <1>4, <1>5 DEF Es256Fields

\* A key for RSA.
LEMMA Rs256Again ==
  ASSUME NEW short, NEW d, Begins(short, d), Len(short) = Rs256Size,
         MapSize(short) = MapSize(d), Rs256Fields(d)
  PROVE  Rs256Fields(short)
<1> DEFINE n == ModulusField
           e == <<33, 67, 1, 0, 1>>
<1>1. /\ ModulusSize \in Nat \ {0}
      /\ Len(short) \in Nat /\ Len(short) = 16 + ModulusSize
  BY SizesAssumption DEF Rs256Size
<1>2. HasAt(short, 3, <<3, 57, 1, 0>>)
  <2>1. <<3, 57, 1, 0>> \in Seq(Int) /\ 3 \in Nat /\ 3 + Len(<<3, 57, 1, 0>>) <= Len(short)
    BY <1>1
  <2> QED
    BY <2>1, FoundInShort, Zenon DEF Rs256Fields
<1>3. HasAt(short, 7, n)
  <2>1. n \in Seq(Int) /\ Len(n) = 4
    BY FieldSizes
  <2>2. HasAt(d, 7, n)
    BY DEF Rs256Fields
  <2> HIDE DEF n
  <2>3. 7 \in Nat /\ 7 + Len(n) <= Len(short)
    BY <1>1, <2>1
  <2> QED
    BY <2>1, <2>2, <2>3, FoundInShort, Zenon
<1>4. At(short, 11) \div 128 = 1
  BY <1>1 DEF Rs256Fields, At, Begins
<1>5. HasAt(short, 11 + ModulusSize, e)
  <2>1. e \in Seq(Int) /\ 11 + ModulusSize \in Nat /\ 11 + ModulusSize + Len(e) <= Len(short)
    BY <1>1
  <2>2. HasAt(d, 11 + ModulusSize, e)
    BY DEF Rs256Fields
  <2> HIDE DEF e
  <2> QED
    BY <2>1, <2>2, FoundInShort, Zenon
<1> QED
  BY <1>2, <1>3, <1>4, <1>5 DEF Rs256Fields

\* The key that is cut out of what follows it can be verified with.
LEMMA KeyStandsAlone ==
  ASSUME NEW short, NEW d, Begins(short, d),
         verifyCOSEPublicKey(d) # 0, Len(short) = verifyCOSEPublicKey(d)
  PROVE  CanVerifyWith(short)
<1>1. CASE HasType(d, 1) /\ EddsaFields(d) /\ Len(short) = EddsaSize
  <2>1. Len(short) > 2
    BY <1>1, SizesAssumption DEF EddsaSize
  <2>2. HasType(short, 1) /\ MapSize(short) = MapSize(d)
    BY <1>1, <2>1, SameTypeInShort
  <2> QED
    BY <1>1, <2>2, EddsaAgain DEF CanVerifyWith
<1>2. CASE HasType(d, 2) /\ Es256Fields(d) /\ Len(short) = Es256Size
  <2>1. Len(short) > 2
    BY <1>2, SizesAssumption DEF Es256Size
  <2>2. HasType(short, 2) /\ MapSize(short) = MapSize(d)
    BY <1>2, <2>1, SameTypeInShort
  <2> QED
    BY <1>2, <2>2, Es256Again DEF CanVerifyWith
<1>3. CASE HasType(d, 3) /\ Rs256Fields(d) /\ Len(short) = Rs256Size
  <2>1. Len(short) > 2
    BY <1>3, SizesAssumption DEF Rs256Size
  <2>2. HasType(short, 3) /\ MapSize(short) = MapSize(d)
    BY <1>3, <2>1, SameTypeInShort
  <2> QED
    BY <1>3, <2>2, Rs256Again DEF CanVerifyWith
<1> QED
  BY <1>1, <1>2, <1>3 DEF verifyCOSEPublicKey

-----------------------------------------------------------------------------
(* Authenticator data. *)

\* A key is not longer than the text that it is found in.
LEMMA KeyIsInText ==
  ASSUME NEW d \in Seq(Byte)
  PROVE  verifyCOSEPublicKey(d) \in 0..Len(d)
<1>1. \/ verifyCOSEPublicKey(d) = 0
      \/ verifyCOSEPublicKey(d) = EddsaSize /\ Len(d) >= EddsaSize
      \/ verifyCOSEPublicKey(d) = Es256Size /\ Len(d) >= Es256Size
      \/ verifyCOSEPublicKey(d) = Rs256Size /\ Len(d) >= Rs256Size
  BY DEF verifyCOSEPublicKey
<1>2. EddsaSize \in Nat /\ Es256Size \in Nat /\ Rs256Size \in Nat
  BY SizesAssumption DEF EddsaSize, Es256Size, Rs256Size
<1> QED
  BY <1>1, <1>2

\* The elements of a slice.
LEMMA SliceProperties ==
  ASSUME NEW d \in Seq(Byte), NEW from \in Nat, NEW to \in Nat,
         from <= to, to <= Len(d)
  PROVE  /\ Slice(d, from, to) \in Seq(Byte)
         /\ Len(Slice(d, from, to)) = to - from
         /\ \A i \in 1..Len(Slice(d, from, to)) : Slice(d, from, to)[i] = d[from + i]
BY DEF Slice

\* The key of a credential that is accepted is a beginning of what is there.
LEMMA KeyIsCutOut ==
  ASSUME NEW d \in Seq(Byte), Len(d) >= HeaderSize,
         CredentialIncluded(d), HasCredentialId(d), KeySize(d) # 0
  PROVE  CanVerifyWith(AttestedCredential(d).cosePublicKey)
<1> DEFINE rest == From(d, KeyStart(d))
           key == Slice(d, KeyStart(d), KeyStart(d) + KeySize(d))
<1>1. KeyStart(d) \in Nat /\ KeyStart(d) <= Len(d)
  <2>1. CredentialIdStart \in Nat /\ CredentialIdStart >= 7
    BY SizesAssumption DEF CredentialIdStart, HeaderSize
  <2>2. /\ At(d, CredentialIdStart - 2) \in Byte
        /\ At(d, CredentialIdStart - 1) \in Byte
    BY <2>1 DEF HasCredentialId, At
  <2>3. CredentialIdLength(d) \in Nat
    <3>1. \A high, low \in Byte : 256 * high + low \in Nat
      BY DEF Byte
    <3> QED
      BY <2>2, <3>1 DEF CredentialIdLength
  <2> QED
    BY <2>1, <2>3 DEF KeyStart, HasCredentialId
<1>2. /\ rest \in Seq(Byte) /\ Len(rest) = Len(d) - KeyStart(d)
      /\ \A i \in 1..Len(rest) : rest[i] = d[KeyStart(d) + i]
  BY <1>1 DEF From, Slice
<1>3. KeySize(d) = verifyCOSEPublicKey(rest) /\ KeySize(d) \in 0..Len(rest)
  BY <1>2, KeyIsInText DEF KeySize
<1>4. /\ key \in Seq(Byte) /\ Len(key) = KeySize(d)
      /\ \A i \in 1..Len(key) : key[i] = d[KeyStart(d) + i]
  <2> DEFINE from == KeyStart(d)
             to == KeyStart(d) + KeySize(d)
  <2>1. from \in Nat /\ to \in Nat /\ from <= to /\ to <= Len(d)
    BY <1>1, <1>2, <1>3
  <2>2. key = Slice(d, from, to) /\ to - from = KeySize(d)
    BY <1>1, <1>3
  <2> HIDE DEF from, to, key
  <2>3. /\ key \in Seq(Byte) /\ Len(key) = to - from
        /\ \A i \in 1..Len(key) : key[i] = d[from + i]
    BY <2>1, <2>2, SliceProperties
  <2> QED
    BY <2>2, <2>3 DEF from
<1>5. Begins(key, rest)
  <2> HIDE DEF key, rest
  <2> QED
    BY <1>2, <1>3, <1>4 DEF Begins
<1>6. CanVerifyWith(key)
  <2> HIDE DEF key, rest
  <2> QED
    BY <1>3, <1>4, <1>5, KeyStandsAlone
<1> QED
  BY <1>6 DEF AttestedCredential

\* What is accepted at registration is accepted at sign-in, whatever arrives.
LEMMA KeysStayUsableInBytes ==
  ASSUME data \in Seq(Byte)
  PROVE  KeysStayUsable
<1> SUFFICES ASSUME validatePasskeyRegistrationWebauthnAuthenticator(
                      Read, sent.relyingPartyIdHash)
             PROVE  CanVerifyWith(Read.attestedCredential.cosePublicKey)
  BY DEF KeysStayUsable
<1>1. Read.error = "none" /\ Read.attestedCredential # None
  BY DEF validatePasskeyRegistrationWebauthnAuthenticator
<1>2. /\ Len(data) >= HeaderSize
      /\ CredentialIncluded(data) => HasCredentialId(data) /\ KeySize(data) # 0
      /\ Read.attestedCredential =
           IF CredentialIncluded(data) THEN AttestedCredential(data) ELSE None
  <2>1. ~(Len(data) < HeaderSize)
    BY <1>1 DEF Read, ParseAuthenticatorData
  <2>2. CredentialIncluded(data) => HasCredentialId(data) /\ KeySize(data) # 0
    BY <1>1 DEF Read, ParseAuthenticatorData
  <2>3. EndsAsFlagged(data)
    BY <1>1 DEF Read, ParseAuthenticatorData
  <2> QED
    BY <2>1, <2>2, <2>3, SizesAssumption
    DEF Read, ParseAuthenticatorData, HeaderSize
<1> QED
  BY <1>1, <1>2, KeyIsCutOut

-----------------------------------------------------------------------------
(* What is accepted is the encoding of what was read. *)

\* Slices that meet.
LEMMA SlicesMeet ==
  ASSUME NEW d \in Seq(Byte), NEW a \in Nat, NEW b \in Nat, NEW c \in Nat,
         a <= b, b <= c, c <= Len(d)
  PROVE  Slice(d, a, b) \o Slice(d, b, c) = Slice(d, a, c)
<1>1. a + 1 \in 1..Len(d) + 1 /\ b \in (a + 1) - 1 .. Len(d) /\ c \in b..Len(d)
  OBVIOUS
<1> QED
  BY <1>1, ConcatAdjacentSubSeq DEF Slice

\* Slices of no bytes, of one, of two, and of all.
LEMMA ShortSlices ==
  ASSUME NEW d \in Seq(Byte), NEW i \in Nat, i <= Len(d)
  PROVE  /\ Slice(d, i, i) = <<>>
         /\ i + 1 <= Len(d) => Slice(d, i, i + 1) = <<At(d, i)>>
         /\ i + 2 <= Len(d) => Slice(d, i, i + 2) = <<At(d, i), At(d, i + 1)>>
         /\ Slice(d, 0, Len(d)) = d
<1>1. Slice(d, i, i) = <<>>
  BY SubSeqEmpty DEF Slice
<1>2. ASSUME i + 1 <= Len(d)
      PROVE  Slice(d, i, i + 1) = <<At(d, i)>>
  <2>1. PICK to : to = i + 1
    OBVIOUS
  <2>2. to \in Nat /\ i <= to /\ to <= Len(d)
    BY <1>2, <2>1
  <2>3. /\ Slice(d, i, to) \in Seq(Byte)
        /\ Len(Slice(d, i, to)) = to - i
        /\ \A j \in 1..Len(Slice(d, i, to)) : Slice(d, i, to)[j] = d[i + j]
    BY <2>2, SliceProperties
  <2>4. PICK s : s = Slice(d, i, to)
    OBVIOUS
  <2>5. s \in Seq(Byte) /\ Len(s) = 1 /\ s[1] = d[i + 1]
    BY <2>1, <2>3, <2>4
  <2>6. s = <<d[i + 1]>>
    BY <2>5
  <2> QED
    BY <2>1, <2>4, <2>6 DEF At
<1>3. ASSUME i + 2 <= Len(d)
      PROVE  Slice(d, i, i + 2) = <<At(d, i), At(d, i + 1)>>
  <2>1. PICK to : to = i + 2
    OBVIOUS
  <2>2. to \in Nat /\ i <= to /\ to <= Len(d)
    BY <1>3, <2>1
  <2>3. /\ Slice(d, i, to) \in Seq(Byte)
        /\ Len(Slice(d, i, to)) = to - i
        /\ \A j \in 1..Len(Slice(d, i, to)) : Slice(d, i, to)[j] = d[i + j]
    BY <2>2, SliceProperties
  <2>4. PICK s : s = Slice(d, i, to)
    OBVIOUS
  <2>5. s \in Seq(Byte) /\ Len(s) = 2 /\ s[1] = d[i + 1] /\ s[2] = d[i + 2]
    BY <2>1, <2>3, <2>4
  <2>6. s = <<d[i + 1], d[i + 2]>>
    BY <2>5
  <2>7. i + 1 + 1 = i + 2
    OBVIOUS
  <2> QED
    BY <2>1, <2>4, <2>6, <2>7 DEF At
<1>4. Slice(d, 0, Len(d)) = d
  BY SubSeqFull DEF Slice
<1> QED
  BY <1>1, <1>2, <1>3, <1>4

\* A byte is the sum of its bits.
LEMMA BitsMakeByte ==
  ASSUME NEW b \in 0..255
  PROVE  \E reserved \in {0, 2, 32, 34} :
           b = Bit(b \div 2^0 % 2 = 1, 0) + Bit(b \div 2^2 % 2 = 1, 2)
               + Bit(b \div 2^3 % 2 = 1, 3) + Bit(b \div 2^4 % 2 = 1, 4)
               + Bit(b \div 2^6 % 2 = 1, 6) + Bit(b \div 2^7 % 2 = 1, 7)
               + reserved
BY DEF Bit

\* Flags and reserved bits make a byte.
LEMMA FlagsMakeByte ==
  ASSUME NEW d, At(d, HashSize) \in Byte
  PROVE  \E reserved \in {0, 2, 32, 34} :
           At(d, HashSize) =
             Bit(UserPresent(d), 0) + Bit(UserVerified(d), 2)
             + Bit(BackupEligible(d), 3) + Bit(BackedUp(d), 4)
             + Bit(CredentialIncluded(d), 6) + Bit(ExtensionIncluded(d), 7)
             + reserved
<1>1. PICK b \in 0..255 : b = At(d, HashSize)
  BY DEF Byte
<1>2. /\ UserPresent(d) = (b \div 2^0 % 2 = 1)
      /\ UserVerified(d) = (b \div 2^2 % 2 = 1)
      /\ BackupEligible(d) = (b \div 2^3 % 2 = 1)
      /\ BackedUp(d) = (b \div 2^4 % 2 = 1)
      /\ CredentialIncluded(d) = (b \div 2^6 % 2 = 1)
      /\ ExtensionIncluded(d) = (b \div 2^7 % 2 = 1)
  BY <1>1 DEF Flag, UserPresent, UserVerified, BackupEligible, BackedUp,
              CredentialIncluded, ExtensionIncluded
<1> QED
  BY <1>1, <1>2, BitsMakeByte

\* The sizes that are fixed.
LEMMA FixedSizes ==
  /\ HashSize \in Nat /\ AAGUIDSize \in Nat /\ HeaderSize \in Nat /\ HeaderSize = HashSize + 5
  /\ CredentialIdStart \in Nat /\ CredentialIdStart = HeaderSize + AAGUIDSize + 2
BY SizesAssumption DEF HeaderSize, CredentialIdStart

\* Where the parts of a credential begin and end.
LEMMA CredentialParts ==
  ASSUME NEW d \in Seq(Byte), CredentialIncluded(d), HasCredentialId(d)
  PROVE  /\ CredentialIdLength(d) \in Nat
         /\ KeyStart(d) = CredentialIdStart + CredentialIdLength(d)
         /\ KeyStart(d) \in Nat /\ KeyStart(d) <= Len(d)
         /\ KeySize(d) \in Nat /\ KeyStart(d) + KeySize(d) <= Len(d)
         /\ CredentialEnd(d) = KeyStart(d) + KeySize(d)
<1>1. /\ At(d, CredentialIdStart - 2) \in Byte
      /\ At(d, CredentialIdStart - 1) \in Byte
  <2>1. CredentialIdStart \in Nat /\ CredentialIdStart >= 7 /\ Len(d) >= CredentialIdStart
    BY FixedSizes DEF HasCredentialId
  <2> QED
    BY <2>1 DEF At
<1>2. CredentialIdLength(d) \in Nat
  <2>1. \A high, low \in Byte : 256 * high + low \in Nat
    BY DEF Byte
  <2> QED
    BY <1>1, <2>1 DEF CredentialIdLength
<1>3. KeyStart(d) = CredentialIdStart + CredentialIdLength(d)
  BY DEF KeyStart
<1>4. KeyStart(d) \in Nat /\ KeyStart(d) <= Len(d)
  BY <1>2, <1>3, FixedSizes DEF HasCredentialId
<1>5. From(d, KeyStart(d)) \in Seq(Byte) /\ Len(From(d, KeyStart(d))) = Len(d) - KeyStart(d)
  BY <1>4 DEF From, Slice
<1>6. KeySize(d) \in 0..(Len(d) - KeyStart(d))
  BY <1>5, KeyIsInText DEF KeySize
<1>7. KeySize(d) \in Nat /\ KeyStart(d) + KeySize(d) <= Len(d)
  BY <1>4, <1>6
<1>8. CredentialEnd(d) = KeyStart(d) + KeySize(d)
  BY DEF CredentialEnd
<1> QED
  BY <1>2, <1>3, <1>4, <1>7, <1>8

\* The credential, if any, ends within the text.
LEMMA CredentialEnds ==
  ASSUME NEW d \in Seq(Byte), Len(d) >= HeaderSize,
         CredentialIncluded(d) => HasCredentialId(d)
  PROVE  /\ CredentialEnd(d) \in Nat
         /\ HeaderSize <= CredentialEnd(d) /\ CredentialEnd(d) <= Len(d)
<1>1. ASSUME CredentialIncluded(d)
      PROVE  /\ CredentialEnd(d) \in Nat
             /\ HeaderSize <= CredentialEnd(d) /\ CredentialEnd(d) <= Len(d)
  <2>1. /\ CredentialIdLength(d) \in Nat
        /\ KeyStart(d) = CredentialIdStart + CredentialIdLength(d)
        /\ KeySize(d) \in Nat /\ KeyStart(d) + KeySize(d) <= Len(d)
        /\ CredentialEnd(d) = KeyStart(d) + KeySize(d)
    BY <1>1, CredentialParts
  <2> QED
    BY <2>1, FixedSizes
<1>2. ASSUME ~CredentialIncluded(d)
      PROVE  /\ CredentialEnd(d) \in Nat
             /\ HeaderSize <= CredentialEnd(d) /\ CredentialEnd(d) <= Len(d)
  <2>1. CredentialEnd(d) = HeaderSize
    BY <1>2 DEF CredentialEnd
  <2> QED
    BY <2>1, FixedSizes
<1> QED
  BY <1>1, <1>2

\* A number of two bytes.
LEMMA TwoBytes ==
  ASSUME NEW high \in Byte, NEW low \in Byte
  PROVE  (256 * high + low) \div 256 = high /\ (256 * high + low) % 256 = low
BY DEF Byte

\* The credential is read whole.
LEMMA CredentialWhole ==
  ASSUME NEW d \in Seq(Byte), CredentialIncluded(d), HasCredentialId(d)
  PROVE  EncodedCredential(AttestedCredential(d)) = Slice(d, HeaderSize, CredentialEnd(d))
<1>1. PICK h, a, i, k, e, n :
        /\ h = HeaderSize /\ a = HeaderSize + AAGUIDSize /\ i = CredentialIdStart
        /\ k = KeyStart(d) /\ e = KeyStart(d) + KeySize(d) /\ n = CredentialIdLength(d)
  OBVIOUS
<1>2. /\ h \in Nat /\ a \in Nat /\ i \in Nat /\ k \in Nat /\ e \in Nat
      /\ h <= a /\ a <= i /\ i = a + 2 /\ i <= k /\ k <= e /\ e <= Len(d)
      /\ n \in Nat /\ n = k - i /\ h <= k /\ h <= i /\ k <= Len(d) /\ i <= Len(d) /\ a <= Len(d)
      /\ CredentialEnd(d) = e
  <2>1. /\ n \in Nat /\ k = i + n /\ k \in Nat /\ k <= Len(d)
        /\ KeySize(d) \in Nat /\ e = k + KeySize(d) /\ e <= Len(d) /\ CredentialEnd(d) = e
    BY <1>1, CredentialParts
  <2>2. h \in Nat /\ AAGUIDSize \in Nat /\ a = h + AAGUIDSize /\ i \in Nat /\ i = a + 2
    BY <1>1, FixedSizes
  <2> QED
    BY <2>1, <2>2
<1>3. /\ AttestedCredential(d).aaguid = Slice(d, h, a)
      /\ AttestedCredential(d).credentialId = Slice(d, i, k)
      /\ AttestedCredential(d).cosePublicKey = Slice(d, k, e)
  BY <1>1 DEF AttestedCredential
<1>4. Len(Slice(d, i, k)) = n
  <2>1. Len(Slice(d, i, k)) = k - i
    BY <1>2, SliceProperties
  <2> QED
    BY <1>2, <2>1
<1>5. n \div 256 = At(d, a) /\ n % 256 = At(d, a + 1)
  <2>1. i - 2 = a /\ i - 1 = a + 1
    BY <1>2
  <2>2. At(d, a) \in Byte /\ At(d, a + 1) \in Byte
    BY <1>2 DEF At
  <2>3. n = 256 * At(d, a) + At(d, a + 1)
    <3>1. n = 256 * At(d, i - 2) + At(d, i - 1)
      BY <1>1 DEF CredentialIdLength
    <3> QED
      BY <2>1, <3>1
  <2> QED
    BY <2>2, <2>3, TwoBytes
<1>6. Slice(d, a, i) = <<At(d, a), At(d, a + 1)>>
  <2>1. a + 2 <= Len(d) /\ a <= Len(d)
    BY <1>2
  <2>2. Slice(d, a, a + 2) = <<At(d, a), At(d, a + 1)>>
    BY <1>2, <2>1, ShortSlices
  <2> QED
    BY <1>2, <2>2
<1>7. Slice(d, h, a) \o Slice(d, a, i) = Slice(d, h, i)
  <2>1. h \in Nat /\ a \in Nat /\ i \in Nat /\ h <= a /\ a <= i /\ i <= Len(d)
    BY <1>2
  <2> QED
    BY <2>1, SlicesMeet
<1>8. Slice(d, h, i) \o Slice(d, i, k) = Slice(d, h, k)
  <2>1. h \in Nat /\ i \in Nat /\ k \in Nat /\ h <= i /\ i <= k /\ k <= Len(d)
    BY <1>2
  <2> QED
    BY <2>1, SlicesMeet
<1>9. Slice(d, h, k) \o Slice(d, k, e) = Slice(d, h, e)
  <2>1. h \in Nat /\ k \in Nat /\ e \in Nat /\ h <= k /\ k <= e /\ e <= Len(d)
    BY <1>2
  <2> QED
    BY <2>1, SlicesMeet
<1>10. EncodedCredential(AttestedCredential(d)) =
         Slice(d, h, a) \o Slice(d, a, i) \o Slice(d, i, k) \o Slice(d, k, e)
  BY <1>3, <1>4, <1>5, <1>6, Zenon DEF EncodedCredential
<1> QED
  BY <1>1, <1>2, <1>7, <1>8, <1>9, <1>10, Zenon

\* An extension is the encoding of its policy.
LEMMA ExtensionWhole ==
  ASSUME NEW e \in Seq(Byte), IsExtension(e)
  PROVE  /\ e = <<161, 96 + Len(CredProtect)>> \o CredProtect \o <<e[Len(e)]>>
         /\ e[Len(e)] \in 1..3
<1>1. PICK n, head : n = Len(CredProtect) /\ head = <<161, 96 + Len(CredProtect)>> \o CredProtect
  OBVIOUS
<1>2. n \in Nat /\ CredProtect \in Seq(Byte) /\ n < 24
  BY <1>1, CredProtectAssumption DEF Byte
<1>3. <<161, 96 + n>> \in Seq(Byte) /\ Len(<<161, 96 + n>>) = 2
  BY <1>2 DEF Byte
<1>4. head \in Seq(Byte) /\ Len(head) = n + 2
  BY <1>1, <1>2, <1>3
<1>5. Len(e) = n + 3 /\ e[Len(e)] \in 1..3
  <2>1. n + 2 + 1 = n + 3
    BY <1>2
  <2> QED
    BY <1>1, <2>1 DEF IsExtension, At
<1>6. ASSUME NEW j \in 1..(n + 2)
      PROVE  e[j] = head[j]
  <2>1. j \in DOMAIN head
    BY <1>2, <1>4
  <2>2. At(e, 0 + j - 1) = head[j]
    BY <1>1, <2>1 DEF IsExtension, HasAt
  <2>3. 0 + j - 1 + 1 = j
    OBVIOUS
  <2> QED
    BY <2>2, <2>3 DEF At
<1>7. PICK x : x = e[Len(e)]
  OBVIOUS
<1>8. e = head \o <<x>>
  <2>1. <<x>> \in Seq(Byte) /\ Len(<<x>>) = 1
    BY <1>5, <1>7 DEF Byte
  <2>2. head \o <<x>> \in Seq(Byte) /\ Len(head \o <<x>>) = n + 3
    BY <1>2, <1>4, <2>1
  <2>3. ASSUME NEW j \in 1..(n + 3)
        PROVE  (head \o <<x>>)[j] = e[j]
    BY <1>2, <1>4, <1>5, <1>6, <1>7, <2>1
  <2> QED
    BY <1>5, <2>2, <2>3
<1> QED
  BY <1>1, <1>5, <1>7, <1>8, Zenon

\* A credential that was read is not mistaken for none.
LEMMA CredentialIsSome ==
  ASSUME NEW d \in Seq(Byte), CredentialIncluded(d), HasCredentialId(d)
  PROVE  AttestedCredential(d) # None
<1>1. PICK h, a, i, k, e :
        /\ h = HeaderSize /\ a = HeaderSize + AAGUIDSize /\ i = CredentialIdStart
        /\ k = KeyStart(d) /\ e = KeyStart(d) + KeySize(d)
  OBVIOUS
<1>2. /\ h \in Nat /\ a \in Nat /\ i \in Nat /\ k \in Nat /\ e \in Nat
      /\ h <= a /\ i <= k /\ k <= e /\ e <= Len(d) /\ k <= Len(d) /\ a <= Len(d)
  <2>1. /\ CredentialIdLength(d) \in Nat /\ k = i + CredentialIdLength(d)
        /\ k \in Nat /\ k <= Len(d)
        /\ KeySize(d) \in Nat /\ e = k + KeySize(d) /\ e <= Len(d)
    BY <1>1, CredentialParts
  <2>2. h \in Nat /\ AAGUIDSize \in Nat /\ a = h + AAGUIDSize /\ i \in Nat /\ i = a + 2
    BY <1>1, FixedSizes
  <2> QED
    BY <2>1, <2>2
<1>3. Slice(d, h, a) \in Seq(Byte)
  BY <1>2, SliceProperties
<1>4. Slice(d, i, k) \in Seq(Byte)
  BY <1>2, SliceProperties
<1>5. Slice(d, k, e) \in Seq(Byte)
  BY <1>2, SliceProperties
<1>6. AttestedCredential(d) =
        [ aaguid |-> Slice(d, h, a), credentialId |-> Slice(d, i, k),
          cosePublicKey |-> Slice(d, k, e) ]
  BY <1>1 DEF AttestedCredential
<1>7. AttestedCredential(d) \in
        [aaguid : Seq(0..255), credentialId : Seq(0..255), cosePublicKey : Seq(0..255)]
  <2>1. PICK x, y, z : x = Slice(d, h, a) /\ y = Slice(d, i, k) /\ z = Slice(d, k, e)
    OBVIOUS
  <2>2. x \in Seq(0..255) /\ y \in Seq(0..255) /\ z \in Seq(0..255)
    BY <1>3, <1>4, <1>5, <2>1 DEF Byte
  <2> QED
    BY <1>6, <2>1, <2>2
<1> QED
  BY <1>7, NoneAssumption, Zenon

\* What follows the credential is an extension, or nothing.
LEMMA RestIsExtension ==
  ASSUME NEW d \in Seq(Byte), NEW c \in Nat, c <= Len(d), c = CredentialEnd(d),
         EndsAsFlagged(d)
  PROVE  /\ ExtensionIncluded(d) =>
              /\ Slice(d, c, Len(d)) =
                   <<161, 96 + Len(CredProtect)>> \o CredProtect \o <<d[Len(d)]>>
              /\ d[Len(d)] \in 1..3
         /\ ~ExtensionIncluded(d) => Slice(d, c, Len(d)) = <<>>
<1>1. ASSUME ExtensionIncluded(d)
      PROVE  /\ Slice(d, c, Len(d)) =
                  <<161, 96 + Len(CredProtect)>> \o CredProtect \o <<d[Len(d)]>>
             /\ d[Len(d)] \in 1..3
  <2>1. PICK n : n = Len(d)
    OBVIOUS
  <2>2. n \in Nat /\ c <= n /\ n <= Len(d)
    BY <2>1
  <2>3. /\ Slice(d, c, n) \in Seq(Byte)
        /\ Len(Slice(d, c, n)) = n - c
        /\ \A j \in 1..Len(Slice(d, c, n)) : Slice(d, c, n)[j] = d[c + j]
    BY <2>2, SliceProperties
  <2>4. PICK e : e = Slice(d, c, n)
    OBVIOUS
  <2>5. e \in Seq(Byte) /\ Len(e) = n - c /\ \A j \in 1..Len(e) : e[j] = d[c + j]
    BY <2>3, <2>4
  <2>6. IsExtension(e)
    BY <1>1, <2>1, <2>4, Zenon DEF EndsAsFlagged, From
  <2>7. /\ e = <<161, 96 + Len(CredProtect)>> \o CredProtect \o <<e[Len(e)]>>
        /\ e[Len(e)] \in 1..3
    BY <2>5, <2>6, ExtensionWhole
  <2>8. Len(e) >= 1
    BY <2>6, CredProtectAssumption DEF IsExtension
  <2>9. e[Len(e)] = d[n]
    <3>1. Len(e) \in 1..Len(e) /\ c + Len(e) = n
      BY <2>2, <2>5, <2>8
    <3> QED
      BY <2>5, <3>1
  <2> QED
    BY <2>1, <2>4, <2>7, <2>9
<1>2. ASSUME ~ExtensionIncluded(d)
      PROVE  Slice(d, c, Len(d)) = <<>>
  <2>1. Len(d) = c
    BY <1>2 DEF EndsAsFlagged
  <2>2. Slice(d, c, c) = <<>>
    BY ShortSlices
  <2> QED
    BY <2>1, <2>2
<1> QED
  BY <1>1, <1>2

\* The parts, put together, are the text.
LEMMA PartsMakeText ==
  ASSUME NEW d \in Seq(Byte), NEW c \in Nat, HeaderSize <= c, c <= Len(d)
  PROVE  Slice(d, 0, HashSize) \o <<At(d, HashSize)>> \o Slice(d, HashSize + 1, HeaderSize)
           \o Slice(d, HeaderSize, c) \o Slice(d, c, Len(d)) = d
<1>1. PICK z, s, f, h, n : z = 0 /\ s = HashSize /\ f = HashSize + 1 /\ h = HeaderSize /\ n = Len(d)
  OBVIOUS
<1>2. /\ z \in Nat /\ s \in Nat /\ f \in Nat /\ h \in Nat /\ n \in Nat
      /\ f = s + 1 /\ z <= s /\ s <= f /\ f <= h /\ h <= c /\ c <= n /\ n <= Len(d)
      /\ f <= Len(d) /\ h <= Len(d) /\ s <= Len(d) /\ z <= h /\ z <= f /\ z <= c
  BY <1>1, FixedSizes
<1>3. Slice(d, s, f) = <<At(d, s)>>
  <2>1. s \in Nat /\ s <= Len(d) /\ s + 1 <= Len(d)
    BY <1>2
  <2>2. Slice(d, s, s + 1) = <<At(d, s)>>
    BY <2>1, ShortSlices
  <2> QED
    BY <1>2, <2>2
<1>4. Slice(d, z, s) \o Slice(d, s, f) = Slice(d, z, f)
  <2>1. z \in Nat /\ s \in Nat /\ f \in Nat /\ z <= s /\ s <= f /\ f <= Len(d)
    BY <1>2
  <2> QED
    BY <2>1, SlicesMeet
<1>5. Slice(d, z, f) \o Slice(d, f, h) = Slice(d, z, h)
  <2>1. z \in Nat /\ f \in Nat /\ h \in Nat /\ z <= f /\ f <= h /\ h <= Len(d)
    BY <1>2
  <2> QED
    BY <2>1, SlicesMeet
<1>6. Slice(d, z, h) \o Slice(d, h, c) = Slice(d, z, c)
  <2>1. z \in Nat /\ h \in Nat /\ c \in Nat /\ z <= h /\ h <= c /\ c <= Len(d)
    BY <1>2
  <2> QED
    BY <2>1, SlicesMeet
<1>7. Slice(d, z, c) \o Slice(d, c, n) = Slice(d, z, n)
  <2>1. z \in Nat /\ c \in Nat /\ n \in Nat /\ z <= c /\ c <= n /\ n <= Len(d)
    BY <1>2
  <2> QED
    BY <2>1, SlicesMeet
<1>8. Slice(d, z, n) = d
  <2>1. z \in Nat /\ z <= Len(d)
    BY <1>2
  <2>2. Slice(d, 0, Len(d)) = d
    BY <1>1, <2>1, ShortSlices
  <2> QED
    BY <1>1, <2>2
<1> QED
  BY <1>1, <1>3, <1>4, <1>5, <1>6, <1>7, <1>8, Zenon

\* What was accepted passed all checks, and what was read of it.
LEMMA AcceptedParts ==
  ASSUME NEW d \in Seq(Byte), ParseAuthenticatorData(d).error = "none"
  PROVE  /\ Len(d) >= HeaderSize
         /\ CredentialIncluded(d) => HasCredentialId(d) /\ KeySize(d) # 0
         /\ EndsAsFlagged(d)
         /\ ParseAuthenticatorData(d) =
              [ error          |-> "none",
                relyingPartyIdHash |-> Slice(d, 0, HashSize),
                userPresent    |-> UserPresent(d),
                userVerified   |-> UserVerified(d),
                backupEligible |-> BackupEligible(d),
                backedUp       |-> BackedUp(d),
                signCount      |-> Slice(d, HashSize + 1, HeaderSize),
                attestedCredential |->
                  IF CredentialIncluded(d) THEN AttestedCredential(d) ELSE None,
                credentialProtectionPolicy |->
                  IF ExtensionIncluded(d) THEN d[Len(d)] ELSE 0 ]
<1>1. ~(Len(d) < HeaderSize) /\ (CredentialIncluded(d) => HasCredentialId(d))
  BY DEF ParseAuthenticatorData
<1>2. ~(CredentialIncluded(d) /\ KeySize(d) = 0)
  BY DEF ParseAuthenticatorData
<1>3. EndsAsFlagged(d)
  BY DEF ParseAuthenticatorData
<1>4. Len(d) >= HeaderSize
  BY <1>1, FixedSizes
<1>5. ParseAuthenticatorData(d) =
              [ error          |-> "none",
                relyingPartyIdHash |-> Slice(d, 0, HashSize),
                userPresent    |-> UserPresent(d),
                userVerified   |-> UserVerified(d),
                backupEligible |-> BackupEligible(d),
                backedUp       |-> BackedUp(d),
                signCount      |-> Slice(d, HashSize + 1, HeaderSize),
                attestedCredential |->
                  IF CredentialIncluded(d) THEN AttestedCredential(d) ELSE None,
                credentialProtectionPolicy |->
                  IF ExtensionIncluded(d) THEN d[Len(d)] ELSE 0 ]
  BY <1>1, <1>2, <1>3, Zenon DEF ParseAuthenticatorData
<1> QED
  BY <1>1, <1>2, <1>3, <1>4, <1>5

\* What is accepted is the encoding of what was read.
LEMMA AcceptedIsEncoded ==
  ASSUME NEW d \in Seq(Byte), ParseAuthenticatorData(d).error = "none"
  PROVE  \E reserved \in {0, 2, 32, 34} :
           d = Encode(ParseAuthenticatorData(d), reserved)
<1>1. PICK p : p = ParseAuthenticatorData(d)
  OBVIOUS
<1>2. PICK c : c = CredentialEnd(d)
  OBVIOUS
<1>3. /\ Len(d) >= HeaderSize
      /\ CredentialIncluded(d) => HasCredentialId(d)
      /\ EndsAsFlagged(d)
  BY AcceptedParts
<1>4. /\ p.relyingPartyIdHash = Slice(d, 0, HashSize)
      /\ p.signCount = Slice(d, HashSize + 1, HeaderSize)
      /\ p.userPresent = UserPresent(d) /\ p.userVerified = UserVerified(d)
      /\ p.backupEligible = BackupEligible(d) /\ p.backedUp = BackedUp(d)
      /\ p.attestedCredential =
           IF CredentialIncluded(d) THEN AttestedCredential(d) ELSE None
      /\ p.credentialProtectionPolicy =
           IF ExtensionIncluded(d) THEN d[Len(d)] ELSE 0
  BY <1>1, AcceptedParts
<1>5. c \in Nat /\ HeaderSize <= c /\ c <= Len(d)
  BY <1>2, <1>3, CredentialEnds
<1>6. CredentialIncluded(d) =>
        /\ p.attestedCredential # None
        /\ EncodedCredential(p.attestedCredential) = Slice(d, HeaderSize, c)
  BY <1>2, <1>3, <1>4, CredentialIsSome, CredentialWhole
<1>7. ~CredentialIncluded(d) =>
        p.attestedCredential = None /\ Slice(d, HeaderSize, c) = <<>>
  <2> SUFFICES ASSUME ~CredentialIncluded(d)
               PROVE  p.attestedCredential = None /\ Slice(d, HeaderSize, c) = <<>>
    OBVIOUS
  <2>1. c = HeaderSize
    BY <1>2 DEF CredentialEnd
  <2>2. Slice(d, c, c) = <<>>
    BY <1>5, ShortSlices
  <2> QED
    BY <1>4, <2>1, <2>2
<1>8. /\ ExtensionIncluded(d) =>
           /\ Slice(d, c, Len(d)) =
                <<161, 96 + Len(CredProtect)>> \o CredProtect \o <<d[Len(d)]>>
           /\ d[Len(d)] \in 1..3
      /\ ~ExtensionIncluded(d) => Slice(d, c, Len(d)) = <<>>
  BY <1>2, <1>3, <1>5, RestIsExtension
<1>9. /\ (p.attestedCredential # None) = CredentialIncluded(d)
      /\ (IF p.attestedCredential # None THEN EncodedCredential(p.attestedCredential) ELSE <<>>)
           = Slice(d, HeaderSize, c)
  <2>1. CredentialIncluded(d) \in BOOLEAN
    BY DEF CredentialIncluded, Flag
  <2> QED
    BY <1>6, <1>7, <2>1
<1>10. /\ (p.credentialProtectionPolicy # 0) = ExtensionIncluded(d)
       /\ (IF p.credentialProtectionPolicy # 0
           THEN <<161, 96 + Len(CredProtect)>> \o CredProtect
                  \o <<p.credentialProtectionPolicy>>
           ELSE <<>>) = Slice(d, c, Len(d))
  <2>1. ExtensionIncluded(d) \in BOOLEAN
    BY DEF ExtensionIncluded, Flag
  <2>2. CASE ExtensionIncluded(d)
    <3>1. PICK x : x = d[Len(d)]
      OBVIOUS
    <3>2. p.credentialProtectionPolicy = x /\ x # 0
      BY <1>4, <1>8, <2>2, <3>1
    <3> QED
      BY <1>8, <2>1, <2>2, <3>1, <3>2, Zenon
  <2>3. CASE ~ExtensionIncluded(d)
    BY <1>4, <1>8, <2>1, <2>3, Zenon
  <2> QED
    BY <2>2, <2>3
<1>11. PICK reserved \in {0, 2, 32, 34} :
         At(d, HashSize) =
           Bit(UserPresent(d), 0) + Bit(UserVerified(d), 2)
           + Bit(BackupEligible(d), 3) + Bit(BackedUp(d), 4)
           + Bit(CredentialIncluded(d), 6) + Bit(ExtensionIncluded(d), 7)
           + reserved
  <2>1. HashSize \in Nat /\ HashSize + 1 \in 1..Len(d)
    BY <1>3, FixedSizes
  <2>2. At(d, HashSize) \in Byte
    BY <2>1 DEF At
  <2> QED
    BY <2>2, FlagsMakeByte
<1>12. Bit(p.userPresent, 0) + Bit(p.userVerified, 2)
         + Bit(p.backupEligible, 3) + Bit(p.backedUp, 4)
         + Bit(p.attestedCredential # None, 6)
         + Bit(p.credentialProtectionPolicy # 0, 7) + reserved
       = At(d, HashSize)
  BY <1>4, <1>9, <1>10, <1>11, Zenon
<1>13. Encode(p, reserved) =
         Slice(d, 0, HashSize) \o <<At(d, HashSize)>> \o Slice(d, HashSize + 1, HeaderSize)
           \o Slice(d, HeaderSize, c) \o Slice(d, c, Len(d))
  BY <1>4, <1>9, <1>10, <1>12, Zenon DEF Encode
<1>14. Encode(p, reserved) = d
  BY <1>5, <1>13, PartsMakeText
<1> QED
  BY <1>1, <1>11, <1>14

-----------------------------------------------------------------------------
(* What was encoded is read as it was.  Keys first: each is found, whatever *)
(* follows it. *)

\* The octets of a text are bytes.
LEMMA OctetsAreBytes ==
  ASSUME NEW n \in Nat, NEW x \in Octets(n)
  PROVE  x \in Seq(Byte) /\ Len(x) = n
BY DEF Octets, Byte

\* A part of a text, between others, is found there and cut out whole.
LEMMA PartFound ==
  ASSUME NEW a \in Seq(Byte), NEW s \in Seq(Byte), NEW b \in Seq(Byte)
  PROVE  /\ a \o s \o b \in Seq(Byte)
         /\ Len(a \o s \o b) = Len(a) + Len(s) + Len(b)
         /\ \A i \in 1..Len(s) : (a \o s \o b)[Len(a) + i] = s[i]
         /\ \A i \in 1..Len(a) : (a \o s \o b)[i] = a[i]
         /\ HasAt(a \o s \o b, Len(a), s)
         /\ Slice(a \o s \o b, Len(a), Len(a) + Len(s)) = s
<1>1. PICK d, m, n : d = a \o s \o b /\ m = Len(a) /\ n = Len(s)
  OBVIOUS
<1>2. m \in Nat /\ n \in Nat
  BY <1>1
<1>3. d \in Seq(Byte) /\ Len(d) = m + n + Len(b)
  BY <1>1
<1>4. \A i \in 1..n : d[m + i] = s[i]
  <2>1. PICK t : t = a \o s
    OBVIOUS
  <2>2. t \in Seq(Byte) /\ Len(t) = m + n /\ \A i \in 1..n : t[m + i] = s[i]
    BY <1>1, <2>1
  <2>3. d = t \o b
    BY <1>1, <2>1
  <2> QED
    BY <1>1, <1>2, <2>2, <2>3
<1>5. \A i \in 1..m : d[i] = a[i]
  BY <1>1, <1>2
<1>6. HasAt(d, m, s)
  <2>1. ASSUME NEW j \in DOMAIN s
        PROVE  At(d, m + j - 1) = s[j]
    <3>1. j \in 1..n /\ m + j - 1 + 1 = m + j
      BY <1>1, <1>2
    <3> QED
      BY <1>4, <3>1 DEF At
  <2> QED
    BY <2>1 DEF HasAt
<1>7. Slice(d, m, m + n) = s
  <2>1. PICK to : to = m + n
    OBVIOUS
  <2>2. to \in Nat /\ m <= to /\ to <= Len(d)
    BY <1>2, <1>3, <2>1
  <2>3. PICK x : x = Slice(d, m, to)
    OBVIOUS
  <2>4. x \in Seq(Byte) /\ Len(x) = to - m /\ \A i \in 1..Len(x) : x[i] = d[m + i]
    BY <1>2, <1>3, <2>2, <2>3, SliceProperties
  <2>5. Len(x) = n
    BY <1>2, <2>1, <2>4
  <2>6. \A i \in 1..n : x[i] = s[i]
    BY <1>4, <2>4, <2>5
  <2>7. Len(s) = n
    BY <1>1
  <2>8. x = s
    BY <2>4, <2>5, <2>6, <2>7
  <2> QED
    BY <2>1, <2>3, <2>8
<1> QED
  BY <1>1, <1>3, <1>4, <1>5, <1>6, <1>7, Zenon

\* The same of what comes last.
LEMMA LastPartFound ==
  ASSUME NEW a \in Seq(Byte), NEW s \in Seq(Byte)
  PROVE  /\ a \o s \in Seq(Byte)
         /\ Len(a \o s) = Len(a) + Len(s)
         /\ \A i \in 1..Len(a) : (a \o s)[i] = a[i]
         /\ HasAt(a \o s, Len(a), s)
         /\ Slice(a \o s, Len(a), Len(a) + Len(s)) = s
<1>1. <<>> \in Seq(Byte) /\ a \o s \o <<>> = a \o s
  OBVIOUS
<1>2. /\ a \o s \in Seq(Byte) /\ Len(a \o s) = Len(a) + Len(s)
      /\ \A i \in 1..Len(a) : (a \o s)[i] = a[i]
  OBVIOUS
<1>3. /\ HasAt(a \o s \o <<>>, Len(a), s)
      /\ Slice(a \o s \o <<>>, Len(a), Len(a) + Len(s)) = s
  BY <1>1, PartFound, Zenon
<1> QED
  BY <1>1, <1>2, <1>3, Zenon

\* The fields that hold byte strings are bytes.
LEMMA FieldBytes ==
  /\ CoordinateField(33) \in Seq(Byte) /\ Len(CoordinateField(33)) = 3
  /\ CoordinateField(34) \in Seq(Byte) /\ Len(CoordinateField(34)) = 3
  /\ ModulusField \in Seq(Byte) /\ Len(ModulusField) = 4
<1>1. CoordinateSize \in Byte /\ 33 \in Byte /\ 34 \in Byte /\ 88 \in Byte
  BY SizesAssumption DEF Byte
<1>2. ModulusSize \div 256 \in Byte /\ ModulusSize % 256 \in Byte /\ 32 \in Byte /\ 89 \in Byte
  BY SizesAssumption DEF Byte
<1> QED
  BY <1>1, <1>2 DEF CoordinateField, ModulusField

\* The type of a key is found.
LEMMA TypeFound ==
  ASSUME NEW d, NEW type, Len(d) \in Nat, Len(d) > 2,
         d[1] \in {164, 165}, d[2] = 1, d[3] = type
  PROVE  /\ HasType(d, type)
         /\ \A other : HasType(d, other) => other = type
         /\ MapSize(d) = d[1] - 160
<1>1. IsMap(d) /\ MapSize(d) = d[1] - 160
  <2>1. At(d, 0) = d[1]
    BY DEF At
  <2>2. \A b \in {164, 165} : b \div 32 = 5 /\ b % 32 = b - 160 /\ b % 32 \in 1..23
    OBVIOUS
  <2> QED
    BY <2>1, <2>2 DEF IsMap, MapSize
<1>2. HasAt(d, 1, <<1, type>>)
  BY DEF HasAt, At
<1>3. ASSUME NEW other, HasType(d, other)
      PROVE  other = type
  <2>1. \A j \in DOMAIN <<1, other>> : At(d, 1 + j - 1) = <<1, other>>[j]
    BY <1>3 DEF HasType, HasAt
  <2>2. 2 \in DOMAIN <<1, other>> /\ <<1, other>>[2] = other
    OBVIOUS
  <2>3. d[1 + 2 - 1 + 1] = other
    BY <2>1, <2>2 DEF At
  <2> QED
    BY <2>3
<1> QED
  BY <1>1, <1>2, <1>3 DEF HasType

\* What is found in the beginning of a text is found in the text.
LEMMA FoundInLong ==
  ASSUME NEW a \in Seq(Byte), NEW d, NEW i \in Nat, NEW s \in Seq(Byte),
         i + Len(s) <= Len(a), HasAt(a, i, s),
         \A j \in 1..Len(a) : d[j] = a[j]
  PROVE  HasAt(d, i, s)
<1>1. ASSUME NEW j \in DOMAIN s
      PROVE  At(d, i + j - 1) = s[j]
  <2>1. j \in 1..Len(s) /\ i + j - 1 + 1 = i + j /\ i + j \in 1..Len(a)
    OBVIOUS
  <2>2. a[i + j] = s[j]
    BY <2>1 DEF HasAt, At
  <2> QED
    BY <2>1, <2>2 DEF At
<1> QED
  BY <1>1 DEF HasAt

\* A key is read, whatever follows it.
LEMMA EddsaRead ==
  ASSUME NEW x \in Octets(CoordinateSize), NEW rest \in Seq(Byte)
  PROVE  /\ EddsaKey(x) \in Seq(Byte) /\ Len(EddsaKey(x)) = EddsaSize
         /\ verifyCOSEPublicKey(EddsaKey(x) \o rest) = EddsaSize
<1>1. PICK p, f, c : p = <<164, 1, 1, 3, 39, 32, 6>> /\ f = CoordinateField(33) /\ c = CoordinateSize
  OBVIOUS
<1>2. c \in Nat /\ EddsaSize = 10 + c
  BY <1>1, SizesAssumption DEF EddsaSize
<1>3. x \in Seq(Byte) /\ Len(x) = c
  BY <1>1, <1>2, OctetsAreBytes
<1>4. p \in Seq(Byte) /\ Len(p) = 7
  BY <1>1 DEF Byte
<1>5. f \in Seq(Byte) /\ Len(f) = 3
  BY <1>1, FieldBytes
<1>6. PICK t : t = x \o rest
  OBVIOUS
<1>7. t \in Seq(Byte) /\ Len(t) = c + Len(rest)
  <2>1. x \o rest \in Seq(Byte) /\ Len(x \o rest) = Len(x) + Len(rest)
    BY <1>3, LastPartFound
  <2> QED
    BY <1>3, <1>6, <2>1
<1>8. PICK d : d = p \o f \o t
  OBVIOUS
<1>9. /\ d \in Seq(Byte) /\ Len(d) = 10 + c + Len(rest)
      /\ \A i \in 1..7 : d[i] = p[i]
      /\ HasAt(d, 7, f)
  <2>1. /\ d \in Seq(Byte) /\ Len(d) = Len(p) + Len(f) + Len(t)
        /\ \A i \in 1..Len(p) : d[i] = p[i]
        /\ HasAt(d, Len(p), f)
    <3>1. p \in Seq(Byte) /\ f \in Seq(Byte) /\ t \in Seq(Byte)
      BY <1>4, <1>5, <1>7
    <3> QED
      BY <1>8, <3>1, PartFound
  <2>2. Len(d) = 10 + c + Len(rest)
    <3>1. Len(rest) \in Nat
      OBVIOUS
    <3> QED
      BY <1>2, <1>4, <1>5, <1>7, <2>1, <3>1
  <2> QED
    BY <1>4, <2>1, <2>2
<1>10. /\ d[1] = 164 /\ d[2] = 1 /\ d[3] = 1 /\ d[4] = 3 /\ d[5] = 39 /\ d[6] = 32 /\ d[7] = 6
  BY <1>1, <1>9
<1>11. HasType(d, 1) /\ MapSize(d) = 4 /\ Len(d) >= EddsaSize
  <2>1. Len(d) \in Nat /\ Len(d) > 2 /\ Len(d) >= EddsaSize /\ d[1] \in {164, 165}
    BY <1>2, <1>9, <1>10
  <2>2. HasType(d, 1) /\ MapSize(d) = d[1] - 160
    BY <1>10, <2>1, TypeFound
  <2> QED
    BY <1>10, <2>1, <2>2
<1>12. HasAt(d, 3, <<3, 39>>) /\ HasAt(d, 5, <<32, 6>>)
  BY <1>10 DEF HasAt, At
<1>13. EddsaFields(d)
  BY <1>1, <1>9, <1>11, <1>12 DEF EddsaFields
<1>14. verifyCOSEPublicKey(d) = EddsaSize
  BY <1>11, <1>13 DEF verifyCOSEPublicKey
<1>15. p \o f \o x \in Seq(Byte) /\ Len(p \o f \o x) = 10 + c
  <2>1. /\ p \o f \o x \in Seq(Byte)
        /\ Len(p \o f \o x) = Len(p) + Len(f) + Len(x)
    BY <1>3, <1>4, <1>5, PartFound
  <2> QED
    BY <1>2, <1>3, <1>4, <1>5, <2>1
<1>16. p \o f \o x \o rest = d
  <2>1. p \o f \in Seq(Byte)
    BY <1>4, <1>5
  <2> QED
    BY <1>3, <1>6, <1>8, <2>1, ConcatAssociative
<1>17. EddsaKey(x) = p \o f \o x
  BY <1>1, Zenon DEF EddsaKey
<1> QED
  BY <1>2, <1>14, <1>15, <1>16, <1>17, Zenon

\* The same of a key on the curve.
LEMMA Es256Read ==
  ASSUME NEW x \in Octets(CoordinateSize), NEW y \in Octets(CoordinateSize),
         IsOnCurve(x, y), NEW rest \in Seq(Byte)
  PROVE  /\ Es256Key(x, y) \in Seq(Byte) /\ Len(Es256Key(x, y)) = Es256Size
         /\ verifyCOSEPublicKey(Es256Key(x, y) \o rest) = Es256Size
<1>1. PICK p, f, g, c :
        /\ p = <<165, 1, 2, 3, 38, 32, 1>>
        /\ f = CoordinateField(33) /\ g = CoordinateField(34) /\ c = CoordinateSize
  OBVIOUS
<1>2. c \in Nat /\ Es256Size = 13 + c + c
  <2>1. CoordinateSize \in Nat
    BY SizesAssumption
  <2>2. Es256Size = 13 + CoordinateSize + CoordinateSize
    BY <2>1 DEF Es256Size
  <2> QED
    BY <1>1, <2>1, <2>2
<1>3. x \in Seq(Byte) /\ Len(x) = c /\ y \in Seq(Byte) /\ Len(y) = c
  BY <1>1, <1>2, OctetsAreBytes
<1>4. p \in Seq(Byte) /\ Len(p) = 7
  BY <1>1 DEF Byte
<1>5. f \in Seq(Byte) /\ Len(f) = 3 /\ g \in Seq(Byte) /\ Len(g) = 3
  BY <1>1, FieldBytes
\* The beginnings of the key.
<1>6. PICK a1, a2, a3, key, d :
        /\ a1 = p \o f /\ a2 = a1 \o x /\ a3 = a2 \o g /\ key = a3 \o y /\ d = key \o rest
  OBVIOUS
<1>7. a1 \in Seq(Byte) /\ Len(a1) = 10 /\ HasAt(a1, 7, f) /\ \A i \in 1..7 : a1[i] = p[i]
  <2>1. /\ a1 \in Seq(Byte) /\ Len(a1) = Len(p) + Len(f)
        /\ \A i \in 1..Len(p) : a1[i] = p[i] /\ HasAt(a1, Len(p), f)
    BY <1>4, <1>5, <1>6, LastPartFound
  <2> QED
    BY <1>4, <1>5, <2>1
<1>8. /\ a2 \in Seq(Byte) /\ Len(a2) = 10 + c /\ \A i \in 1..10 : a2[i] = a1[i]
      /\ Slice(a2, 10, 10 + c) = x
  <2>1. /\ a2 \in Seq(Byte) /\ Len(a2) = Len(a1) + Len(x)
        /\ \A i \in 1..Len(a1) : a2[i] = a1[i]
        /\ Slice(a2, Len(a1), Len(a1) + Len(x)) = x
    BY <1>3, <1>6, <1>7, LastPartFound
  <2> QED
    BY <1>3, <1>7, <2>1
<1>9. /\ a3 \in Seq(Byte) /\ Len(a3) = 13 + c /\ HasAt(a3, 10 + c, g)
      /\ \A i \in 1..(10 + c) : a3[i] = a2[i]
  <2>1. /\ a3 \in Seq(Byte) /\ Len(a3) = Len(a2) + Len(g) /\ HasAt(a3, Len(a2), g)
        /\ \A i \in 1..Len(a2) : a3[i] = a2[i]
    <3>1. a2 \in Seq(Byte) /\ g \in Seq(Byte) /\ a3 = a2 \o g
      BY <1>5, <1>6, <1>8
    <3> QED
      BY <3>1, LastPartFound
  <2> QED
    BY <1>2, <1>5, <1>8, <2>1
<1>10. /\ key \in Seq(Byte) /\ Len(key) = 13 + c + c
       /\ \A i \in 1..(13 + c) : key[i] = a3[i]
  <2>1. /\ key \in Seq(Byte) /\ Len(key) = Len(a3) + Len(y)
        /\ \A i \in 1..Len(a3) : key[i] = a3[i]
    <3>1. a3 \in Seq(Byte) /\ y \in Seq(Byte) /\ key = a3 \o y
      BY <1>3, <1>6, <1>9
    <3> QED
      BY <3>1, LastPartFound
  <2> QED
    BY <1>2, <1>3, <1>9, <2>1
<1>11. /\ d \in Seq(Byte) /\ Len(d) = 13 + c + c + Len(rest)
       /\ Slice(d, 13 + c, 13 + c + c) = y
       /\ \A i \in 1..(13 + c) : d[i] = a3[i]
  <2>1. d = a3 \o y \o rest
    BY <1>6
  <2>2. /\ d \in Seq(Byte) /\ Len(d) = Len(a3) + Len(y) + Len(rest)
        /\ Slice(d, Len(a3), Len(a3) + Len(y)) = y
        /\ \A i \in 1..Len(a3) : d[i] = a3[i]
    <3>1. a3 \in Seq(Byte) /\ y \in Seq(Byte)
      BY <1>3, <1>9
    <3> QED
      BY <2>1, <3>1, PartFound
  <2> QED
    BY <1>2, <1>3, <1>9, <2>2
<1>12. Slice(d, 10, 10 + c) = x
  <2>1. PICK r : r = g \o y \o rest
    OBVIOUS
  <2>2. r \in Seq(Byte)
    BY <1>3, <1>5, <2>1
  <2>3. d = a1 \o x \o r
    <3>1. a2 \in Seq(Byte) /\ g \in Seq(Byte) /\ y \in Seq(Byte)
      BY <1>3, <1>5, <1>8
    <3>2. a2 \o g \o y = a2 \o (g \o y)
      BY <3>1, ConcatAssociative
    <3>3. PICK u : u = g \o y
      OBVIOUS
    <3>4. u \in Seq(Byte)
      BY <3>1, <3>3, LastPartFound
    <3>5. (a2 \o u) \o rest = a2 \o (u \o rest)
      BY <3>1, <3>4, ConcatAssociative
    <3> QED
      BY <1>6, <2>1, <3>2, <3>3, <3>5, Zenon
  <2>4. Slice(d, Len(a1), Len(a1) + Len(x)) = x
    BY <1>3, <1>7, <2>2, <2>3, PartFound
  <2> QED
    BY <1>3, <1>7, <2>4
<1>13. /\ \A i \in 1..10 : d[i] = a1[i]
       /\ \A i \in 1..7 : d[i] = p[i]
  BY <1>2, <1>7, <1>8, <1>9, <1>11
<1>14. /\ d[1] = 165 /\ d[2] = 1 /\ d[3] = 2 /\ d[4] = 3 /\ d[5] = 38 /\ d[6] = 32 /\ d[7] = 1
  BY <1>1, <1>13
<1>15. HasType(d, 2) /\ ~HasType(d, 1) /\ MapSize(d) = 5 /\ Len(d) >= Es256Size
  <2>1. Len(d) \in Nat /\ Len(d) > 2 /\ Len(d) >= Es256Size /\ d[1] \in {164, 165}
    BY <1>2, <1>11, <1>14
  <2>2. /\ HasType(d, 2) /\ MapSize(d) = d[1] - 160
        /\ \A other : HasType(d, other) => other = 2
    BY <1>14, <2>1, TypeFound
  <2> QED
    BY <1>14, <2>1, <2>2
<1>16. HasAt(d, 3, <<3, 38>>) /\ HasAt(d, 5, <<32, 1>>)
  BY <1>14 DEF HasAt, At
<1>17. HasAt(d, 7, f)
  <2>1. 7 \in Nat /\ 7 + Len(f) <= Len(a1) /\ \A i \in 1..Len(a1) : d[i] = a1[i]
    BY <1>5, <1>7, <1>13
  <2> QED
    BY <1>5, <1>7, <2>1, FoundInLong, Zenon
<1>18. HasAt(d, 10 + c, g)
  <2>1. 10 + c \in Nat /\ 10 + c + Len(g) <= Len(a3) /\ \A i \in 1..Len(a3) : d[i] = a3[i]
    BY <1>2, <1>5, <1>9, <1>11
  <2> QED
    BY <1>5, <1>9, <2>1, FoundInLong, Zenon
<1>19. Es256Fields(d)
  BY <1>1, <1>15, <1>16, <1>17, <1>18, Zenon DEF Es256Fields
<1>20. OnCurve(d)
  <2>1. 13 + 2 * c = 13 + c + c
    BY <1>2
  <2> QED
    BY <1>1, <1>11, <1>12, <2>1 DEF OnCurve
<1>21. verifyCOSEPublicKey(d) = Es256Size
  BY <1>15, <1>19, <1>20 DEF verifyCOSEPublicKey
<1>22. Es256Key(x, y) = key
  BY <1>1, <1>6, Zenon DEF Es256Key
<1> QED
  BY <1>2, <1>6, <1>10, <1>21, <1>22, Zenon

\* The same of a key for RSA.
LEMMA Rs256Read ==
  ASSUME NEW n \in Octets(ModulusSize), n[1] >= 128, NEW rest \in Seq(Byte)
  PROVE  /\ Rs256Key(n) \in Seq(Byte) /\ Len(Rs256Key(n)) = Rs256Size
         /\ verifyCOSEPublicKey(Rs256Key(n) \o rest) = Rs256Size
<1>1. PICK p, f, e, m :
        /\ p = <<164, 1, 3, 3, 57, 1, 0>> /\ f = ModulusField
        /\ e = <<33, 67, 1, 0, 1>> /\ m = ModulusSize
  OBVIOUS
<1>2. m \in Nat /\ m >= 1 /\ Rs256Size = 16 + m
  BY <1>1, SizesAssumption DEF Rs256Size
<1>3. n \in Seq(Byte) /\ Len(n) = m
  BY <1>1, <1>2, OctetsAreBytes
<1>4. p \in Seq(Byte) /\ Len(p) = 7 /\ e \in Seq(Byte) /\ Len(e) = 5
  BY <1>1 DEF Byte
<1>5. f \in Seq(Byte) /\ Len(f) = 4
  BY <1>1, FieldBytes
<1>6. PICK a1, a2, key, d :
        a1 = p \o f /\ a2 = a1 \o n /\ key = a2 \o e /\ d = key \o rest
  OBVIOUS
<1>7. a1 \in Seq(Byte) /\ Len(a1) = 11 /\ HasAt(a1, 7, f) /\ \A i \in 1..7 : a1[i] = p[i]
  <2>1. /\ a1 \in Seq(Byte) /\ Len(a1) = Len(p) + Len(f)
        /\ \A i \in 1..Len(p) : a1[i] = p[i] /\ HasAt(a1, Len(p), f)
    BY <1>4, <1>5, <1>6, LastPartFound
  <2> QED
    BY <1>4, <1>5, <2>1
<1>8. /\ a2 \in Seq(Byte) /\ Len(a2) = 11 + m /\ \A i \in 1..11 : a2[i] = a1[i]
      /\ a2[12] = n[1]
  <2>1. a1 \in Seq(Byte) /\ n \in Seq(Byte) /\ <<>> \in Seq(Byte) /\ a2 = a1 \o n
    BY <1>3, <1>6, <1>7
  <2>2. /\ a2 \in Seq(Byte) /\ Len(a2) = Len(a1) + Len(n)
        /\ \A i \in 1..Len(a1) : a2[i] = a1[i]
    BY <2>1, LastPartFound
  <2>3. \A i \in 1..Len(n) : a2[Len(a1) + i] = n[i]
    <3>1. \A i \in 1..Len(n) : (a1 \o n \o <<>>)[Len(a1) + i] = n[i]
      BY <2>1, PartFound
    <3>2. a2 \o <<>> = a2
      BY <2>2, ConcatEmptySeq
    <3> QED
      BY <2>1, <3>1, <3>2, Zenon
  <2>4. 1 \in 1..Len(n) /\ Len(a1) + 1 = 12 /\ Len(a2) = 11 + m
    BY <1>2, <1>3, <1>7, <2>2
  <2> QED
    BY <1>7, <2>2, <2>3, <2>4
<1>9. key \in Seq(Byte) /\ Len(key) = 16 + m
  <2>1. a2 \in Seq(Byte) /\ e \in Seq(Byte) /\ key = a2 \o e
    BY <1>4, <1>6, <1>8
  <2>2. key \in Seq(Byte) /\ Len(key) = Len(a2) + Len(e)
    BY <2>1, LastPartFound
  <2> QED
    BY <1>2, <1>4, <1>8, <2>2
<1>10. /\ d \in Seq(Byte) /\ Len(d) = 16 + m + Len(rest)
       /\ HasAt(d, 11 + m, e)
       /\ \A i \in 1..(11 + m) : d[i] = a2[i]
  <2>1. d = a2 \o e \o rest
    BY <1>6
  <2>2. /\ d \in Seq(Byte) /\ Len(d) = Len(a2) + Len(e) + Len(rest)
        /\ HasAt(d, Len(a2), e)
        /\ \A i \in 1..Len(a2) : d[i] = a2[i]
    <3>1. a2 \in Seq(Byte) /\ e \in Seq(Byte)
      BY <1>4, <1>8
    <3> QED
      BY <2>1, <3>1, PartFound
  <2> QED
    BY <1>2, <1>4, <1>8, <2>2
<1>11. /\ \A i \in 1..11 : d[i] = a1[i]
       /\ \A i \in 1..7 : d[i] = p[i]
  BY <1>2, <1>7, <1>8, <1>10
<1>12. /\ d[1] = 164 /\ d[2] = 1 /\ d[3] = 3 /\ d[4] = 3 /\ d[5] = 57 /\ d[6] = 1 /\ d[7] = 0
  BY <1>1, <1>11
<1>13. HasType(d, 3) /\ ~HasType(d, 1) /\ ~HasType(d, 2) /\ MapSize(d) = 4 /\ Len(d) >= Rs256Size
  <2>1. Len(d) \in Nat /\ Len(d) > 2 /\ Len(d) >= Rs256Size /\ d[1] \in {164, 165}
    BY <1>2, <1>10, <1>12
  <2>2. /\ HasType(d, 3) /\ MapSize(d) = d[1] - 160
        /\ \A other : HasType(d, other) => other = 3
    BY <1>12, <2>1, TypeFound
  <2> QED
    BY <1>12, <2>1, <2>2
<1>14. HasAt(d, 3, <<3, 57, 1, 0>>)
  BY <1>12 DEF HasAt, At
<1>15. HasAt(d, 7, f)
  <2>1. 7 \in Nat /\ 7 + Len(f) <= Len(a1) /\ \A i \in 1..Len(a1) : d[i] = a1[i]
    BY <1>5, <1>7, <1>11
  <2> QED
    BY <1>5, <1>7, <2>1, FoundInLong, Zenon
<1>16. At(d, 11) \div 128 = 1
  <2>1. d[12] = n[1]
    BY <1>2, <1>8, <1>10
  <2>2. n[1] \in Byte
    BY <1>2, <1>3
  <2>3. \A b \in Byte : b >= 128 => b \div 128 = 1
    BY DEF Byte
  <2>4. At(d, 11) = n[1]
    BY <2>1 DEF At
  <2> QED
    BY <2>2, <2>3, <2>4
<1>17. Rs256Fields(d)
  BY <1>1, <1>10, <1>13, <1>14, <1>15, <1>16, Zenon DEF Rs256Fields
<1>18. verifyCOSEPublicKey(d) = Rs256Size
  BY <1>13, <1>17 DEF verifyCOSEPublicKey
<1>19. Rs256Key(n) = key
  BY <1>1, <1>6, Zenon DEF Rs256Key
<1> QED
  BY <1>2, <1>6, <1>9, <1>18, <1>19, Zenon

\* A key that authenticators write is read as what it is, whatever follows it.
LEMMA KeyRead ==
  ASSUME NEW key \in PublicKeys, NEW rest \in Seq(Byte)
  PROVE  /\ key \in Seq(Byte) /\ Len(key) # 0
         /\ verifyCOSEPublicKey(key \o rest) = Len(key)
<1>1. CASE key \in {EddsaKey(x) : x \in Octets(CoordinateSize)}
  <2>1. PICK x \in Octets(CoordinateSize) : key = EddsaKey(x)
    BY <1>1
  <2>2. EddsaSize # 0
    BY SizesAssumption DEF EddsaSize
  <2> QED
    BY <2>1, <2>2, EddsaRead
<1>2. CASE key \in {Es256Key(p[1], p[2]) :
                      p \in {q \in Octets(CoordinateSize) \X Octets(CoordinateSize) :
                               IsOnCurve(q[1], q[2])}}
  <2>1. PICK x \in Octets(CoordinateSize), y \in Octets(CoordinateSize) :
          key = Es256Key(x, y) /\ IsOnCurve(x, y)
    BY <1>2
  <2>2. Es256Size # 0
    BY SizesAssumption DEF Es256Size
  <2> QED
    BY <2>1, <2>2, Es256Read
<1>3. CASE key \in {Rs256Key(n) : n \in {m \in Octets(ModulusSize) : m[1] >= 128}}
  <2>1. PICK n \in Octets(ModulusSize) : key = Rs256Key(n) /\ n[1] >= 128
    BY <1>3
  <2>2. Rs256Size # 0
    BY SizesAssumption DEF Rs256Size
  <2> QED
    BY <2>1, <2>2, Rs256Read
<1> QED
  BY <1>1, <1>2, <1>3 DEF PublicKeys

\* What is cut out of the beginning of a text is cut out of the text.
LEMMA SliceOfBeginning ==
  ASSUME NEW a, NEW d, Begins(a, d), NEW from \in Nat, NEW to \in Nat, from <= to, to <= Len(a)
  PROVE  Slice(d, from, to) = Slice(a, from, to)
<1>0. /\ a \in Seq(Byte) /\ d \in Seq(Byte) /\ Len(a) <= Len(d)
      /\ \A j \in 1..Len(a) : d[j] = a[j]
  BY DEF Begins
<1>1. PICK s, t : s = Slice(d, from, to) /\ t = Slice(a, from, to)
  OBVIOUS
<1>2. to <= Len(d)
  BY <1>0
<1>3. s \in Seq(Byte) /\ Len(s) = to - from /\ \A i \in 1..Len(s) : s[i] = d[from + i]
  BY <1>0, <1>1, <1>2, SliceProperties
<1>4. t \in Seq(Byte) /\ Len(t) = to - from /\ \A i \in 1..Len(t) : t[i] = a[from + i]
  BY <1>0, <1>1, SliceProperties
<1>5. ASSUME NEW i \in 1..(to - from)
      PROVE  s[i] = t[i]
  <2>1. from + i \in 1..Len(a)
    BY <1>0
  <2>2. s[i] = d[from + i] /\ t[i] = a[from + i]
    BY <1>3, <1>4
  <2> QED
    BY <1>0, <2>1, <2>2
<1>6. s = t
  BY <1>3, <1>4, <1>5
<1> QED
  BY <1>1, <1>6

-----------------------------------------------------------------------------
(* Then the credential around the key, and what comes before and after it. *)

\* The parts of a credential that authenticators write.
LEMMA CredentialTypes ==
  ASSUME NEW c \in AttestedCredentials
  PROVE  /\ c.aaguid \in Seq(Byte) /\ Len(c.aaguid) = AAGUIDSize
         /\ c.credentialId \in Seq(Byte) /\ Len(c.credentialId) <= MaxCredentialIdLength
         /\ c.cosePublicKey \in PublicKeys /\ c.cosePublicKey \in Seq(Byte)
         /\ c = [ aaguid |-> c.aaguid, credentialId |-> c.credentialId,
                  cosePublicKey |-> c.cosePublicKey ]
         /\ c # None
<1>1. /\ c.aaguid \in Octets(AAGUIDSize)
      /\ c.credentialId \in UNION {Octets(n) : n \in 0..MaxCredentialIdLength}
      /\ c.cosePublicKey \in PublicKeys
      /\ c = [ aaguid |-> c.aaguid, credentialId |-> c.credentialId,
               cosePublicKey |-> c.cosePublicKey ]
  BY DEF AttestedCredentials
<1>2. AAGUIDSize \in Nat /\ MaxCredentialIdLength \in Nat
  BY SizesAssumption
<1>3. c.aaguid \in Seq(Byte) /\ Len(c.aaguid) = AAGUIDSize
  BY <1>1, <1>2, OctetsAreBytes
<1>4. PICK n \in 0..MaxCredentialIdLength : c.credentialId \in Octets(n)
  BY <1>1
<1>5. c.credentialId \in Seq(Byte) /\ Len(c.credentialId) = n
  <2>1. n \in Nat
    BY <1>2
  <2> QED
    BY <1>4, <2>1, OctetsAreBytes
<1>6. c.cosePublicKey \in Seq(Byte)
  <2>1. <<>> \in Seq(Byte)
    OBVIOUS
  <2> QED
    BY <1>1, <2>1, KeyRead
<1>7. c \in [aaguid : Seq(0..255), credentialId : Seq(0..255), cosePublicKey : Seq(0..255)]
  <2>1. PICK x, y, z : x = c.aaguid /\ y = c.credentialId /\ z = c.cosePublicKey
    OBVIOUS
  <2>2. x \in Seq(0..255) /\ y \in Seq(0..255) /\ z \in Seq(0..255)
    BY <1>3, <1>5, <1>6, <2>1 DEF Byte
  <2> QED
    BY <1>1, <2>1, <2>2
<1>8. c # None
  BY <1>7, NoneAssumption, Zenon
<1> QED
  BY <1>1, <1>2, <1>3, <1>5, <1>6, <1>8

\* Texts one after the other, as an operator whose definition can be hidden.
Cat(a, b) == a \o b

\* Where texts are put together first makes no difference.
LEMMA CatAssociative ==
  \A a, b, c \in Seq(Byte) : Cat(a, b) \in Seq(Byte) /\ Cat(Cat(a, b), c) = Cat(a, Cat(b, c))
<1>1. \A a, b \in Seq(Byte) : Cat(a, b) \in Seq(Byte)
  BY LastPartFound DEF Cat
<1>2. \A a, b, c \in Seq(Byte) : Cat(Cat(a, b), c) = Cat(a, Cat(b, c))
  BY ConcatAssociative DEF Cat
<1> QED
  BY <1>1, <1>2

\* The same of five.
LEMMA CatFive ==
  ASSUME NEW a \in Seq(Byte), NEW b \in Seq(Byte), NEW c \in Seq(Byte),
         NEW d \in Seq(Byte), NEW e \in Seq(Byte)
  PROVE  Cat(Cat(Cat(Cat(a, b), c), d), e) = Cat(a, Cat(Cat(Cat(b, c), d), e))
<1>1. Cat(b, c) \in Seq(Byte) /\ Cat(Cat(b, c), d) \in Seq(Byte)
  BY CatAssociative
<1>2. Cat(Cat(a, b), c) = Cat(a, Cat(b, c))
  BY CatAssociative
<1>3. Cat(Cat(a, Cat(b, c)), d) = Cat(a, Cat(Cat(b, c), d))
  BY <1>1, CatAssociative
<1>4. Cat(Cat(a, Cat(Cat(b, c), d)), e) = Cat(a, Cat(Cat(Cat(b, c), d), e))
  BY <1>1, CatAssociative
<1> QED
  BY <1>2, <1>3, <1>4

\* A text begins what is made of it, and what that begins.
LEMMA Beginnings ==
  /\ \A a, b \in Seq(Byte) : Begins(a, a \o b)
  /\ \A a, b, d : Begins(a, b) /\ Begins(b, d) => Begins(a, d)
<1>1. ASSUME NEW a \in Seq(Byte), NEW b \in Seq(Byte)
      PROVE  Begins(a, a \o b)
  <2>1. /\ a \o b \in Seq(Byte) /\ Len(a \o b) = Len(a) + Len(b)
        /\ \A i \in 1..Len(a) : (a \o b)[i] = a[i]
    BY LastPartFound
  <2>2. Len(a) <= Len(a \o b)
    BY <2>1
  <2> QED
    BY <2>1, <2>2 DEF Begins
<1>2. ASSUME NEW a, NEW b, NEW d, Begins(a, b), Begins(b, d)
      PROVE  Begins(a, d)
  BY <1>2 DEF Begins
<1> QED
  BY <1>1, <1>2

\* A credential is read as it was written, whatever follows it.
LEMMA CredentialRead ==
  ASSUME NEW header \in Seq(Byte), Len(header) = HeaderSize,
         NEW c \in AttestedCredentials, NEW rest \in Seq(Byte)
  PROVE  /\ EncodedCredential(c) \in Seq(Byte)
         /\ HasCredentialId(header \o EncodedCredential(c) \o rest)
         /\ KeySize(header \o EncodedCredential(c) \o rest) # 0
         /\ KeyStart(header \o EncodedCredential(c) \o rest) + KeySize(header \o EncodedCredential(c) \o rest)
              = HeaderSize + Len(EncodedCredential(c))
         /\ AttestedCredential(header \o EncodedCredential(c) \o rest) = c
<1>text. PICK d : d = header \o EncodedCredential(c) \o rest
  OBVIOUS
<1>1. PICK aaguid, id, key, l, length :
        /\ aaguid = c.aaguid /\ id = c.credentialId /\ key = c.cosePublicKey
        /\ l = Len(c.credentialId) /\ length = <<l \div 256, l % 256>>
  OBVIOUS
<1>2. /\ aaguid \in Seq(Byte) /\ Len(aaguid) = AAGUIDSize
      /\ id \in Seq(Byte) /\ Len(id) = l /\ l \in Nat /\ l <= MaxCredentialIdLength
      /\ key \in PublicKeys /\ key \in Seq(Byte)
      /\ c = [aaguid |-> aaguid, credentialId |-> id, cosePublicKey |-> key]
  BY <1>1, CredentialTypes
<1>3. PICK high, low : high = l \div 256 /\ low = l % 256
  OBVIOUS
<1>number. high \in Byte /\ low \in Byte /\ 256 * high + low = l
  <2>1. MaxCredentialIdLength \in Nat /\ MaxCredentialIdLength < 65536
    BY SizesAssumption
  <2>2. l \in Nat /\ l < 65536
    BY <1>2, <2>1
  <2> QED
    <3>1. l \div 256 \in 0..255 /\ l % 256 \in 0..255
      BY <2>2
    <3>2. 256 * high + low = l
      BY <1>3, <2>2, <3>1
    <3> QED
      BY <1>3, <3>1, <3>2 DEF Byte
<1>4. length \in Seq(Byte) /\ Len(length) = 2 /\ length[1] = high /\ length[2] = low
  <2>1. length = <<high, low>>
    BY <1>1, <1>3
  <2> QED
    BY <1>number, <2>1
<1>bytes. /\ aaguid \in Seq(Byte) /\ length \in Seq(Byte) /\ id \in Seq(Byte)
          /\ key \in Seq(Byte) /\ header \in Seq(Byte) /\ rest \in Seq(Byte)
  BY <1>2, <1>4
<1>5. PICK h, s, k : h = HeaderSize /\ s = CredentialIdStart /\ k = s + l
  OBVIOUS
<1>6. /\ h \in Nat /\ AAGUIDSize \in Nat /\ s \in Nat /\ s = h + AAGUIDSize + 2
      /\ k \in Nat /\ k = s + l
  BY <1>2, <1>5, FixedSizes
\* The beginnings of the text.
<1>7. PICK a1, a2, a3, a4 :
        /\ a1 = header \o aaguid /\ a2 = a1 \o length /\ a3 = a2 \o id /\ a4 = a3 \o key
  OBVIOUS
<1>8. /\ a1 \in Seq(Byte) /\ Len(a1) = h + AAGUIDSize
      /\ Slice(a1, h, h + AAGUIDSize) = aaguid
  <2>1. /\ a1 \in Seq(Byte) /\ Len(a1) = Len(header) + Len(aaguid)
        /\ Slice(a1, Len(header), Len(header) + Len(aaguid)) = aaguid
    BY <1>2, <1>7, LastPartFound
  <2> QED
    BY <1>2, <1>5, <2>1
<1>9. /\ a2 \in Seq(Byte) /\ Len(a2) = s
      /\ \A i \in 1..Len(a1) : a2[i] = a1[i]
      /\ a2[s - 1] = high /\ a2[s] = low
  <2>1. a1 \in Seq(Byte) /\ length \in Seq(Byte) /\ a2 = a1 \o length
    BY <1>4, <1>7, <1>8
  <2>2. /\ a2 \in Seq(Byte) /\ Len(a2) = Len(a1) + Len(length)
        /\ \A i \in 1..Len(a1) : a2[i] = a1[i]
        /\ HasAt(a2, Len(a1), length)
    BY <2>1, LastPartFound
  <2>3. PICK m : m = Len(a1)
    OBVIOUS
  <2>4. m \in Nat /\ m + 2 = s
    BY <1>6, <1>8, <2>3
  <2>5. a2[m + 1] = length[1] /\ a2[m + 2] = length[2]
    <3>1. 1 \in DOMAIN length /\ 2 \in DOMAIN length
      BY <1>4
    <3>2. At(a2, m + 1 - 1) = length[1] /\ At(a2, m + 2 - 1) = length[2]
      BY <2>2, <2>3, <3>1 DEF HasAt
    <3>3. m + 1 - 1 + 1 = m + 1 /\ m + 2 - 1 + 1 = m + 2
      BY <2>4
    <3> QED
      BY <3>2, <3>3 DEF At
  <2>6. Len(a2) = s /\ s - 1 = m + 1
    BY <1>4, <2>2, <2>3, <2>4
  <2> QED
    BY <1>4, <2>2, <2>4, <2>5, <2>6
<1>10. /\ a3 \in Seq(Byte) /\ Len(a3) = k
       /\ \A i \in 1..Len(a2) : a3[i] = a2[i]
       /\ Slice(a3, s, k) = id
  <2>1. a2 \in Seq(Byte) /\ id \in Seq(Byte) /\ a3 = a2 \o id
    BY <1>2, <1>7, <1>9
  <2>2. /\ a3 \in Seq(Byte) /\ Len(a3) = Len(a2) + Len(id)
        /\ \A i \in 1..Len(a2) : a3[i] = a2[i]
        /\ Slice(a3, Len(a2), Len(a2) + Len(id)) = id
    BY <2>1, LastPartFound
  <2> QED
    BY <1>2, <1>5, <1>9, <2>2
<1>11. /\ a4 \in Seq(Byte) /\ Len(a4) = k + Len(key)
       /\ \A i \in 1..Len(a3) : a4[i] = a3[i]
       /\ Slice(a4, k, k + Len(key)) = key
  <2>1. a3 \in Seq(Byte) /\ key \in Seq(Byte) /\ a4 = a3 \o key
    BY <1>2, <1>7, <1>10
  <2>2. /\ a4 \in Seq(Byte) /\ Len(a4) = Len(a3) + Len(key)
        /\ \A i \in 1..Len(a3) : a4[i] = a3[i]
        /\ Slice(a4, Len(a3), Len(a3) + Len(key)) = key
    BY <2>1, LastPartFound
  <2> QED
    BY <1>10, <2>2
<1>12. EncodedCredential(c) = aaguid \o length \o id \o key
  BY <1>1, Zenon DEF EncodedCredential
<1>13. EncodedCredential(c) \in Seq(Byte)
  <2>1. aaguid \o length \o id \in Seq(Byte)
    BY <1>2, <1>4, PartFound
  <2> QED
    BY <1>2, <1>12, <2>1, LastPartFound
<1>14. a4 = header \o EncodedCredential(c)
  <2>1. EncodedCredential(c) = Cat(Cat(Cat(aaguid, length), id), key)
    BY <1>12 DEF Cat
  <2>2. a4 = Cat(Cat(Cat(Cat(header, aaguid), length), id), key)
    BY <1>7 DEF Cat
  <2>3. a4 = Cat(header, EncodedCredential(c))
    <3>1. Cat(Cat(Cat(Cat(header, aaguid), length), id), key)
            = Cat(header, Cat(Cat(Cat(aaguid, length), id), key))
      BY <1>bytes, CatFive
    <3> QED
      BY <2>1, <2>2, <3>1
  <2> QED
    BY <2>3 DEF Cat
<1>15. d = a4 \o rest /\ d \in Seq(Byte)
  <2>1. d = a4 \o rest
    BY <1>text, <1>14
  <2>2. a4 \in Seq(Byte)
    BY <1>11
  <2> QED
    BY <1>bytes, <2>1, <2>2, LastPartFound
<1>16. Begins(a4, d) /\ Begins(a3, d) /\ Begins(a2, d) /\ Begins(a1, d)
  <2>1. Begins(a4, d)
    BY <1>bytes, <1>11, <1>15, Beginnings
  <2>2. Begins(a3, a4)
    BY <1>bytes, <1>7, <1>10, Beginnings
  <2>3. Begins(a2, a3)
    BY <1>bytes, <1>7, <1>9, Beginnings
  <2>4. Begins(a1, a2)
    BY <1>bytes, <1>7, <1>8, Beginnings
  <2> QED
    BY <2>1, <2>2, <2>3, <2>4, Beginnings, Zenon
<1>17. CredentialIdLength(d) = l
  <2>1. s - 1 \in 1..Len(a2) /\ s \in 1..Len(a2)
    BY <1>6, <1>9
  <2>2. d[s - 1] = high /\ d[s] = low
    BY <1>9, <1>16, <2>1 DEF Begins
  <2>3. s - 2 + 1 = s - 1 /\ s - 1 + 1 = s
    BY <1>6
  <2>4. At(d, s - 2) = high /\ At(d, s - 1) = low
    BY <2>2, <2>3 DEF At
  <2>5. CredentialIdLength(d) = 256 * At(d, s - 2) + At(d, s - 1)
    BY <1>5 DEF CredentialIdLength
  <2> QED
    BY <1>number, <2>4, <2>5
<1>18. KeyStart(d) = k /\ k <= Len(d)
  <2>1. KeyStart(d) = k
    BY <1>5, <1>17 DEF KeyStart
  <2> QED
    BY <1>10, <1>16, <2>1 DEF Begins
<1>19. HasCredentialId(d)
  <2>1. Len(d) \in Nat /\ Len(d) >= s /\ Len(d) >= s + l
    BY <1>2, <1>6, <1>15, <1>18
  <2> QED
    BY <1>2, <1>5, <1>17, <2>1 DEF HasCredentialId
<1>20. KeySize(d) = Len(key) /\ KeySize(d) # 0
  <2>1. PICK r : r = key \o rest
    OBVIOUS
  <2>2. r \in Seq(Byte) /\ a3 \in Seq(Byte)
    BY <1>bytes, <1>10, <2>1, LastPartFound
  <2>3. a4 = Cat(a3, key) /\ r = Cat(key, rest)
    BY <1>7, <2>1 DEF Cat
  <2>4. d = a3 \o r
    <3>1. Cat(a4, rest) = Cat(a3, r)
      <4>1. Cat(Cat(a3, key), rest) = Cat(a3, Cat(key, rest))
        BY <1>bytes, <2>2, CatAssociative
      <4> QED
        BY <2>3, <4>1
    <3> QED
      BY <1>15, <3>1 DEF Cat
  <2>5. /\ Len(d) = Len(a3) + Len(r)
        /\ Slice(d, Len(a3), Len(a3) + Len(r)) = r
    BY <2>2, <2>4, LastPartFound
  <2>6. From(d, k) = r
    BY <1>10, <2>5 DEF From
  <2>7. verifyCOSEPublicKey(key \o rest) = Len(key) /\ Len(key) # 0
    BY <1>2, KeyRead
  <2> QED
    BY <1>18, <2>1, <2>6, <2>7 DEF KeySize
<1>21. Slice(d, h, h + AAGUIDSize) = aaguid
  <2>1. PICK to : to = h + AAGUIDSize
    OBVIOUS
  <2>2. h \in Nat /\ to \in Nat /\ h <= to /\ to <= Len(a1)
    BY <1>6, <1>8, <2>1
  <2>3. Slice(d, h, to) = Slice(a1, h, to)
    BY <1>16, <2>2, SliceOfBeginning
  <2> QED
    BY <1>8, <2>1, <2>3
<1>22. Slice(d, s, k) = id
  <2>1. s \in Nat /\ k \in Nat /\ s <= k /\ k <= Len(a3)
    BY <1>2, <1>6, <1>10
  <2>2. Slice(d, s, k) = Slice(a3, s, k)
    BY <1>16, <2>1, SliceOfBeginning
  <2> QED
    BY <1>10, <2>2
<1>23. Slice(d, k, k + Len(key)) = key
  <2>1. PICK to : to = k + Len(key)
    OBVIOUS
  <2>2. k \in Nat /\ to \in Nat /\ k <= to /\ to <= Len(a4)
    BY <1>bytes, <1>6, <1>11, <2>1
  <2>3. Slice(d, k, to) = Slice(a4, k, to)
    BY <1>16, <2>2, SliceOfBeginning
  <2> QED
    BY <1>11, <2>1, <2>3
<1>24. AttestedCredential(d) = c
  BY <1>2, <1>5, <1>18, <1>20, <1>21, <1>22, <1>23 DEF AttestedCredential
<1>25. KeyStart(d) + KeySize(d) = HeaderSize + Len(EncodedCredential(c))
  <2>1. Len(a4) = Len(header) + Len(EncodedCredential(c))
    BY <1>13, <1>14, LastPartFound
  <2> QED
    BY <1>11, <1>18, <1>20, <2>1
<1> QED
  BY <1>text, <1>13, <1>19, <1>20, <1>24, <1>25, Zenon

\* An extension that was written is found to be one.
LEMMA ExtensionRead ==
  ASSUME NEW policy \in 1..3
  PROVE  \E e : /\ e = <<161, 96 + Len(CredProtect)>> \o CredProtect \o <<policy>>
                /\ e \in Seq(Byte) /\ Len(e) \in Nat /\ Len(e) >= 1
                /\ IsExtension(e) /\ e[Len(e)] = policy
<1>text. PICK e : e = <<161, 96 + Len(CredProtect)>> \o CredProtect \o <<policy>>
  OBVIOUS
<1>1. PICK n, begin, a :
        /\ n = Len(CredProtect) /\ begin = <<161, 96 + n>>
        /\ a = begin \o CredProtect
  OBVIOUS
<1>2. CredProtect \in Seq(Byte) /\ n \in Nat /\ n < 24
  BY <1>1, CredProtectAssumption DEF Byte
<1>3. begin \in Seq(Byte) /\ Len(begin) = 2
  <2>1. 161 \in Byte /\ 96 + n \in Byte
    BY <1>2 DEF Byte
  <2> QED
    BY <1>1, <2>1
<1>4. a \in Seq(Byte) /\ Len(a) = n + 2
  <2>1. a \in Seq(Byte) /\ Len(a) = Len(begin) + Len(CredProtect)
    BY <1>1, <1>2, <1>3, LastPartFound
  <2> QED
    BY <1>1, <1>2, <1>3, <2>1
<1>5. <<policy>> \in Seq(Byte) /\ Len(<<policy>>) = 1
  BY DEF Byte
<1>6. e = a \o <<policy>>
  BY <1>text, <1>1
<1>7. /\ e \in Seq(Byte) /\ Len(e) = n + 3
      /\ \A i \in 1..Len(a) : e[i] = a[i]
      /\ e[n + 3] = policy
  <2>1. PICK p : p = <<policy>>
    OBVIOUS
  <2>2. p \in Seq(Byte) /\ Len(p) = 1 /\ e = a \o p
    BY <1>5, <1>6, <2>1
  <2>3. /\ e \in Seq(Byte) /\ Len(e) = Len(a) + Len(p)
        /\ \A i \in 1..Len(a) : e[i] = a[i]
        /\ HasAt(e, Len(a), p)
    <3>1. \A u, v \in Seq(Byte) :
            /\ u \o v \in Seq(Byte) /\ Len(u \o v) = Len(u) + Len(v)
            /\ \A i \in 1..Len(u) : (u \o v)[i] = u[i]
            /\ HasAt(u \o v, Len(u), v)
      BY LastPartFound
    <3>2. a \in Seq(Byte)
      BY <1>4
    <3> QED
      <4>1. /\ a \o p \in Seq(Byte) /\ Len(a \o p) = Len(a) + Len(p)
            /\ \A i \in 1..Len(a) : (a \o p)[i] = a[i]
            /\ HasAt(a \o p, Len(a), p)
        BY <2>2, <3>1, <3>2
      <4> QED
        BY <2>2, <4>1
  <2>4. Len(e) = n + 3 /\ HasAt(e, n + 2, p)
    BY <1>2, <1>4, <2>2, <2>3
  <2>5. 1 \in DOMAIN p /\ p[1] = policy
    BY <2>1
  <2>6. At(e, n + 2 + 1 - 1) = policy
    BY <2>4, <2>5 DEF HasAt
  <2>7. n + 2 + 1 - 1 + 1 = n + 3
    BY <1>2
  <2>8. e[n + 3] = policy
    BY <2>6, <2>7 DEF At
  <2> QED
    BY <2>3, <2>4, <2>8
<1>8. e[n + 3] = policy
  BY <1>7
<1>9. HasAt(e, 0, a)
  <2>1. ASSUME NEW j \in DOMAIN a
        PROVE  At(e, 0 + j - 1) = a[j]
    <3>1. j \in 1..Len(a) /\ 0 + j - 1 + 1 = j
      BY <1>4, <2>1
    <3> QED
      BY <1>7, <3>1 DEF At
  <2> QED
    BY <2>1 DEF HasAt
<1>10. At(e, n + 2) = policy
  <2>1. n + 2 + 1 = n + 3
    BY <1>2
  <2> QED
    BY <1>8, <2>1 DEF At
<1>11. IsExtension(e)
  <2>1. HasAt(e, 0, <<161, 96 + Len(CredProtect)>> \o CredProtect)
    BY <1>1, <1>9
  <2> QED
    BY <1>1, <1>7, <1>10, <2>1 DEF IsExtension
<1>12. Len(e) \in Nat /\ Len(e) >= 1 /\ e[Len(e)] = policy
  BY <1>2, <1>7, <1>8
<1>13. e \in Seq(Byte) /\ IsExtension(e)
  BY <1>7, <1>11
<1> QED
  BY <1>text, <1>12, <1>13, Zenon

\* What authenticators write is bytes.
LEMMA AuthenticatorTypes ==
  ASSUME NEW a \in Authenticators
  PROVE  /\ a.relyingPartyIdHash \in Seq(Byte) /\ Len(a.relyingPartyIdHash) = HashSize
         /\ a.signCount \in Seq(Byte) /\ Len(a.signCount) = 4
         /\ {a.userPresent, a.userVerified, a.backupEligible, a.backedUp} \subseteq BOOLEAN
         /\ a.attestedCredential \in AttestedCredentials \cup {None}
         /\ a.credentialProtectionPolicy \in 0..3
         /\ a = [ error              |-> "none",
                  relyingPartyIdHash |-> a.relyingPartyIdHash,
                  userPresent        |-> a.userPresent,
                  userVerified       |-> a.userVerified,
                  backupEligible     |-> a.backupEligible,
                  backedUp           |-> a.backedUp,
                  signCount          |-> a.signCount,
                  attestedCredential |-> a.attestedCredential,
                  credentialProtectionPolicy |-> a.credentialProtectionPolicy ]
<1>1. /\ a.relyingPartyIdHash \in Octets(HashSize) /\ a.signCount \in Octets(4)
      /\ {a.userPresent, a.userVerified, a.backupEligible, a.backedUp} \subseteq BOOLEAN
      /\ a.attestedCredential \in AttestedCredentials \cup {None}
      /\ a.credentialProtectionPolicy \in 0..3
  BY DEF Authenticators
<1>2. a = [ error              |-> "none",
                  relyingPartyIdHash |-> a.relyingPartyIdHash,
                  userPresent        |-> a.userPresent,
                  userVerified       |-> a.userVerified,
                  backupEligible     |-> a.backupEligible,
                  backedUp           |-> a.backedUp,
                  signCount          |-> a.signCount,
                  attestedCredential |-> a.attestedCredential,
                  credentialProtectionPolicy |-> a.credentialProtectionPolicy ]
  BY DEF Authenticators
<1>3. HashSize \in Nat /\ 4 \in Nat
  BY SizesAssumption
<1>4. PICK x, y : x = a.relyingPartyIdHash /\ y = a.signCount
  OBVIOUS
<1>5. x \in Seq(Byte) /\ Len(x) = HashSize /\ y \in Seq(Byte) /\ Len(y) = 4
  <2>1. x \in Octets(HashSize) /\ y \in Octets(4)
    BY <1>1, <1>4
  <2> QED
    BY <1>3, <2>1, OctetsAreBytes
<1> QED
  BY <1>1, <1>2, <1>4, <1>5

\* The flags, found in their byte.
LEMMA FlagsFound ==
  ASSUME NEW d, NEW f, At(d, HashSize) = f,
         NEW up \in BOOLEAN, NEW uv \in BOOLEAN, NEW be \in BOOLEAN,
         NEW bu \in BOOLEAN, NEW attested \in BOOLEAN, NEW extended \in BOOLEAN,
         f = Bit(up, 0) + Bit(uv, 2) + Bit(be, 3) + Bit(bu, 4)
             + Bit(attested, 6) + Bit(extended, 7) + 0
  PROVE  /\ f \in Byte
         /\ UserPresent(d) = up /\ UserVerified(d) = uv
         /\ BackupEligible(d) = be /\ BackedUp(d) = bu
         /\ CredentialIncluded(d) = attested /\ ExtensionIncluded(d) = extended
<1>1. /\ f \in 0..255
      /\ ((f \div 2^0) % 2 = 1) = up
      /\ ((f \div 2^2) % 2 = 1) = uv
      /\ ((f \div 2^3) % 2 = 1) = be
      /\ ((f \div 2^4) % 2 = 1) = bu
      /\ ((f \div 2^6) % 2 = 1) = attested
      /\ ((f \div 2^7) % 2 = 1) = extended
  BY DEF Bit
<1> QED
  BY <1>1, Zenon
  DEF UserPresent, UserVerified, BackupEligible, BackedUp,
      CredentialIncluded, ExtensionIncluded, Flag, Byte

\* What authenticators encode is bytes, and is read as it was.
LEMMA EncodedIsRead ==
  ASSUME NEW a \in Authenticators
  PROVE  /\ Encode(a, 0) \in Seq(Byte)
         /\ ParseAuthenticatorData(Encode(a, 0)) = a
\* The parts of the text, and its beginnings.
<1>1. PICK hash, count, c, policy, attested, extended, f :
        /\ hash = a.relyingPartyIdHash /\ count = a.signCount
        /\ c = a.attestedCredential /\ policy = a.credentialProtectionPolicy
        /\ attested = (c # None) /\ extended = (policy # 0)
        /\ f = Bit(a.userPresent, 0) + Bit(a.userVerified, 2)
                 + Bit(a.backupEligible, 3) + Bit(a.backedUp, 4)
                 + Bit(attested, 6) + Bit(extended, 7) + 0
  OBVIOUS
<1>2. PICK credential, extension :
        /\ credential = (IF attested THEN EncodedCredential(c) ELSE <<>>)
        /\ extension = (IF extended
                        THEN <<161, 96 + Len(CredProtect)>> \o CredProtect \o <<policy>>
                        ELSE <<>>)
  OBVIOUS
<1>3. PICK a1, header, a4, d :
        /\ a1 = hash \o <<f>> /\ header = a1 \o count
        /\ a4 = header \o credential /\ d = a4 \o extension
  OBVIOUS
<1>4. Encode(a, 0) = d
  BY <1>1, <1>2, <1>3, Zenon DEF Encode
<1>5. /\ hash \in Seq(Byte) /\ Len(hash) = HashSize
      /\ count \in Seq(Byte) /\ Len(count) = 4
      /\ attested => c \in AttestedCredentials
      /\ extended => policy \in 1..3
      /\ attested \in BOOLEAN /\ extended \in BOOLEAN
  <2>1. /\ hash \in Seq(Byte) /\ Len(hash) = HashSize
        /\ count \in Seq(Byte) /\ Len(count) = 4
        /\ c \in AttestedCredentials \cup {None} /\ policy \in 0..3
    BY <1>1, AuthenticatorTypes
  <2>2. (attested <=> c # None) /\ (extended <=> policy # 0)
    BY <1>1
  <2>3. attested \in BOOLEAN /\ extended \in BOOLEAN
    BY <1>1
  <2> QED
    BY <2>1, <2>2, <2>3
<1>6. HashSize \in Nat /\ HeaderSize \in Nat /\ HeaderSize = HashSize + 5
  BY FixedSizes
<1>7. f \in Byte
  <2>1. {a.userPresent, a.userVerified, a.backupEligible, a.backedUp} \subseteq BOOLEAN
    BY AuthenticatorTypes
  <2>2. PICK up, uv, be, bu :
          /\ up = a.userPresent /\ uv = a.userVerified
          /\ be = a.backupEligible /\ bu = a.backedUp
    OBVIOUS
  <2>3. up \in BOOLEAN /\ uv \in BOOLEAN /\ be \in BOOLEAN /\ bu \in BOOLEAN
    BY <2>1, <2>2
  <2>4. f = Bit(up, 0) + Bit(uv, 2) + Bit(be, 3) + Bit(bu, 4)
              + Bit(attested, 6) + Bit(extended, 7) + 0
    BY <1>1, <2>2
  <2> QED
    BY <1>5, <2>3, <2>4 DEF Bit, Byte
<1>8. PICK flags : flags = <<f>>
  OBVIOUS
<1>9. flags \in Seq(Byte) /\ Len(flags) = 1 /\ flags[1] = f
  BY <1>7, <1>8
<1>10. /\ a1 \in Seq(Byte) /\ Len(a1) = HashSize + 1
       /\ Slice(a1, 0, HashSize) = hash /\ a1[HashSize + 1] = f
  <2>1. a1 = hash \o flags /\ hash \in Seq(Byte) /\ flags \in Seq(Byte)
    BY <1>3, <1>5, <1>8, <1>9
  <2>2. a1 \in Seq(Byte) /\ Len(a1) = Len(hash) + Len(flags) /\ HasAt(a1, Len(hash), flags)
    BY <2>1, LastPartFound
  <2>3. Begins(hash, a1)
    BY <2>1, Beginnings
  <2>4. Slice(a1, 0, HashSize) = hash
    <3>1. 0 \in Nat /\ HashSize \in Nat /\ 0 <= HashSize /\ HashSize <= Len(hash)
      BY <1>5, <1>6
    <3>2. Slice(a1, 0, HashSize) = Slice(hash, 0, HashSize)
      BY <2>3, <3>1, SliceOfBeginning
    <3>3. Slice(hash, 0, HashSize) = hash
      BY <1>5, <3>1, ShortSlices
    <3> QED
      BY <3>2, <3>3
  <2>5. a1[HashSize + 1] = f
    <3>1. 1 \in DOMAIN flags
      BY <1>9
    <3>2. At(a1, HashSize + 1 - 1) = f
      BY <1>5, <1>9, <2>2, <3>1 DEF HasAt
    <3>3. HashSize + 1 - 1 + 1 = HashSize + 1
      BY <1>6
    <3> QED
      BY <3>2, <3>3 DEF At
  <2> QED
    BY <1>5, <1>9, <2>2, <2>4, <2>5
<1>11. /\ header \in Seq(Byte) /\ Len(header) = HeaderSize
       /\ Slice(header, HashSize + 1, HeaderSize) = count
  <2>1. header = a1 \o count /\ a1 \in Seq(Byte) /\ count \in Seq(Byte)
    BY <1>3, <1>5, <1>10
  <2>2. /\ header \in Seq(Byte) /\ Len(header) = Len(a1) + Len(count)
        /\ Slice(header, Len(a1), Len(a1) + Len(count)) = count
    BY <2>1, LastPartFound
  <2>3. Len(a1) + Len(count) = HeaderSize
    BY <1>5, <1>6, <1>10
  <2> QED
    BY <1>10, <2>2, <2>3
<1>12. /\ extension \in Seq(Byte) /\ Len(extension) \in Nat
       /\ extended => /\ IsExtension(extension) /\ Len(extension) >= 1
                      /\ extension[Len(extension)] = policy
       /\ ~extended => extension = <<>> /\ Len(extension) = 0
  <2>1. CASE extended
    <3>1. policy \in 1..3
            /\ extension = <<161, 96 + Len(CredProtect)>> \o CredProtect \o <<policy>>
      BY <1>2, <1>5, <2>1
    <3> QED
      <4>1. /\ extension \in Seq(Byte) /\ Len(extension) \in Nat /\ Len(extension) >= 1
            /\ IsExtension(extension) /\ extension[Len(extension)] = policy
        BY <3>1, ExtensionRead
      <4> QED
        BY <2>1, <4>1
  <2>2. CASE ~extended
    <3>1. extension = <<>>
      BY <1>2, <2>2
    <3> QED
      BY <2>2, <3>1
  <2> QED
    BY <2>1, <2>2
<1>13. attested =>
         /\ credential \in Seq(Byte)
         /\ HasCredentialId(d) /\ KeySize(d) # 0
         /\ KeyStart(d) + KeySize(d) = HeaderSize + Len(credential)
         /\ AttestedCredential(d) = c
  <2> SUFFICES ASSUME attested
               PROVE  /\ credential \in Seq(Byte)
                      /\ HasCredentialId(d) /\ KeySize(d) # 0
                      /\ KeyStart(d) + KeySize(d) = HeaderSize + Len(credential)
                      /\ AttestedCredential(d) = c
    OBVIOUS
  <2>1. c \in AttestedCredentials /\ credential = EncodedCredential(c)
    BY <1>2, <1>5
  <2>2. d = header \o EncodedCredential(c) \o extension
    BY <1>3, <2>1, Zenon
  <2>3. header \in Seq(Byte) /\ Len(header) = HeaderSize /\ extension \in Seq(Byte)
    BY <1>11, <1>12
  <2>4. /\ EncodedCredential(c) \in Seq(Byte)
        /\ HasCredentialId(d) /\ KeySize(d) # 0
        /\ KeyStart(d) + KeySize(d) = HeaderSize + Len(EncodedCredential(c))
        /\ AttestedCredential(d) = c
    BY <2>1, <2>2, <2>3, CredentialRead
  <2> QED
    BY <2>1, <2>4
<1>14. credential \in Seq(Byte) /\ (~attested => credential = <<>> /\ Len(credential) = 0)
  <2>1. CASE attested
    BY <1>13, <2>1
  <2>2. CASE ~attested
    <3>1. credential = <<>>
      BY <1>2, <2>2
    <3> QED
      BY <2>2, <3>1
  <2> QED
    BY <2>1, <2>2
<1>15. a4 \in Seq(Byte) /\ Len(a4) = HeaderSize + Len(credential)
  <2>1. header \in Seq(Byte) /\ credential \in Seq(Byte) /\ a4 = header \o credential
    BY <1>3, <1>11, <1>14
  <2>2. a4 \in Seq(Byte) /\ Len(a4) = Len(header) + Len(credential)
    BY <2>1, LastPartFound
  <2> QED
    BY <1>11, <2>2
<1>16. /\ d \in Seq(Byte) /\ Len(d) = Len(a4) + Len(extension)
       /\ Slice(d, Len(a4), Len(d)) = extension
  <2>1. a4 \in Seq(Byte) /\ extension \in Seq(Byte) /\ d = a4 \o extension
    BY <1>3, <1>12, <1>15
  <2>2. /\ d \in Seq(Byte) /\ Len(d) = Len(a4) + Len(extension)
        /\ Slice(d, Len(a4), Len(a4) + Len(extension)) = extension
    BY <2>1, LastPartFound
  <2> QED
    BY <2>2
<1>17. Begins(a1, d) /\ Begins(header, d) /\ Begins(a4, d)
  <2>1. Begins(a1, header)
    BY <1>3, <1>5, <1>10, Beginnings
  <2>2. Begins(header, a4)
    BY <1>3, <1>11, <1>14, Beginnings
  <2>3. Begins(a4, d)
    BY <1>3, <1>12, <1>15, Beginnings
  <2> QED
    BY <2>1, <2>2, <2>3, Beginnings, Zenon
\* What is read of it.
<1>18. /\ UserPresent(d) = a.userPresent /\ UserVerified(d) = a.userVerified
       /\ BackupEligible(d) = a.backupEligible /\ BackedUp(d) = a.backedUp
       /\ CredentialIncluded(d) = attested /\ ExtensionIncluded(d) = extended
  <2>1. {a.userPresent, a.userVerified, a.backupEligible, a.backedUp} \subseteq BOOLEAN
    BY AuthenticatorTypes
  <2>2. PICK up, uv, be, bu :
          /\ up = a.userPresent /\ uv = a.userVerified
          /\ be = a.backupEligible /\ bu = a.backedUp
    OBVIOUS
  <2>3. up \in BOOLEAN /\ uv \in BOOLEAN /\ be \in BOOLEAN /\ bu \in BOOLEAN
    BY <2>1, <2>2
  <2>4. f = Bit(up, 0) + Bit(uv, 2) + Bit(be, 3) + Bit(bu, 4)
              + Bit(attested, 6) + Bit(extended, 7) + 0
    BY <1>1, <2>2
  <2>5. At(d, HashSize) = f
    <3>1. HashSize + 1 \in 1..Len(a1)
      BY <1>6, <1>10
    <3>2. d[HashSize + 1] = a1[HashSize + 1]
      BY <1>17, <3>1 DEF Begins
    <3> QED
      BY <1>10, <3>2 DEF At
  <2>6. attested \in BOOLEAN /\ extended \in BOOLEAN
    BY <1>5
  <2>7. /\ UserPresent(d) = up /\ UserVerified(d) = uv
        /\ BackupEligible(d) = be /\ BackedUp(d) = bu
        /\ CredentialIncluded(d) = attested /\ ExtensionIncluded(d) = extended
    BY <2>3, <2>4, <2>5, <2>6, FlagsFound
  <2> QED
    BY <2>2, <2>7
<1>19. Slice(d, 0, HashSize) = hash
  <2>1. 0 \in Nat /\ HashSize \in Nat /\ 0 <= HashSize /\ HashSize <= Len(a1)
    BY <1>6, <1>10
  <2>2. Slice(d, 0, HashSize) = Slice(a1, 0, HashSize)
    BY <1>17, <2>1, SliceOfBeginning
  <2> QED
    BY <1>10, <2>2
<1>20. Slice(d, HashSize + 1, HeaderSize) = count
  <2>1. PICK from : from = HashSize + 1
    OBVIOUS
  <2>2. from \in Nat /\ HeaderSize \in Nat /\ from <= HeaderSize /\ HeaderSize <= Len(header)
    BY <1>6, <1>11, <2>1
  <2>3. Slice(d, from, HeaderSize) = Slice(header, from, HeaderSize)
    BY <1>17, <2>2, SliceOfBeginning
  <2> QED
    BY <1>11, <2>1, <2>3
<1>21. CredentialEnd(d) = Len(a4)
  <2>1. CASE attested
    <3>1. CredentialEnd(d) = KeyStart(d) + KeySize(d)
      BY <1>18, <2>1 DEF CredentialEnd
    <3> QED
      BY <1>13, <1>15, <2>1, <3>1
  <2>2. CASE ~attested
    <3>1. CredentialEnd(d) = HeaderSize
      BY <1>18, <2>2 DEF CredentialEnd
    <3>2. Len(a4) = HeaderSize
      BY <1>6, <1>14, <1>15, <2>2
    <3> QED
      BY <3>1, <3>2
  <2> QED
    BY <2>1, <2>2
<1>22. EndsAsFlagged(d)
  <2>1. From(d, CredentialEnd(d)) = extension
    BY <1>16, <1>21 DEF From
  <2>2. CASE extended
    BY <1>12, <1>18, <2>1, <2>2 DEF EndsAsFlagged
  <2>3. CASE ~extended
    <3>1. Len(d) = Len(a4)
      BY <1>12, <1>15, <1>16, <2>3
    <3> QED
      BY <1>18, <1>21, <2>3, <3>1 DEF EndsAsFlagged
  <2> QED
    BY <2>2, <2>3
<1>23. (IF ExtensionIncluded(d) THEN d[Len(d)] ELSE 0) = policy
  <2>1. CASE extended
    <3>1. PICK n, m : n = Len(a4) /\ m = Len(extension)
      OBVIOUS
    <3>2. n \in Nat /\ m \in Nat /\ m >= 1 /\ Len(d) = n + m /\ n + m \in Nat
      BY <1>12, <1>15, <1>16, <2>1, <3>1
    <3>3. PICK s : s = Slice(d, n, n + m)
      OBVIOUS
    <3>4. s = extension /\ Len(s) = m
      BY <1>16, <3>1, <3>2, <3>3
    <3>5. \A i \in 1..Len(s) : s[i] = d[n + i]
      <4>1. PICK to : to = n + m
        OBVIOUS
      <4>2. to \in Nat /\ n <= to /\ to <= Len(d) /\ s = Slice(d, n, to)
        BY <3>2, <3>3, <4>1
      <4> QED
        BY <1>16, <3>2, <4>2, SliceProperties
    <3>6. d[n + m] = extension[m]
      BY <3>2, <3>4, <3>5
    <3> QED
      BY <1>12, <1>18, <2>1, <3>1, <3>2, <3>6
  <2>2. CASE ~extended
    <3>1. policy = 0
      BY <1>1, <2>2
    <3> QED
      BY <1>18, <2>2, <3>1
  <2> QED
    BY <2>1, <2>2
<1>24. (IF CredentialIncluded(d) THEN AttestedCredential(d) ELSE None) = c
  <2>1. CASE attested
    BY <1>13, <1>18, <2>1
  <2>2. CASE ~attested
    <3>1. c = None
      BY <1>1, <2>2
    <3> QED
      BY <1>18, <2>2, <3>1
  <2> QED
    BY <2>1, <2>2
<1>25. /\ ~(Len(d) < HeaderSize)
       /\ CredentialIncluded(d) => HasCredentialId(d) /\ KeySize(d) # 0
  <2>1. Len(d) >= HeaderSize /\ Len(d) \in Nat
    <3>1. Len(header) <= Len(d) /\ d \in Seq(Byte)
      BY <1>17 DEF Begins
    <3> QED
      BY <1>11, <3>1
  <2>2. CredentialIncluded(d) => HasCredentialId(d) /\ KeySize(d) # 0
    BY <1>13, <1>18
  <2> QED
    BY <1>6, <2>1, <2>2
<1>26. ParseAuthenticatorData(d) =
         [ error              |-> "none",
           relyingPartyIdHash |-> hash,
           userPresent        |-> a.userPresent,
           userVerified       |-> a.userVerified,
           backupEligible     |-> a.backupEligible,
           backedUp           |-> a.backedUp,
           signCount          |-> count,
           attestedCredential |-> c,
           credentialProtectionPolicy |-> policy ]
  <2>1. ParseAuthenticatorData(d) =
         [ error          |-> "none",
           relyingPartyIdHash |-> Slice(d, 0, HashSize),
           userPresent    |-> UserPresent(d),
           userVerified   |-> UserVerified(d),
           backupEligible |-> BackupEligible(d),
           backedUp       |-> BackedUp(d),
           signCount      |-> Slice(d, HashSize + 1, HeaderSize),
           attestedCredential |->
             IF CredentialIncluded(d) THEN AttestedCredential(d) ELSE None,
           credentialProtectionPolicy |->
             IF ExtensionIncluded(d) THEN d[Len(d)] ELSE 0 ]
    BY <1>22, <1>25, Zenon DEF ParseAuthenticatorData
  <2> QED
    BY <1>18, <1>19, <1>20, <1>23, <1>24, <2>1, Zenon
<1>27. ParseAuthenticatorData(d) = a
  <2>1. a = [ error          |-> "none",
              relyingPartyIdHash |-> a.relyingPartyIdHash,
              userPresent        |-> a.userPresent,
              userVerified       |-> a.userVerified,
              backupEligible     |-> a.backupEligible,
              backedUp           |-> a.backedUp,
              signCount          |-> a.signCount,
              attestedCredential |-> a.attestedCredential,
              credentialProtectionPolicy |-> a.credentialProtectionPolicy ]
    BY AuthenticatorTypes
  <2> QED
    BY <1>1, <1>26, <2>1, Zenon
<1> QED
  BY <1>4, <1>16, <1>27

-----------------------------------------------------------------------------

\* Whatever happens to what authenticators have sent, it is bytes.
THEOREM DataAreBytes == WebAuthnSpec => [](data \in Seq(Byte))
<1>1. WebAuthnInit => data \in Seq(Byte)
  <2>1. \A a \in Authenticators : Encode(a, 0) \in Seq(Byte)
    BY EncodedIsRead
  <2> QED
    BY <2>1, SentAssumption DEF WebAuthnInit
<1>2. data \in Seq(Byte) /\ [WebAuthnNext]_vars => (data \in Seq(Byte))'
  <2> SUFFICES ASSUME data \in Seq(Byte), [WebAuthnNext]_vars
               PROVE  data' \in Seq(Byte)
    OBVIOUS
  <2>1. CASE Cut
    BY <2>1 DEF Cut
  <2>2. CASE Lengthen
    BY <2>2, DamagedAssumption DEF Lengthen, Byte
  <2>3. CASE Change
    BY <2>3, DamagedAssumption DEF Change, Byte
  <2>4. CASE UNCHANGED vars
    BY <2>4 DEF vars
  <2> QED
    BY <2>1, <2>2, <2>3, <2>4 DEF WebAuthnNext
<1> QED
  BY <1>1, <1>2, PTL DEF WebAuthnSpec

\* No key that is stored at registration is refused as a key at sign-in.
THEOREM StoredKeysUsable == WebAuthnSpec => []KeysStayUsable
<1>1. data \in Seq(Byte) => KeysStayUsable
  BY KeysStayUsableInBytes
<1> QED
  BY <1>1, DataAreBytes, PTL

\* Nothing of what is accepted is skipped, read twice or left over.
THEOREM AcceptedWhole == WebAuthnSpec => []NothingIsOverlooked
<1>1. data \in Seq(Byte) => NothingIsOverlooked
  BY AcceptedIsEncoded DEF NothingIsOverlooked, Read
<1> QED
  BY <1>1, DataAreBytes, PTL

\* The text is what the authenticator has encoded, until it is damaged.
Undamaged ==
  /\ sent \in Sent
  /\ damage \in Nat
  /\ damage = 0 => data = Encode(sent, 0)

\* What an authenticator has encoded is read as it was.
THEOREM WrittenIsRead == WebAuthnSpec => []ReadsWhatWasWritten
<1>1. WebAuthnInit => Undamaged
  BY DEF WebAuthnInit, Undamaged
<1>2. Undamaged /\ [WebAuthnNext]_vars => Undamaged'
  BY DEF Undamaged, WebAuthnNext, vars
<1>3. Undamaged => ReadsWhatWasWritten
  <2>1. \A a \in Authenticators : ParseAuthenticatorData(Encode(a, 0)) = a
    BY EncodedIsRead
  <2> QED
    BY <2>1, SentAssumption DEF Undamaged, ReadsWhatWasWritten, Read
<1> QED
  BY <1>1, <1>2, <1>3, PTL DEF WebAuthnSpec
=============================================================================
