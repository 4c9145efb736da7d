----------------------------- MODULE QueueProofs -----------------------------
(***************************************************************************)
(* Why a serial queue is one: the promises each caller waits for form, for *)
(* each key, a line that callers enter at its end and leave from its head, *)
(* so one caller of a key has its turn at a time.                          *)
(***************************************************************************)
EXTENDS KeyedSerialQueue, Naturals, Sequences, TLAPS

\* The line of a key is the sequence s.
Shape(line, k, s) ==
  /\ \A i, j \in 1..Len(s) : i # j => s[i] # s[j]
  /\ LinedUp(line, k) = {s[i] : i \in 1..Len(s)}
  /\ line.tail[k] = IF s = <<>> THEN None ELSE s[Len(s)]
  /\ \A i \in 1..Len(s) : line.prev[s[i]] = IF i = 1 THEN None ELSE s[i - 1]

Orderly(line) ==
  /\ line \in Lines
  /\ \A c \in Callers : line.prev[c] # Out => line.key[c] \in Keys
  /\ \A k \in Keys : \E s \in Seq(Callers) : Shape(line, k, s)

\* None and Out are not callers.
Apart == None \notin Callers /\ Out \notin Callers /\ None # Out

\* Nobody waits at first.
LEMMA EmptyOrderly == Orderly(NobodyInLine)
<1> DEFINE line == NobodyInLine
<1>1. line \in Lines /\ \A c \in Callers : line.prev[c] = Out
  BY DEF NobodyInLine, Lines
<1>2. ASSUME NEW k \in Keys PROVE \E s \in Seq(Callers) : Shape(line, k, s)
  <2>1. <<>> \in Seq(Callers) /\ Len(<<>>) = 0
    OBVIOUS
  <2>2. LinedUp(line, k) = {} /\ line.tail[k] = None
    BY <1>1 DEF LinedUp, NobodyInLine
  <2>3. Shape(line, k, <<>>)
    BY <2>1, <2>2 DEF Shape
  <2> QED
    BY <2>1, <2>3
<1> QED
  BY <1>1, <1>2 DEF Orderly

\* Two callers with the turn of one key are the same.
LEMMA OneTurn ==
  ASSUME Apart, NEW line, Orderly(line), NEW c \in Callers, NEW d \in Callers,
         HasTurn(line, c), HasTurn(line, d), line.key[c] = line.key[d]
  PROVE  c = d
<1> DEFINE k == line.key[c]
<1>1. c \in LinedUp(line, k) /\ d \in LinedUp(line, k) /\ k \in Keys
  BY DEF Apart, Orderly, HasTurn, LinedUp
<1>2. PICK s \in Seq(Callers) : Shape(line, k, s)
  BY <1>1 DEF Orderly
<1>3. PICK i \in 1..Len(s), j \in 1..Len(s) : c = s[i] /\ d = s[j]
  BY <1>1, <1>2 DEF Shape
<1>4. ASSUME NEW n \in 1..Len(s), line.prev[s[n]] = None PROVE n = 1
  <2> SUFFICES ASSUME n # 1 PROVE FALSE
    OBVIOUS
  <2>1. line.prev[s[n]] = s[n - 1] /\ n - 1 \in 1..Len(s)
    BY <1>2 DEF Shape
  <2>2. s[n - 1] \in Callers
    BY <2>1
  <2> QED
    BY <1>4, <2>1, <2>2 DEF Apart
<1> QED
  BY <1>3, <1>4 DEF HasTurn

\* Somebody among those who line up for a key has its turn.
LEMMA SomebodysTurn ==
  ASSUME Apart, NEW line, Orderly(line), NEW c \in Callers, line.prev[c] # Out
  PROVE  \E d \in Callers : HasTurn(line, d) /\ line.key[d] = line.key[c]
<1> DEFINE k == line.key[c]
<1>1. c \in LinedUp(line, k) /\ k \in Keys
  BY DEF Orderly, LinedUp
<1>2. PICK s \in Seq(Callers) : Shape(line, k, s)
  BY <1>1 DEF Orderly
<1>3. 1 \in 1..Len(s)
  BY <1>1, <1>2 DEF Shape
<1>4. s[1] \in LinedUp(line, k) /\ line.prev[s[1]] = None
  BY <1>2, <1>3 DEF Shape
<1> QED
  BY <1>4 DEF LinedUp, HasTurn

\* Whoever is waited for is lined up for the same key.
LEMMA WaitsBehind ==
  ASSUME Apart, NEW line, Orderly(line), NEW c \in Callers, line.prev[c] \in Callers
  PROVE  line.prev[line.prev[c]] # Out /\ line.key[line.prev[c]] = line.key[c]
<1> DEFINE k == line.key[c]
<1>1. c \in LinedUp(line, k) /\ k \in Keys
  BY DEF Apart, Orderly, LinedUp
<1>2. PICK s \in Seq(Callers) : Shape(line, k, s)
  BY <1>1 DEF Orderly
<1>3. PICK i \in 1..Len(s) : c = s[i]
  BY <1>1, <1>2 DEF Shape
<1>4. i # 1 /\ line.prev[c] = s[i - 1] /\ i - 1 \in 1..Len(s)
  BY <1>2, <1>3 DEF Shape, Apart
<1>5. s[i - 1] \in LinedUp(line, k)
  BY <1>2, <1>4 DEF Shape
<1> QED
  BY <1>4, <1>5 DEF LinedUp

\* A caller lines up at the end.
LEMMA JoinedOrderly ==
  ASSUME Apart, NEW line, Orderly(line), NEW c \in Callers, line.prev[c] = Out, NEW k \in Keys
  PROVE  /\ Orderly(Joined(line, k, c))
         /\ Joined(line, k, c).key[c] = k /\ Joined(line, k, c).prev[c] # Out
         /\ \A d \in Callers \ {c} : /\ Joined(line, k, c).prev[d] = line.prev[d]
                                     /\ Joined(line, k, c).key[d] = line.key[d]
<1> DEFINE new == Joined(line, k, c)
<1>1. line \in Lines /\ line.tail[k] # Out
  BY DEF Orderly, Lines, Apart
<1>2. /\ new \in Lines /\ new.key[c] = k /\ new.prev[c] = line.tail[k] /\ new.tail[k] = c
      /\ \A d \in Callers \ {c} : new.prev[d] = line.prev[d] /\ new.key[d] = line.key[d]
      /\ \A l \in Keys \ {k} : new.tail[l] = line.tail[l]
  BY <1>1 DEF Joined, Lines
<1> HIDE DEF new
<1>3. /\ LinedUp(new, k) = LinedUp(line, k) \cup {c} /\ c \notin LinedUp(line, k)
      /\ \A l \in Keys \ {k} : LinedUp(new, l) = LinedUp(line, l) /\ c \notin LinedUp(line, l)
  BY <1>1, <1>2 DEF LinedUp
<1>4. ASSUME NEW l \in Keys \ {k} PROVE \E s \in Seq(Callers) : Shape(new, l, s)
  <2>1. PICK s \in Seq(Callers) : Shape(line, l, s)
    BY DEF Orderly
  <2>2. \A i \in 1..Len(s) : s[i] \in Callers \ {c}
    BY <1>3, <2>1 DEF Shape
  <2>3. Shape(new, l, s)
    BY <1>2, <1>3, <2>1, <2>2 DEF Shape
  <2> QED
    BY <2>3
<1>5. \E s \in Seq(Callers) : Shape(new, k, s)
  <2>1. PICK s \in Seq(Callers) : Shape(line, k, s)
    BY DEF Orderly
  <2> DEFINE t == Append(s, c)
             n == Len(s)
  <2>2. /\ t \in Seq(Callers) /\ Len(t) = n + 1 /\ t[n + 1] = c /\ t # <<>>
        /\ n \in Nat /\ \A i \in 1..n : t[i] = s[i]
    OBVIOUS
  <2>3. \A i \in 1..n : s[i] \in Callers \ {c}
    BY <1>3, <2>1 DEF Shape
  <2> HIDE DEF t, n
  <2>4. \A i, j \in 1..(n + 1) : i # j => t[i] # t[j]
    BY <2>1, <2>2, <2>3 DEF Shape, n
  <2>5. LinedUp(new, k) = {t[i] : i \in 1..(n + 1)}
    <3>1. LinedUp(new, k) = {s[i] : i \in 1..n} \cup {c}
      BY <1>3, <2>1 DEF Shape, n
    <3> QED
      BY <2>2, <3>1
  <2>6. \A i \in 1..(n + 1) : new.prev[t[i]] = IF i = 1 THEN None ELSE t[i - 1]
    <3>1. ASSUME NEW i \in 1..n PROVE new.prev[t[i]] = IF i = 1 THEN None ELSE t[i - 1]
      <4>1. new.prev[t[i]] = line.prev[s[i]]
        BY <1>2, <2>2, <2>3
      <4>2. line.prev[s[i]] = IF i = 1 THEN None ELSE s[i - 1]
        BY <2>1 DEF Shape, n
      <4> QED
        BY <2>2, <4>1, <4>2
    <3>2. new.prev[t[n + 1]] = IF n + 1 = 1 THEN None ELSE t[n]
      <4>1. line.tail[k] = IF n = 0 THEN None ELSE s[n]
        BY <2>1 DEF Shape, n
      <4> QED
        BY <1>2, <2>2, <4>1
    <3> QED
      BY <2>2, <3>1, <3>2
  <2>7. Shape(new, k, t)
    BY <1>2, <2>2, <2>4, <2>5, <2>6 DEF Shape
  <2> QED
    BY <2>2, <2>7
<1>6. \A d \in Callers : new.prev[d] # Out => new.key[d] \in Keys
  BY <1>2 DEF Orderly
<1>7. Orderly(new)
  BY <1>2, <1>4, <1>5, <1>6 DEF Orderly
<1> QED
  BY <1>1, <1>2, <1>7 DEF new

\* The caller whose turn it is leaves.
LEMMA LeftOrderly ==
  ASSUME Apart, NEW line, Orderly(line), NEW c \in Callers, HasTurn(line, c)
  PROVE  /\ Orderly(Left(line, c)) /\ Left(line, c).prev[c] = Out
         /\ \A d \in Callers \ {c} :
              /\ Left(line, c).key[d] = line.key[d]
              /\ Left(line, c).prev[d] = IF line.prev[d] = c THEN None ELSE line.prev[d]
<1> DEFINE new == Left(line, c)
           k == line.key[c]
<1>1. line \in Lines /\ k \in Keys
  BY DEF Orderly, HasTurn, Apart
<1>2. /\ new \in Lines /\ new.prev[c] = Out
      /\ \A d \in Callers \ {c} : /\ new.key[d] = line.key[d]
                                  /\ new.prev[d] = IF line.prev[d] = c THEN None ELSE line.prev[d]
      /\ \A l \in Keys : new.tail[l] = IF line.tail[l] = c THEN None ELSE line.tail[l]
  BY <1>1 DEF Left, Lines
<1> HIDE DEF new
<1>3. \A d \in Callers \ {c} : new.prev[d] # Out <=> line.prev[d] # Out
  BY <1>2 DEF Apart
<1>4. /\ LinedUp(new, k) = LinedUp(line, k) \ {c} /\ c \in LinedUp(line, k)
      /\ \A l \in Keys \ {k} : LinedUp(new, l) = LinedUp(line, l) /\ c \notin LinedUp(line, l)
  BY <1>1, <1>2, <1>3 DEF LinedUp, HasTurn, Apart
<1>5. ASSUME NEW l \in Keys \ {k} PROVE \E s \in Seq(Callers) : Shape(new, l, s)
  <2>1. PICK s \in Seq(Callers) : Shape(line, l, s)
    BY DEF Orderly
  <2>2. \A i \in 1..Len(s) : s[i] \in Callers \ {c} /\ s[i] # c
    BY <1>4, <2>1 DEF Shape
  <2>3. \A i \in 1..Len(s) : new.prev[s[i]] = IF i = 1 THEN None ELSE s[i - 1]
    <3> SUFFICES ASSUME NEW i \in 1..Len(s)
                 PROVE  new.prev[s[i]] = IF i = 1 THEN None ELSE s[i - 1]
      OBVIOUS
    <3>1. line.prev[s[i]] = IF i = 1 THEN None ELSE s[i - 1]
      BY <2>1 DEF Shape
    <3>2. line.prev[s[i]] # c
      <4>1. CASE i = 1
        BY <3>1, <4>1 DEF Apart
      <4>2. CASE i # 1
        <5>1. i - 1 \in 1..Len(s)
          BY <4>2
        <5> QED
          BY <2>2, <3>1, <4>2, <5>1
      <4> QED
        BY <4>1, <4>2
    <3> QED
      BY <1>2, <2>2, <3>1, <3>2
  <2>4. new.tail[l] = line.tail[l]
    <3>1. s = <<>> => line.tail[l] = None
      BY <2>1 DEF Shape
    <3>2. s # <<>> => Len(s) \in 1..Len(s) /\ line.tail[l] = s[Len(s)]
      BY <2>1 DEF Shape
    <3> QED
      BY <1>2, <2>2, <3>1, <3>2 DEF Apart
  <2>5. Shape(new, l, s)
    BY <1>4, <2>1, <2>3, <2>4 DEF Shape
  <2> QED
    BY <2>5
<1>6. \E s \in Seq(Callers) : Shape(new, k, s)
  <2>1. PICK s \in Seq(Callers) : Shape(line, k, s)
    BY <1>1 DEF Orderly
  <2>2. PICK m \in 1..Len(s) : c = s[m]
    BY <1>4, <2>1 DEF Shape
  <2>3. m = 1
    <3> SUFFICES ASSUME m # 1 PROVE FALSE
      OBVIOUS
    <3>1. line.prev[c] = s[m - 1] /\ m - 1 \in 1..Len(s)
      BY <2>1, <2>2 DEF Shape
    <3>2. s[m - 1] \in Callers
      BY <3>1
    <3> QED
      BY <3>1, <3>2 DEF HasTurn, Apart
  <2> DEFINE t == Tail(s)
             n == Len(t)
  <2>4. /\ t \in Seq(Callers) /\ n \in Nat /\ Len(s) = n + 1 /\ s # <<>>
        /\ \A i \in 1..n : t[i] = s[i + 1]
    BY <2>2
  <2> HIDE DEF t, n
  <2>5. /\ \A i, j \in 1..(n + 1) : i # j => s[i] # s[j]
        /\ LinedUp(line, k) = {s[i] : i \in 1..(n + 1)}
        /\ line.tail[k] = s[n + 1]
        /\ \A i \in 1..(n + 1) : line.prev[s[i]] = IF i = 1 THEN None ELSE s[i - 1]
    <3>1. s # <<>> /\ Len(s) = n + 1
      BY <2>4
    <3>2. LinedUp(line, k) = {s[i] : i \in 1..(n + 1)} /\ line.tail[k] = s[n + 1]
      BY <2>1, <3>1, Zenon DEF Shape
    <3>3. \A i \in 1..(n + 1) : line.prev[s[i]] = IF i = 1 THEN None ELSE s[i - 1]
      BY <2>1, <3>1, Zenon DEF Shape
    <3>4. \A i, j \in 1..(n + 1) : i # j => s[i] # s[j]
      BY <2>1, <3>1, Zenon DEF Shape
    <3> QED
      BY <3>2, <3>3, <3>4
  <2>6. \A i \in 1..n : t[i] \in Callers \ {c}
    BY <2>2, <2>3, <2>4, <2>5
  <2>7. \A i, j \in 1..n : i # j => t[i] # t[j]
    BY <2>4, <2>5
  <2>8. LinedUp(new, k) = {t[i] : i \in 1..n}
    <3>1. LinedUp(new, k) = {s[i] : i \in 1..(n + 1)} \ {c}
      BY <1>4, <2>5
    <3>2. \A d \in {s[i] : i \in 1..(n + 1)} \ {c} : d \in {t[i] : i \in 1..n}
      <4> SUFFICES ASSUME NEW i \in 1..(n + 1), s[i] # c PROVE s[i] \in {t[j] : j \in 1..n}
        OBVIOUS
      <4>1. i # 1
        BY <2>2, <2>3
      <4>2. i - 1 \in 1..n /\ t[i - 1] = s[(i - 1) + 1] /\ (i - 1) + 1 = i
        BY <2>4, <4>1
      <4> QED
        BY <4>2
    <3>3. \A i \in 1..n : t[i] \in {s[j] : j \in 1..(n + 1)} \ {c}
      BY <2>4, <2>6
    <3> QED
      BY <3>1, <3>2, <3>3
  <2>9. \A i \in 1..n : new.prev[t[i]] = IF i = 1 THEN None ELSE t[i - 1]
    <3> SUFFICES ASSUME NEW i \in 1..n
                 PROVE  new.prev[t[i]] = IF i = 1 THEN None ELSE t[i - 1]
      OBVIOUS
    <3>1. line.prev[t[i]] = s[i]
      <4>1. i + 1 \in 1..(n + 1) /\ i + 1 # 1 /\ (i + 1) - 1 = i
        BY <2>4
      <4> QED
        BY <2>4, <2>5, <4>1
    <3>2. CASE i = 1
      <4>1. line.prev[t[i]] = c
        BY <2>2, <2>3, <3>1, <3>2
      <4> QED
        BY <1>2, <2>6, <3>2, <4>1
    <3>3. CASE i # 1
      <4>1. i - 1 \in 1..n /\ t[i - 1] = s[i]
        <5>1. i - 1 \in 1..n /\ (i - 1) + 1 = i
          BY <2>4, <3>3
        <5> QED
          BY <2>4, <5>1
      <4>2. t[i - 1] # c
        BY <2>6, <4>1
      <4> QED
        BY <1>2, <2>6, <3>1, <3>3, <4>1, <4>2
    <3> QED
      BY <3>2, <3>3
  <2>10. new.tail[k] = IF t = <<>> THEN None ELSE t[n]
    <3>1. CASE n = 0
      <4>1. t = <<>> /\ line.tail[k] = c
        BY <2>2, <2>3, <2>4, <2>5, <3>1 DEF n
      <4> QED
        BY <1>1, <1>2, <4>1
    <3>2. CASE n # 0
      <4>1. t # <<>> /\ n \in 1..n /\ t[n] = s[n + 1]
        BY <2>4, <3>2 DEF n
      <4> QED
        <5>1. line.tail[k] = t[n] /\ t[n] # c
          BY <2>5, <2>6, <4>1
        <5> QED
          BY <1>1, <1>2, <4>1, <5>1
    <3> QED
      BY <3>1, <3>2
  <2>11. Shape(new, k, t)
    BY <2>7, <2>8, <2>9, <2>10 DEF Shape, n
  <2> QED
    BY <2>4, <2>11
<1>7. \A d \in Callers : new.prev[d] # Out => new.key[d] \in Keys
  BY <1>2, <1>3 DEF Orderly
<1>8. Orderly(new)
  BY <1>2, <1>5, <1>6, <1>7 DEF Orderly
<1> QED
  BY <1>2, <1>8 DEF new
=============================================================================
